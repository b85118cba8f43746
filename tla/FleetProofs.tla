----------------------------- MODULE FleetProofs -----------------------------
(***************************************************************************)
(* What the parts around a fleet promise for any number of callers: the    *)
(* gateway's slots and its allowlist (Gateway), the mock engine's          *)
(* admissions and its tier (MockEngine), the trie they are stored in       *)
(* (KvCache), its processor sharing (PrefillScheduler), the endpoints of a *)
(* dynamic model (Endpoints), the totals of the engines' counters          *)
(* (EngineCounters), the series of the backends (BackendSeries), and the   *)
(* books of the prefill split (PrefillSplit).                              *)
(*                                                                         *)
(* Each keeps a count beside the set it counts; the invariants tie the two *)
(* together, at every place a caller may leave from.                       *)
(***************************************************************************)
EXTENDS Gateway, MockEngine, PrefillScheduler, Endpoints, EngineCounters, BackendSeries,
        PrefillSplit, Sums, FiniteSetTheorems, FunctionTheorems,
        SequenceTheorems, TLAPS

(* The gateway's middleware. *)

\* A path's segments; the empty one is named, since the provers do not know it a string.
Segments == STRING \cup {""}

Stages == {"new", "front", "slot", "mux", "proxy", "done"}
CallRecord == [stage : Stages, kind : Kinds, path : Seq(Segments), cred : Credentials,
               answer : {"none", "200", "204", "401", "404", "413", "500", "503", "closed"}]

GatewayType ==
  /\ conf.allow \subseteq {p \in Seq(Segments) : p # << >>}
  /\ call \in [Calls -> CallRecord]
  /\ sem \in Nat

\* What may go to a backend.
Cleared(path, cred) == PathAllowed(path) /\ (conf.key => cred = "right")

\* Whoever is past auth may go on with the path it has by then.
ClearedInv ==
  /\ \A c \in Calls : call[c].stage \in {"slot", "mux", "proxy"} => Cleared(call[c].path, call[c].cred)
  /\ \A u \in upstreamed : u.path \in Seq(Segments) /\ Cleared(u.path, u.cred)

SlotsInv == MaxConcurrent > 0 => sem = Cardinality(Inside) /\ sem <= MaxConcurrent

GatewayInv == GatewayType /\ ClearedInv /\ SlotsInv

\* An allowlist entry that admits a path is, by whole segments, the path's beginning.
LEMMA AdmittedBeginning ==
  ASSUME NEW entry \in Seq(Segments), entry # << >>, NEW p \in Seq(Segments), Admits(entry, p)
  PROVE  \E n \in 0..Len(p) :
           SubSeq(p, 1, n) = IF Last(entry) = "" THEN Front(entry) ELSE entry
<1>1. CASE Last(entry) = ""
  <2> DEFINE f == Front(entry)
  <2>1. f \in Seq(Segments) /\ Len(f) \in Nat
    BY DEF Front
  <2>2. Len(f) <= Len(p) /\ SubSeq(f, 1, Len(f)) = SubSeq(p, 1, Len(f))
    BY <1>1 DEF Admits, IsPrefix
  <2>3. SubSeq(f, 1, Len(f)) = f
    BY <2>1, SubSeqFull
  <2> HIDE DEF f
  <2>4. Len(f) \in 0..Len(p) /\ SubSeq(p, 1, Len(f)) = f
    BY <2>1, <2>2, <2>3, SMTT(30)
  <2>5. QED
    BY <1>1, <2>4 DEF f
<1>2. CASE Last(entry) # ""
  <2>1. Len(entry) <= Len(p) /\ SubSeq(entry, 1, Len(entry)) = SubSeq(p, 1, Len(entry))
    BY <1>2 DEF Admits, IsPrefix
  <2>2. SubSeq(entry, 1, Len(entry)) = entry
    BY SubSeqFull
  <2>3. Len(entry) \in 0..Len(p)
    BY <2>1
  <2>4. QED
    BY <1>2, <2>1, <2>2, <2>3
<1>3. QED
  BY <1>1, <1>2, ZenonT(40)

\* Where a call holds a slot.
Behind(stage) == stage \in {"mux", "proxy"}

\* The invariant speaks of the variables only.
LEMMA GatewayStutters ==
  GatewayInv /\ UNCHANGED gatewayVars => GatewayInv'
BY DEF GatewayInv, GatewayType, ClearedInv, SlotsInv, Cleared, PathAllowed, Inside, gatewayVars

\* What the slots of the calls behind the middleware number as one of them moves.
LEMMA InsideMoves ==
  ASSUME GatewayType, NEW c \in Calls, NEW r \in CallRecord, call' = [call EXCEPT ![c] = r]
  PROVE  /\ IsFiniteSet(Inside) /\ Cardinality(Inside) \in Nat
         /\ Behind(r.stage) = Behind(call[c].stage) => Cardinality(Inside') = Cardinality(Inside)
         /\ Behind(r.stage) /\ ~Behind(call[c].stage) => Cardinality(Inside') = Cardinality(Inside) + 1
         /\ ~Behind(r.stage) /\ Behind(call[c].stage) => Cardinality(Inside') = Cardinality(Inside) - 1
<1>1. IsFiniteSet(Inside)
  <2>1. Inside \subseteq Calls
    BY DEF Inside
  <2>2. QED
    BY <2>1, GatewayAssumption, FS_Subset
<1>2. Cardinality(Inside) \in Nat
  BY <1>1, FS_CardinalityType
<1>3. /\ call'[c] = r
      /\ \A d \in Calls \ {c} : call'[d] = call[d]
  BY DEF GatewayType
<1>4. c \in Inside <=> Behind(call[c].stage)
  BY DEF Inside, Behind
<1>5. CASE Behind(r.stage) = Behind(call[c].stage)
  <2>1. Inside' = Inside
    BY <1>3, <1>5 DEF Inside, Behind
  <2>2. QED
    BY <1>1, <1>2, <1>5, <2>1
<1>6. CASE Behind(r.stage) /\ ~Behind(call[c].stage)
  <2>1. Inside' = Inside \cup {c}
    BY <1>3, <1>6 DEF Inside, Behind
  <2>2. Cardinality(Inside \cup {c}) = Cardinality(Inside) + 1
    BY <1>1, <1>4, <1>6, FS_AddElement
  <2>3. QED
    BY <1>1, <1>2, <1>6, <2>1, <2>2
<1>7. CASE ~Behind(r.stage) /\ Behind(call[c].stage)
  <2>1. Inside' = Inside \ {c}
    BY <1>3, <1>7 DEF Inside, Behind
  <2>2. Cardinality(Inside \ {c}) = Cardinality(Inside) - 1
    BY <1>1, <1>4, <1>7, FS_RemoveElement
  <2>3. QED
    BY <1>1, <1>2, <1>7, <2>1, <2>2
<1>8. Behind(r.stage) \in BOOLEAN /\ Behind(call[c].stage) \in BOOLEAN
  BY DEF Behind
<1>9. QED
  BY <1>1, <1>2, <1>5, <1>6, <1>7, <1>8

\* A step of one call keeps the invariant when the call is cleared for where it goes,
\* what it forwards it was cleared for, and the counter moves with it.
LEMMA CallSteps ==
  ASSUME GatewayInv, NEW c \in Calls, NEW r \in CallRecord,
         call' = [call EXCEPT ![c] = r], conf' = conf,
         r.stage \in {"slot", "mux", "proxy"} => Cleared(r.path, r.cred),
         \/ upstreamed' = upstreamed
         \/ /\ call[c].stage = "mux"
            /\ upstreamed' = upstreamed \cup {[path |-> call[c].path, cred |-> call[c].cred]},
         MaxConcurrent = 0 => sem' = sem,
         MaxConcurrent > 0 =>
           \/ Behind(r.stage) = Behind(call[c].stage) /\ sem' = sem
           \/ /\ Behind(r.stage) /\ ~Behind(call[c].stage)
              /\ sem < MaxConcurrent /\ sem' = sem + 1
           \/ ~Behind(r.stage) /\ Behind(call[c].stage) /\ sem' = sem - 1
  PROVE  GatewayInv'
<1>1. GatewayType /\ ClearedInv /\ SlotsInv
  BY DEF GatewayInv
<1>2. MaxConcurrent \in Nat /\ sem \in Nat
  BY <1>1, GatewayAssumption DEF GatewayType
<1>3. /\ IsFiniteSet(Inside) /\ Cardinality(Inside) \in Nat
      /\ Behind(r.stage) = Behind(call[c].stage) => Cardinality(Inside') = Cardinality(Inside)
      /\ Behind(r.stage) /\ ~Behind(call[c].stage) => Cardinality(Inside') = Cardinality(Inside) + 1
      /\ ~Behind(r.stage) /\ Behind(call[c].stage) => Cardinality(Inside') = Cardinality(Inside) - 1
  BY <1>1, InsideMoves
<1>4. Behind(call[c].stage) => Cardinality(Inside) # 0
  <2>1. Behind(call[c].stage) => c \in Inside
    BY DEF Behind, Inside
  <2>2. Cardinality(Inside) = 0 => Inside = {}
    BY <1>3, FS_EmptySet
  <2>3. QED
    BY <2>1, <2>2
<1>5. SlotsInv'
  BY <1>1, <1>2, <1>3, <1>4 DEF SlotsInv
<1>6. call' \in [Calls -> CallRecord]
  BY <1>1 DEF GatewayType
<1>7. sem' \in Nat
  BY <1>1, <1>2, <1>3, <1>4 DEF SlotsInv
<1>8. GatewayType'
  BY <1>1, <1>6, <1>7 DEF GatewayType
<1>9. \A p, k : Cleared(p, k)' <=> Cleared(p, k)
  BY DEF Cleared, PathAllowed
<1>10. /\ call'[c] = r
       /\ \A d \in Calls \ {c} : call'[d] = call[d]
  BY <1>1 DEF GatewayType
<1>11. \A d \in Calls :
         call'[d].stage \in {"slot", "mux", "proxy"} => Cleared(call'[d].path, call'[d].cred)
  BY <1>1, <1>10 DEF ClearedInv
<1>12. \A u \in upstreamed' : u.path \in Seq(Segments) /\ Cleared(u.path, u.cred)
  <2>1. call[c].path \in Seq(Segments)
    BY <1>1 DEF GatewayType, CallRecord
  <2>2. call[c].stage = "mux" => Cleared(call[c].path, call[c].cred)
    BY <1>1 DEF ClearedInv
  <2>3. QED
    BY <1>1, <2>1, <2>2 DEF ClearedInv
<1>13. ClearedInv'
  BY <1>9, <1>11, <1>12 DEF ClearedInv
<1>14. QED
  BY <1>5, <1>8, <1>13 DEF GatewayInv

\* The path behind userPrefixMiddleware is a path.
LEMMA RealPathType ==
  ASSUME NEW p \in Seq(Segments)
  PROVE  RealPath(p) \in Seq(Segments)
<1>1. Len(p) > 1 => p # << >> /\ Tail(p) \in Seq(Segments)
  BY HeadTailProperties
<1>2. QED
  BY <1>1 DEF RealPath, SplitUserPrefix

\* An answer ends a call.
LEMMA AnsweredType ==
  ASSUME NEW a \in {"200", "204", "401", "404", "413", "500", "503", "closed"}
  PROVE  Answered(a) \in CallRecord /\ Answered(a).stage = "done"
<1>1. << "" >> \in Seq(Segments)
  BY DEF Segments
<1>2. QED
  BY <1>1 DEF Answered, CallRecord, Stages, Kinds, Credentials

\* The paths of the configuration, as the proofs need them.
LEMMA PathsAreSegments ==
  \A p \in Paths \cup DialectPaths \cup UNION Allowlists : p \in Seq(Segments) /\ p # << >>
<1>1. \A p \in Seq(STRING) : p \in Seq(Segments)
  <2>1. STRING \subseteq Segments
    BY DEF Segments
  <2>2. QED
    BY <2>1, SeqMonotonic
<1>2. QED
  BY <1>1, PathsAssumption

\* Init establishes it.
LEMMA GatewayStarts == GatewayInit => GatewayInv
<1> SUFFICES ASSUME GatewayInit PROVE GatewayInv
  OBVIOUS
<1>1. conf.allow \subseteq {p \in Seq(Segments) : p # << >>}
  <2>1. PICK k \in BOOLEAN, p \in BOOLEAN, a \in Allowlists :
          conf = [key |-> k, prefix |-> p, allow |-> Effective(k, a)]
    BY DEF GatewayInit
  <2>2. conf.allow = DialectPaths \/ conf.allow = a
    BY <2>1 DEF Effective
  <2>3. QED
    BY <2>2, PathsAreSegments
<1>2. call \in [Calls -> CallRecord]
  <2>1. << "" >> \in Seq(Segments)
    BY DEF Segments
  <2>2. QED
    BY <2>1 DEF GatewayInit, CallRecord, Stages, Kinds, Credentials
<1>3. sem \in Nat
  BY DEF GatewayInit
<1>4. ClearedInv
  BY DEF GatewayInit, ClearedInv
<1>5. SlotsInv
  <2>1. Inside = {}
    BY DEF GatewayInit, Inside
  <2>2. Cardinality({}) = 0
    BY FS_EmptySet
  <2>3. MaxConcurrent \in Nat
    BY GatewayAssumption
  <2>4. sem = 0
    BY DEF GatewayInit
  <2>5. sem = Cardinality(Inside) /\ sem <= MaxConcurrent
    BY <2>1, <2>2, <2>3, <2>4
  <2>6. QED
    BY <2>5 DEF SlotsInv
<1>6. QED
  BY <1>1, <1>2, <1>3, <1>4, <1>5 DEF GatewayInv, GatewayType

\* A call that is answered where it holds no slot, or gives its slot back.
LEMMA CallEnds ==
  ASSUME GatewayInv, NEW c \in Calls,
         NEW a \in {"200", "204", "401", "404", "413", "500", "503", "closed"},
         call' = [call EXCEPT ![c] = Answered(a)], conf' = conf, upstreamed' = upstreamed,
         \/ ~Behind(call[c].stage) /\ sem' = sem
         \/ Behind(call[c].stage) /\ sem' = Freed
  PROVE  GatewayInv'
<1>1. Answered(a) \in CallRecord /\ Answered(a).stage = "done"
  BY AnsweredType
<1>2. MaxConcurrent = 0 => sem' = sem
  BY DEF Freed
<1>3. ~Behind(Answered(a).stage)
  BY <1>1 DEF Behind
<1>4. MaxConcurrent > 0 =>
        \/ ~Behind(call[c].stage) /\ sem' = sem
        \/ Behind(call[c].stage) /\ sem' = sem - 1
  BY GatewayAssumption DEF Freed
<1> DEFINE r == Answered(a)
<1> HIDE DEF r
<1>5. /\ r \in CallRecord /\ r.stage = "done" /\ ~Behind(r.stage)
      /\ call' = [call EXCEPT ![c] = r]
  BY <1>1, <1>3 DEF r
<1>6. MaxConcurrent > 0 =>
        \/ Behind(r.stage) = Behind(call[c].stage) /\ sem' = sem
        \/ ~Behind(r.stage) /\ Behind(call[c].stage) /\ sem' = sem - 1
  BY <1>4, <1>5 DEF Behind
<1>7. r.stage \notin {"slot", "mux", "proxy"}
  BY <1>5
<1>8. QED
  BY <1>2, <1>5, <1>6, <1>7, CallSteps

\* Every step of the gateway preserves it.
LEMMA GatewayKeeps == GatewayInv /\ [GatewayNext]_gatewayVars => GatewayInv'
<1> SUFFICES ASSUME GatewayInv, [GatewayNext]_gatewayVars PROVE GatewayInv'
  OBVIOUS
<1>0. CASE UNCHANGED gatewayVars
  BY <1>0, GatewayStutters
<1> SUFFICES ASSUME GatewayNext PROVE GatewayInv'
  BY <1>0
<1>1. PICK c \in Calls :
        \/ \E k \in Kinds, p \in Paths, cr \in Credentials : Arrives(c, k, p, cr)
        \/ Middleware(c) \/ Slot(c) \/ Proxied(c) \/ ProxyAnswers(c)
        \/ \E a \in {"200", "404", "413", "503"} : Locally(c, a)
        \/ \E how \in {"abort", "panic"} : ProxyPanics(c, how)
  BY DEF GatewayNext
<1>2. /\ GatewayType /\ ClearedInv /\ SlotsInv
      /\ call \in [Calls -> CallRecord] /\ call[c] \in CallRecord
  BY DEF GatewayInv, GatewayType
<1>3. MaxConcurrent \in Nat /\ sem \in Nat
  BY <1>2, GatewayAssumption DEF GatewayType
<1>4. ASSUME NEW k \in Kinds, NEW p \in Paths, NEW cr \in Credentials, Arrives(c, k, p, cr)
      PROVE  GatewayInv'
  <2> DEFINE r == [call[c] EXCEPT !.stage = "front", !.kind = k, !.path = p, !.cred = cr]
  <2>1. p \in Seq(Segments)
    BY PathsAreSegments
  <2>2. /\ r \in CallRecord /\ r.stage = "front" /\ ~Behind(r.stage)
        /\ call' = [call EXCEPT ![c] = r]
    BY <1>2, <1>4, <2>1 DEF Arrives, CallRecord, Stages, Behind
  <2>3. /\ ~Behind(call[c].stage) /\ conf' = conf /\ sem' = sem /\ upstreamed' = upstreamed
    BY <1>4 DEF Arrives, Behind
  <2> HIDE DEF r
  <2>4. Behind(r.stage) = Behind(call[c].stage) /\ r.stage \notin {"slot", "mux", "proxy"}
    BY <2>2, <2>3 DEF Behind
  <2>5. QED
    BY <2>2, <2>3, <2>4, CallSteps
<1>5. ASSUME Middleware(c)
      PROVE  GatewayInv'
  <2>1. /\ call[c].stage = "front" /\ ~Behind(call[c].stage)
        /\ conf' = conf /\ sem' = sem /\ upstreamed' = upstreamed
    BY <1>5 DEF Middleware, Behind
  <2>2. CASE FrontAnswer(c) = "pass"
    <3> DEFINE r == [call[c] EXCEPT !.stage = "slot", !.path = RealPath(call[c].path)]
    <3>1. RealPath(call[c].path) \in Seq(Segments)
      BY <1>2, RealPathType DEF CallRecord
    <3>2. /\ r \in CallRecord /\ r.stage = "slot"
          /\ r.path = RealPath(call[c].path) /\ r.cred = call[c].cred
      BY <1>2, <3>1 DEF CallRecord, Stages
    <3>3. call' = [call EXCEPT ![c] = r]
      BY <1>2, <1>5, <2>2 DEF Middleware, CallRecord
    <3>4. Cleared(RealPath(call[c].path), call[c].cred)
      BY <2>2 DEF FrontAnswer, SeenByAuth, CredentialValid, Cleared
    <3> HIDE DEF r
    <3>5. Behind(r.stage) = Behind(call[c].stage) /\ Cleared(r.path, r.cred)
      BY <2>1, <3>2, <3>4 DEF Behind
    <3>6. QED
      BY <2>1, <3>2, <3>3, <3>5, CallSteps
  <2>3. CASE FrontAnswer(c) # "pass"
    <3>1. FrontAnswer(c) \in {"204", "404", "401"}
      BY <2>3 DEF FrontAnswer
    <3>2. call' = [call EXCEPT ![c] = Answered(FrontAnswer(c))]
      BY <1>5, <2>3 DEF Middleware
    <3>3. QED
      BY <2>1, <3>1, <3>2, CallEnds
  <2>4. QED
    BY <2>2, <2>3
<1>6. ASSUME Slot(c)
      PROVE  GatewayInv'
  <2>1. /\ call[c].stage = "slot" /\ ~Behind(call[c].stage)
        /\ conf' = conf /\ upstreamed' = upstreamed
        /\ Cleared(call[c].path, call[c].cred)
    BY <1>2, <1>6 DEF Slot, Behind, ClearedInv
  <2>2. CASE MaxConcurrent = 0 \/ sem < MaxConcurrent
    <3> DEFINE r == [call[c] EXCEPT !.stage = "mux"]
    <3>1. /\ r \in CallRecord /\ r.stage = "mux" /\ r.path = call[c].path /\ r.cred = call[c].cred
      BY <1>2 DEF CallRecord, Stages
    <3>2. call' = [call EXCEPT ![c] = r]
      BY <1>2, <1>6, <2>2 DEF Slot
    <3>3. sem' = IF MaxConcurrent = 0 THEN sem ELSE sem + 1
      BY <1>6, <2>2 DEF Slot
    <3> HIDE DEF r
    <3>4. Behind(r.stage) /\ Cleared(r.path, r.cred)
      BY <2>1, <3>1 DEF Behind
    <3>5. MaxConcurrent > 0 => sem < MaxConcurrent /\ sem' = sem + 1
      BY <1>3, <2>2, <3>3
    <3>6. MaxConcurrent = 0 => sem' = sem
      BY <3>3
    <3>7. QED
      BY <2>1, <3>1, <3>2, <3>4, <3>5, <3>6, CallSteps
  <2>3. CASE ~(MaxConcurrent = 0 \/ sem < MaxConcurrent)
    <3>1. sem' = sem /\ call' = [call EXCEPT ![c] = Answered("503")]
      BY <1>6, <2>3 DEF Slot
    <3>2. QED
      BY <2>1, <3>1, CallEnds
  <2>4. QED
    BY <2>2, <2>3
<1>7. ASSUME Proxied(c)
      PROVE  GatewayInv'
  <2> DEFINE r == [call[c] EXCEPT !.stage = "proxy"]
  <2>1. /\ call[c].stage = "mux" /\ Behind(call[c].stage) /\ conf' = conf /\ sem' = sem
        /\ upstreamed' = upstreamed \cup {[path |-> call[c].path, cred |-> call[c].cred]}
        /\ Cleared(call[c].path, call[c].cred)
    BY <1>2, <1>7 DEF Proxied, Behind, ClearedInv
  <2>2. /\ r \in CallRecord /\ r.stage = "proxy" /\ r.path = call[c].path /\ r.cred = call[c].cred
    BY <1>2 DEF CallRecord, Stages
  <2>3. call' = [call EXCEPT ![c] = r]
    BY <1>2, <1>7 DEF Proxied
  <2> HIDE DEF r
  <2>4. Behind(r.stage) = Behind(call[c].stage) /\ Cleared(r.path, r.cred)
    BY <2>1, <2>2 DEF Behind
  <2>5. QED
    BY <2>1, <2>2, <2>3, <2>4, CallSteps
<1>8. ASSUME ProxyAnswers(c)
      PROVE  GatewayInv'
  <2>1. /\ Behind(call[c].stage) /\ sem' = Freed /\ conf' = conf /\ upstreamed' = upstreamed
        /\ call' = [call EXCEPT ![c] = Answered("200")]
    BY <1>8 DEF ProxyAnswers, Behind
  <2>2. QED
    BY <2>1, CallEnds
<1>9. ASSUME NEW a \in {"200", "404", "413", "503"}, Locally(c, a)
      PROVE  GatewayInv'
  <2>1. /\ Behind(call[c].stage) /\ sem' = Freed /\ conf' = conf /\ upstreamed' = upstreamed
        /\ call' = [call EXCEPT ![c] = Answered(a)]
    BY <1>9 DEF Locally, Behind
  <2>2. QED
    BY <2>1, CallEnds
<1>10. ASSUME NEW how \in {"abort", "panic"}, ProxyPanics(c, how)
      PROVE  GatewayInv'
  <2>1. /\ Behind(call[c].stage) /\ sem' = Freed /\ conf' = conf /\ upstreamed' = upstreamed
        /\ call' = [call EXCEPT ![c] = Answered(IF how = "abort" THEN "closed" ELSE "500")]
    BY <1>10 DEF ProxyPanics, Unwound, Behind
  <2>2. (IF how = "abort" THEN "closed" ELSE "500") \in {"closed", "500"}
    OBVIOUS
  <2>3. QED
    BY <2>1, <2>2, CallEnds
<1>11. QED
  BY <1>1, <1>4, <1>5, <1>6, <1>7, <1>8, <1>9, <1>10

\* REL-10, AUTH-4 and AUTH-7 for any number of requests, any paths and any allowlist
\* (middleware.go:207-222, 338-437, gateway.go:66-93): the slots taken are the requests
\* behind concurrencyMiddleware however they leave, and what reaches a backend was
\* authorised under the path it is forwarded with.
THEOREM GatewayHolds == GatewaySpec => []GatewaySound
<1>1. GatewayInv => GatewaySound
  <2> SUFFICES ASSUME GatewayInv PROVE GatewaySound
    OBVIOUS
  <2>1. GatewayType /\ ClearedInv /\ SlotsInv
    BY DEF GatewayInv
  <2>2. ASSUME NEW u \in upstreamed, conf.allow # {}
        PROVE  \E entry \in conf.allow, n \in 0..Len(u.path) :
                 SubSeq(u.path, 1, n) = IF Last(entry) = "" THEN Front(entry) ELSE entry
    <3>1. u.path \in Seq(Segments) /\ PathAllowed(u.path)
      BY <2>1 DEF ClearedInv, Cleared
    <3>2. PICK entry \in conf.allow : Admits(entry, u.path)
      BY <2>2, <3>1 DEF PathAllowed
    <3>3. entry \in Seq(Segments) /\ entry # << >>
      BY <2>1, <3>2 DEF GatewayType
    <3>4. QED
      BY <3>1, <3>2, <3>3, AdmittedBeginning
  <2>3. \A u \in upstreamed : conf.key => u.cred = "right"
    BY <2>1 DEF ClearedInv, Cleared
  <2>4. QED
    BY <2>1, <2>2, <2>3 DEF GatewaySound, SlotsInv
<1>2. QED
  BY <1>1, GatewayStarts, GatewayKeeps, PTL DEF GatewaySpec

-----------------------------------------------------------------------------
(* The mock engine.                                                        *)

AdmittedAt == {"pin", "prefill", "decode", "append", "publish", "unpin", "exit"}
EngineCall ==
  [pc : {"idle", "check", "enter", "bounce"} \cup AdmittedAt, units : ServedUnits \cup {<< >>},
   stream : BOOLEAN, bypass : BOOLEAN, generated : Int]

CallsAt(f, S) == {o \in Owners : f[o].pc \in S}

\* The counter counts the calls that will lower it again, and a call past its prefill
\* has had its blocks computed.
EngineInv ==
  /\ calls \in [Owners -> EngineCall]
  /\ inflight = Cardinality(CallsAt(calls, AdmittedAt)) + Cardinality(CallsAt(calls, {"bounce"}))
  /\ MaxConcurrency > 0 => Cardinality(CallsAt(calls, AdmittedAt)) <= MaxConcurrency
  /\ \A o \in Owners : calls[o].pc \in {"decode", "append", "publish"} =>
                         ChainOf(calls[o].units) \subseteq computed
  /\ tier \subseteq computed

\* How many calls are in given places as one of them moves.
LEMMA CallsMove ==
  ASSUME NEW S, calls \in [Owners -> EngineCall], NEW o \in Owners, NEW r \in EngineCall,
         calls' = [calls EXCEPT ![o] = r]
  PROVE  /\ Cardinality(CallsAt(calls, S)) \in Nat
         /\ (r.pc \in S <=> calls[o].pc \in S) => Cardinality(CallsAt(calls', S)) = Cardinality(CallsAt(calls, S))
         /\ r.pc \in S /\ calls[o].pc \notin S =>
              Cardinality(CallsAt(calls', S)) = Cardinality(CallsAt(calls, S)) + 1
         /\ r.pc \notin S /\ calls[o].pc \in S =>
              Cardinality(CallsAt(calls', S)) = Cardinality(CallsAt(calls, S)) - 1
<1>1. IsFiniteSet(CallsAt(calls, S))
  <2>1. CallsAt(calls, S) \subseteq Owners
    BY DEF CallsAt
  <2>2. QED
    BY <2>1, KvAssumption, FS_Subset
<1>2. Cardinality(CallsAt(calls, S)) \in Nat
  BY <1>1, FS_CardinalityType
<1>3. calls'[o] = r /\ \A x \in Owners \ {o} : calls'[x] = calls[x]
  OBVIOUS
<1>4. o \in CallsAt(calls, S) <=> calls[o].pc \in S
  BY DEF CallsAt
<1>5. ASSUME r.pc \in S <=> calls[o].pc \in S
      PROVE  CallsAt(calls', S) = CallsAt(calls, S)
  BY <1>3, <1>5 DEF CallsAt
<1>6. ASSUME r.pc \in S, calls[o].pc \notin S
      PROVE  Cardinality(CallsAt(calls', S)) = Cardinality(CallsAt(calls, S)) + 1
  <2>1. CallsAt(calls', S) = CallsAt(calls, S) \cup {o}
    BY <1>3, <1>6 DEF CallsAt
  <2>2. QED
    BY <1>1, <1>4, <1>6, <2>1, FS_AddElement
<1>7. ASSUME r.pc \notin S, calls[o].pc \in S
      PROVE  Cardinality(CallsAt(calls', S)) = Cardinality(CallsAt(calls, S)) - 1
  <2>1. CallsAt(calls', S) = CallsAt(calls, S) \ {o}
    BY <1>3, <1>7 DEF CallsAt
  <2>2. QED
    BY <1>1, <1>4, <1>7, <2>1, FS_RemoveElement
<1>8. QED
  BY <1>2, <1>5, <1>6, <1>7

\* A step of one call keeps the invariant when the counter moves with its place and
\* blocks are computed before they are relied on.
LEMMA EngineCallSteps ==
  ASSUME EngineInv, NEW o \in Owners, NEW r \in EngineCall,
         calls' = [calls EXCEPT ![o] = r],
         computed \subseteq computed', tier' \subseteq computed',
         r.pc \in {"decode", "append", "publish"} => ChainOf(r.units) \subseteq computed',
         LET from == calls[o].pc
             to == r.pc
         IN  \/ /\ from \in AdmittedAt <=> to \in AdmittedAt
                /\ from = "bounce" <=> to = "bounce"
                /\ inflight' = inflight
             \/ /\ from \notin AdmittedAt \cup {"bounce"} /\ to \in AdmittedAt
                /\ ~OverLimit(inflight + 1) /\ inflight' = inflight + 1
             \/ /\ from \notin AdmittedAt \cup {"bounce"} /\ to = "bounce"
                /\ inflight' = inflight + 1
             \/ /\ from \in AdmittedAt \cup {"bounce"} /\ to \notin AdmittedAt \cup {"bounce"}
                /\ inflight' = inflight - 1
  PROVE  EngineInv'
<1> DEFINE a == Cardinality(CallsAt(calls, AdmittedAt))
           b == Cardinality(CallsAt(calls, {"bounce"}))
           a1 == Cardinality(CallsAt(calls', AdmittedAt))
           b1 == Cardinality(CallsAt(calls', {"bounce"}))
           from == calls[o].pc
           to == r.pc
<1>1. calls \in [Owners -> EngineCall] /\ MaxConcurrency \in Nat
  BY EngineAssumption DEF EngineInv
<1>2. /\ a \in Nat
      /\ (to \in AdmittedAt <=> from \in AdmittedAt) => a1 = a
      /\ to \in AdmittedAt /\ from \notin AdmittedAt => a1 = a + 1
      /\ to \notin AdmittedAt /\ from \in AdmittedAt => a1 = a - 1
  BY <1>1, CallsMove
<1>3. /\ b \in Nat
      /\ (to \in {"bounce"} <=> from \in {"bounce"}) => b1 = b
      /\ to \in {"bounce"} /\ from \notin {"bounce"} => b1 = b + 1
      /\ to \notin {"bounce"} /\ from \in {"bounce"} => b1 = b - 1
  BY <1>1, CallsMove
<1>4. inflight = a + b /\ (MaxConcurrency > 0 => a <= MaxConcurrency)
  BY DEF EngineInv
<1>5. "bounce" \notin AdmittedAt
  BY DEF AdmittedAt
<1>6. \/ from \in AdmittedAt /\ to \in AdmittedAt /\ inflight' = inflight
      \/ from \notin AdmittedAt /\ to \notin AdmittedAt /\ (from = "bounce" <=> to = "bounce")
         /\ inflight' = inflight
      \/ /\ from \notin AdmittedAt /\ from # "bounce" /\ to \in AdmittedAt
         /\ ~OverLimit(inflight + 1) /\ inflight' = inflight + 1
      \/ /\ from \notin AdmittedAt /\ from # "bounce" /\ to = "bounce"
         /\ inflight' = inflight + 1
      \/ /\ from \in AdmittedAt \/ from = "bounce"
         /\ to \notin AdmittedAt /\ to # "bounce" /\ inflight' = inflight - 1
  OBVIOUS
<1> HIDE DEF a, b, a1, b1, from, to
<1>7. inflight' = a1 + b1 /\ (MaxConcurrency > 0 => a1 <= MaxConcurrency)
  BY <1>1, <1>2, <1>3, <1>4, <1>5, <1>6 DEF OverLimit
<1>8. calls' \in [Owners -> EngineCall]
  BY <1>1
<1>9. ASSUME NEW x \in Owners, calls'[x].pc \in {"decode", "append", "publish"}
      PROVE  ChainOf(calls'[x].units) \subseteq computed'
  <2>1. CASE x = o
    BY <1>1, <1>9, <2>1
  <2>2. CASE x # o
    BY <1>1, <1>9, <2>2 DEF EngineInv
  <2>3. QED
    BY <2>1, <2>2
<1>10. QED
  BY <1>7, <1>8, <1>9 DEF EngineInv, a1, b1

\* The invariant of its own variables.
LEMMA EngineStutters == EngineInv /\ UNCHANGED engineVars => EngineInv'
BY DEF EngineInv, engineVars, CallsAt

\* A caller's record between requests, and as it gives its slot back.
LEMMA NoRequestType ==
  /\ NoRequest \in EngineCall /\ NoRequest.pc = "idle"
  /\ [NoRequest EXCEPT !.pc = "exit"] \in EngineCall
  /\ [NoRequest EXCEPT !.pc = "exit"].pc = "exit"
<1>1. NoRequest \in EngineCall /\ NoRequest.pc = "idle"
  BY DEF NoRequest, EngineCall
<1>2. [NoRequest EXCEPT !.pc = "exit"].pc = "exit"
  BY DEF NoRequest
<1>3. ASSUME NEW c \in EngineCall
      PROVE  [c EXCEPT !.pc = "exit"] \in EngineCall
  BY DEF EngineCall, AdmittedAt
<1>4. QED
  BY <1>1, <1>2, <1>3

\* A call that goes on where it is: neither the counter nor the tier changes.
LEMMA EngineGoes ==
  ASSUME EngineInv, NEW o \in Owners, NEW pc \in AdmittedAt,
         calls[o].pc \in AdmittedAt, calls' = [calls EXCEPT ![o].pc = pc],
         inflight' = inflight, computed \subseteq computed', tier' \subseteq computed',
         pc \in {"decode", "append", "publish"} => ChainOf(calls[o].units) \subseteq computed'
  PROVE  EngineInv'
<1> DEFINE r == [calls[o] EXCEPT !.pc = pc]
<1>1. calls \in [Owners -> EngineCall] /\ calls[o] \in EngineCall
  BY DEF EngineInv
<1>2. r \in EngineCall /\ r.pc = pc /\ r.units = calls[o].units /\ calls' = [calls EXCEPT ![o] = r]
  BY <1>1 DEF EngineCall
<1> HIDE DEF r
<1>3. pc # "bounce" /\ calls[o].pc # "bounce"
  BY DEF AdmittedAt
<1>4. QED
  BY <1>2, <1>3, EngineCallSteps

\* Every step of the engine preserves it.
LEMMA EngineKeeps == EngineInv /\ [EngineNext]_<< kvVars, engineVars >> => EngineInv'
<1> SUFFICES ASSUME EngineInv, [EngineNext]_<< kvVars, engineVars >> PROVE EngineInv'
  OBVIOUS
<1>0. CASE UNCHANGED << kvVars, engineVars >>
  BY <1>0, EngineStutters
<1>1. /\ calls \in [Owners -> EngineCall] /\ tier \subseteq computed
      /\ \A o \in Owners : calls[o] \in EngineCall
  BY DEF EngineInv
<1>2. ASSUME NEW o \in Owners,
             Pin(o) \/ AppendOutput(o) \/ ReleasePin(o)
      PROVE  EngineInv'
  <2>1. inflight' = inflight /\ tier' = tier /\ computed' = computed
    BY <1>2 DEF Pin, AppendOutput, ReleasePin
  <2>2. CASE Pin(o)
    <3>1. calls[o].pc = "pin" /\ calls' = [calls EXCEPT ![o].pc = "prefill"]
      BY <2>2 DEF Pin, At, Goto
    <3>2. QED
      BY <1>1, <2>1, <3>1, EngineGoes DEF AdmittedAt
  <2>3. CASE AppendOutput(o)
    <3> DEFINE r == [calls[o] EXCEPT !.pc = "publish", !.generated = 0]
    <3>1. /\ calls[o].pc = "append" /\ ChainOf(calls[o].units) \subseteq computed
          /\ calls' = [calls EXCEPT ![o] = r]
      BY <1>1, <2>3 DEF AppendOutput, At, EngineInv
    <3>2. r \in EngineCall
      <4>1. ASSUME NEW n \in Int
            PROVE  [calls[o] EXCEPT !.pc = "publish", !.generated = n] \in EngineCall
        BY <1>1 DEF EngineCall, AdmittedAt
      <4>2. 0 \in Int
        OBVIOUS
      <4>3. QED
        BY <4>1, <4>2
    <3>3. r.pc = "publish" /\ r.units = calls[o].units
      BY <1>1 DEF EngineCall
    <3>4. {"append", "publish"} \subseteq AdmittedAt
      BY DEF AdmittedAt
    <3> HIDE DEF r
    <3>5. QED
      BY <1>1, <2>1, <3>1, <3>2, <3>3, <3>4, EngineCallSteps
  <2>4. CASE ReleasePin(o)
    <3> DEFINE r == [NoRequest EXCEPT !.pc = "exit"]
    <3>1. r \in EngineCall /\ r.pc = "exit"
      BY NoRequestType
    <3>2. calls[o].pc = "unpin" /\ calls' = [calls EXCEPT ![o] = r]
      BY <2>4 DEF ReleasePin, At
    <3>3. {"unpin", "exit"} \subseteq AdmittedAt
      BY DEF AdmittedAt
    <3> HIDE DEF r
    <3>4. QED
      BY <1>1, <2>1, <3>1, <3>2, <3>3, EngineCallSteps
  <2>5. QED
    BY <1>2, <2>2, <2>3, <2>4
<1>3. ASSUME NEW o \in Owners, NEW us \in ServedUnits, EngineArrives(o, us)
      PROVE  EngineInv'
  <2>1. PICK st \in BOOLEAN, by \in BOOLEAN :
          calls' = [calls EXCEPT ![o] = [NoRequest EXCEPT !.pc = "check", !.units = us,
                                                  !.stream = st, !.bypass = by]]
    BY <1>3 DEF EngineArrives
  <2> DEFINE r == [NoRequest EXCEPT !.pc = "check", !.units = us, !.stream = st, !.bypass = by]
  <2>2. r \in EngineCall /\ r.pc = "check" /\ calls' = [calls EXCEPT ![o] = r]
    <3>1. ASSUME NEW c \in EngineCall
          PROVE  LET d == [c EXCEPT !.pc = "check", !.units = us, !.stream = st, !.bypass = by]
                 IN  d \in EngineCall /\ d.pc = "check"
      BY DEF EngineCall
    <3>2. QED
      BY <2>1, <3>1, NoRequestType
  <2>3. calls[o].pc = "idle" /\ inflight' = inflight /\ tier' = tier /\ computed' = computed
    BY <1>3 DEF EngineArrives, At
  <2>4. {"idle", "check"} \cap AdmittedAt = {}
    BY DEF AdmittedAt
  <2> HIDE DEF r
  <2>5. QED
    BY <1>1, <2>2, <2>3, <2>4, EngineCallSteps
<1>4. ASSUME NEW o \in Owners, CheckPrefill(o)
      PROVE  EngineInv'
  <2>1. calls[o].pc = "check" /\ inflight' = inflight /\ tier' = tier /\ computed' = computed
    BY <1>4 DEF CheckPrefill, At
  <2>2. {"idle", "check", "enter"} \cap AdmittedAt = {}
    BY DEF AdmittedAt
  <2>3. PICK r \in EngineCall : r.pc \in {"idle", "enter"} /\ calls' = [calls EXCEPT ![o] = r]
    <3>1. CASE RejectsPrefill(calls[o].units, calls[o].bypass)
      BY <1>4, <3>1, NoRequestType DEF CheckPrefill
    <3>2. CASE ~RejectsPrefill(calls[o].units, calls[o].bypass)
      <4> DEFINE r == [calls[o] EXCEPT !.pc = "enter", !.bypass = FALSE]
      <4>1. r \in EngineCall /\ r.pc = "enter"
        BY <1>1 DEF EngineCall
      <4>2. calls' = [calls EXCEPT ![o] = r]
        BY <1>1, <1>4, <3>2 DEF CheckPrefill
      <4> HIDE DEF r
      <4>3. QED
        BY <4>1, <4>2
    <3>3. QED
      BY <3>1, <3>2
  <2>4. QED
    BY <1>1, <2>1, <2>2, <2>3, EngineCallSteps
<1>5. ASSUME NEW o \in Owners, Enter(o)
      PROVE  EngineInv'
  <2> DEFINE pc == IF OverLimit(inflight + 1) THEN "bounce" ELSE "pin"
             r == [calls[o] EXCEPT !.pc = pc]
  <2>1. /\ calls[o].pc = "enter" /\ inflight' = inflight + 1 /\ tier' = tier /\ computed' = computed
        /\ calls' = [calls EXCEPT ![o].pc = pc]
    BY <1>5 DEF Enter, At, Goto
  <2>2. pc \in {"bounce", "pin"} /\ (pc = "pin" => ~OverLimit(inflight + 1))
    OBVIOUS
  <2> HIDE DEF pc
  <2>3. r \in EngineCall /\ r.pc = pc /\ calls' = [calls EXCEPT ![o] = r]
    BY <1>1, <2>1, <2>2 DEF EngineCall, AdmittedAt
  <2> HIDE DEF r
  <2>4. "enter" \notin AdmittedAt /\ "pin" \in AdmittedAt
    BY DEF AdmittedAt
  <2>5. QED
    BY <1>1, <2>1, <2>2, <2>3, <2>4, EngineCallSteps, ZenonT(40)
<1>6. ASSUME NEW o \in Owners, Bounce(o) \/ ReleaseSlot(o)
      PROVE  EngineInv'
  <2>1. /\ calls[o].pc \in {"bounce", "exit"} /\ inflight' = inflight - 1
        /\ tier' = tier /\ computed' = computed
        /\ calls' = [calls EXCEPT ![o] = NoRequest]
    BY <1>6 DEF Bounce, ReleaseSlot, At
  <2>2. "exit" \in AdmittedAt /\ "idle" \notin AdmittedAt
    BY DEF AdmittedAt
  <2>3. QED
    BY <1>1, <2>1, <2>2, NoRequestType, EngineCallSteps
<1>7. ASSUME NEW o \in Owners, PrefillDone(o)
      PROVE  EngineInv'
  <2>1. /\ calls[o].pc = "prefill" /\ inflight' = inflight /\ tier' = tier
        /\ computed' = computed \cup ChainOf(calls[o].units)
        /\ calls' = [calls EXCEPT ![o].pc = "decode"]
    BY <1>7 DEF PrefillDone, At, Goto
  <2>2. {"prefill", "decode"} \subseteq AdmittedAt
    BY DEF AdmittedAt
  <2>3. computed \subseteq computed' /\ tier' \subseteq computed' /\ ChainOf(calls[o].units) \subseteq computed'
    BY <1>1, <2>1
  <2>4. QED
    BY <2>1, <2>2, <2>3, EngineGoes
<1>8. ASSUME NEW o \in Owners, PrefillLeft(o) \/ DecodeLeft(o)
      PROVE  EngineInv'
  <2>1. /\ calls[o].pc \in {"prefill", "decode"} /\ inflight' = inflight /\ tier' = tier
        /\ computed' = computed /\ calls' = [calls EXCEPT ![o].pc = "unpin"]
    BY <1>8 DEF PrefillLeft, DecodeLeft, At, Goto
  <2>2. {"prefill", "decode", "unpin"} \subseteq AdmittedAt
    BY DEF AdmittedAt
  <2>3. QED
    BY <1>1, <2>1, <2>2, EngineGoes
<1>9. ASSUME NEW o \in Owners, NEW n \in 0..Len(Reply), Decode(o, n)
      PROVE  EngineInv'
  <2> DEFINE r == [calls[o] EXCEPT !.pc = "append", !.stream = FALSE, !.generated = n]
  <2>1. /\ calls[o].pc = "decode" /\ inflight' = inflight /\ tier' = tier /\ computed' = computed
        /\ calls' = [calls EXCEPT ![o] = r] /\ ChainOf(calls[o].units) \subseteq computed
    BY <1>1, <1>9 DEF Decode, At, EngineInv
  <2>2. r \in EngineCall
    <3>1. ASSUME NEW k \in Int
          PROVE  [calls[o] EXCEPT !.pc = "append", !.stream = FALSE, !.generated = k] \in EngineCall
      BY ONLY <1>1, o \in Owners, k \in Int DEF EngineCall, AdmittedAt
    <3>2. n \in Int
      OBVIOUS
    <3>3. QED
      BY <3>1, <3>2
  <2>3. r.pc = "append" /\ r.units = calls[o].units
    BY <1>1 DEF EngineCall
  <2>4. {"decode", "append"} \subseteq AdmittedAt
    BY DEF AdmittedAt
  <2> HIDE DEF r
  <2>5. QED
    BY <1>1, <2>1, <2>2, <2>3, <2>4, EngineCallSteps
<1>10. ASSUME NEW o \in Owners, Publish(o)
       PROVE  EngineInv'
  <2>1. /\ calls[o].pc = "publish" /\ inflight' = inflight /\ computed' = computed
        /\ tier' = tier \cup ChainOf(calls[o].units)
        /\ calls' = [calls EXCEPT ![o].pc = "unpin"] /\ ChainOf(calls[o].units) \subseteq computed
    BY <1>10 DEF Publish, At, Goto, EngineInv
  <2>2. {"publish", "unpin"} \subseteq AdmittedAt
    BY DEF AdmittedAt
  <2>3. computed \subseteq computed' /\ tier' \subseteq computed'
    BY <1>1, <2>1
  <2>4. QED
    BY <2>1, <2>2, <2>3, EngineGoes
<1>11. ASSUME NEW us \in ServedUnits, PublishedElsewhere(us)
       PROVE  EngineInv'
  <2>1. /\ calls' = calls /\ inflight' = inflight
        /\ computed \subseteq computed' /\ tier' \subseteq computed'
    BY <1>1, <1>11 DEF PublishedElsewhere
  <2>2. \A o \in Owners : calls'[o].pc \in {"decode", "append", "publish"} =>
                            ChainOf(calls'[o].units) \subseteq computed'
    BY <2>1 DEF EngineInv
  <2>3. QED
    BY <2>1, <2>2 DEF EngineInv, CallsAt
<1>12. QED
  BY <1>0, <1>2, <1>3, <1>4, <1>5, <1>6, <1>7, <1>8, <1>9, <1>10, <1>11 DEF EngineNext

\* The engine starts with no call.
LEMMA EngineStarts == KvInit /\ EngineInit => EngineInv
<1> SUFFICES ASSUME EngineInit PROVE EngineInv
  OBVIOUS
<1>1. calls \in [Owners -> EngineCall] /\ \A o \in Owners : calls[o].pc = "idle"
  BY NoRequestType DEF EngineInit
<1>2. CallsAt(calls, AdmittedAt) = {} /\ CallsAt(calls, {"bounce"}) = {}
  BY <1>1 DEF CallsAt, AdmittedAt
<1>3. Cardinality({}) = 0
  BY FS_EmptySet
<1>4. inflight = 0 /\ tier \subseteq computed /\ MaxConcurrency \in Nat
  BY EngineAssumption DEF EngineInit
<1>5. /\ inflight = Cardinality(CallsAt(calls, AdmittedAt)) + Cardinality(CallsAt(calls, {"bounce"}))
      /\ Cardinality(CallsAt(calls, AdmittedAt)) <= MaxConcurrency
  BY <1>2, <1>3, <1>4
<1>6. QED
  BY <1>1, <1>4, <1>5 DEF EngineInv

\* The mock engine's promise for any number of calls and any prompts (engine.go:303-336,
\* tier.go:60-65): the limit is never passed, the counter is exact, and the shared tier
\* advertises only blocks that were computed.
THEOREM EngineHolds == EngineSpec => []EngineSound
<1>1. KvInit /\ EngineInit => EngineInv
  BY EngineStarts
<1>2. EngineInv => EngineSound
  BY DEF EngineInv, EngineSound, CallsAt, Admitted, AdmittedAt
<1>3. QED
  BY <1>1, <1>2, EngineKeeps, PTL DEF EngineSpec

----------------------------------------------------------------------------
(* The trie of the KV cache: lists without repetition.                      *)

\* A stretch of a list.
LEMMA Stretch ==
  ASSUME NEW S, NEW l \in Seq(S), NEW a \in Nat, NEW b \in Nat, 1 <= a, a <= b + 1, b <= Len(l)
  PROVE  /\ SubSeq(l, a, b) \in Seq(S) /\ Len(SubSeq(l, a, b)) = b + 1 - a
         /\ \A i \in 1..(b + 1 - a) : SubSeq(l, a, b)[i] = l[a + i - 1]
<1>1. a \in Int /\ b \in Int /\ \A i \in a..b : l[i] \in S
  OBVIOUS
<1>2. /\ SubSeq(l, a, b) \in Seq(S) /\ Len(SubSeq(l, a, b)) = (IF a <= b THEN b - a + 1 ELSE 0)
      /\ \A i \in 1..(b - a + 1) : SubSeq(l, a, b)[i] = l[a + i - 1]
  BY <1>1, SubSeqProperties
<1>3. b - a + 1 = b + 1 - a /\ (IF a <= b THEN b - a + 1 ELSE 0) = b + 1 - a
  OBVIOUS
<1>4. QED
  BY <1>2, <1>3

\* A list's elements.
LEMMA ListOf ==
  ASSUME NEW S, NEW l \in Seq(S)
  PROVE  /\ Len(l) \in Nat /\ DOMAIN l = 1..Len(l) /\ \A i \in 1..Len(l) : l[i] \in S
         /\ ToSet(l) = {l[i] : i \in 1..Len(l)} /\ ToSet(l) \subseteq S
BY DEF ToSet

\* What a list begins with.
LEMMA Prefix ==
  ASSUME NEW S, NEW l \in Seq(S), NEW k \in 0..Len(l)
  PROVE  /\ SubSeq(l, 1, k) \in Seq(S) /\ Len(SubSeq(l, 1, k)) = k
         /\ \A i \in 1..k : SubSeq(l, 1, k)[i] = l[i]
<1>1. Len(l) \in Nat
  OBVIOUS
<1>2. QED
  BY <1>1

\* A new element in front (lruPushFront).
LEMMA ListCons ==
  ASSUME NEW S, NEW l \in Seq(S), IsInjective(l), NEW x \in S, x \notin ToSet(l)
  PROVE  /\ << x >> \o l \in Seq(S) /\ IsInjective(<< x >> \o l)
         /\ ToSet(<< x >> \o l) = ToSet(l) \cup {x}
<1> DEFINE n == << x >> \o l
<1>1. /\ n \in Seq(S) /\ Len(n) = Len(l) + 1 /\ Len(l) \in Nat /\ n[1] = x
      /\ \A i \in 2..Len(n) : n[i] = l[i - 1]
  OBVIOUS
<1>2. DOMAIN n = 1..Len(n) /\ DOMAIN l = 1..Len(l)
  BY <1>1
<1>3. \A i \in 1..Len(l) : l[i] = n[i + 1] /\ i + 1 \in 1..Len(n)
  BY <1>1
<1>4. \A i \in 1..Len(n) : i = 1 \/ (i - 1 \in 1..Len(l) /\ n[i] = l[i - 1])
  BY <1>1
<1> HIDE DEF n
<1>5. ToSet(n) = ToSet(l) \cup {x}
  <2>1. ToSet(n) = {n[i] : i \in 1..Len(n)} /\ ToSet(l) = {l[i] : i \in 1..Len(l)}
    BY <1>2 DEF ToSet
  <2>2. \A y \in ToSet(n) : y \in ToSet(l) \cup {x}
    BY <2>1, <1>1, <1>4
  <2>3. \A y \in ToSet(l) : y \in ToSet(n)
    BY <2>1, <1>3
  <2>4. x \in ToSet(n)
    BY <2>1, <1>1
  <2>5. QED
    BY <2>2, <2>3, <2>4
<1>6. \A i \in 1..Len(l) : l[i] # x
  BY <1>2 DEF ToSet
<1>7. IsInjective(n)
  <2> SUFFICES ASSUME NEW i \in 1..Len(n), NEW j \in 1..Len(n), n[i] = n[j] PROVE i = j
    BY <1>2 DEF IsInjective
  <2>1. CASE i = 1 \/ j = 1
    BY <2>1, <1>1, <1>4, <1>6
  <2>2. CASE i # 1 /\ j # 1
    <3>1. l[i - 1] = l[j - 1] /\ i - 1 \in DOMAIN l /\ j - 1 \in DOMAIN l
      BY <2>2, <1>2, <1>4
    <3>2. i - 1 = j - 1
      BY <3>1 DEF IsInjective
    <3>3. QED
      BY <3>2
  <2>3. QED
    BY <2>1, <2>2
<1>8. QED
  BY <1>1, <1>5, <1>7 DEF n

\* A new element at the end (lruPushBack).
LEMMA ListAppend ==
  ASSUME NEW S, NEW l \in Seq(S), IsInjective(l), NEW x \in S, x \notin ToSet(l)
  PROVE  /\ Append(l, x) \in Seq(S) /\ IsInjective(Append(l, x))
         /\ ToSet(Append(l, x)) = ToSet(l) \cup {x}
<1> DEFINE n == Append(l, x)
<1>1. /\ n \in Seq(S) /\ Len(n) = Len(l) + 1 /\ Len(l) \in Nat /\ n[Len(n)] = x
      /\ \A i \in 1..Len(l) : n[i] = l[i]
  OBVIOUS
<1>2. DOMAIN n = 1..Len(n) /\ DOMAIN l = 1..Len(l)
  BY <1>1
<1> HIDE DEF n
<1>3. \A i \in 1..Len(n) : i = Len(n) \/ (i \in 1..Len(l) /\ n[i] = l[i])
  BY <1>1
<1>4. (\A i \in 1..Len(l) : i \in 1..Len(n)) /\ Len(n) \in 1..Len(n)
  BY <1>1
<1>5. ToSet(n) = ToSet(l) \cup {x}
  BY <1>1, <1>2, <1>3, <1>4 DEF ToSet
<1>6. \A i \in 1..Len(l) : l[i] # x
  BY <1>2 DEF ToSet
<1>7. IsInjective(n)
  BY <1>1, <1>2, <1>3, <1>6 DEF IsInjective
<1>8. QED
  BY <1>1, <1>5, <1>7 DEF n

\* The list without its last element.
LEMMA ListFront ==
  ASSUME NEW S, NEW l \in Seq(S), IsInjective(l), l # << >>
  PROVE  /\ Front(l) \in Seq(S) /\ IsInjective(Front(l)) /\ Last(l) \in ToSet(l)
         /\ ToSet(Front(l)) = ToSet(l) \ {Last(l)}
<1> DEFINE n == Front(l)
<1>1. /\ n \in Seq(S) /\ Len(n) = Len(l) - 1 /\ Len(l) \in Nat /\ Len(l) >= 1
      /\ \A i \in 1..Len(n) : n[i] = l[i]
  <2>1. Len(l) \in Nat /\ Len(l) >= 1
    BY EmptySeq
  <2>2. Len(l) - 1 \in 0..Len(l)
    BY <2>1
  <2>3. QED
    BY <2>1, <2>2, Prefix DEF Front
<1>2. DOMAIN n = 1..Len(n) /\ DOMAIN l = 1..Len(l)
  BY <1>1
<1> HIDE DEF n
<1>3. Last(l) \in ToSet(l)
  BY <1>1, <1>2 DEF Last, ToSet
<1>4. \A i \in 1..Len(l) : i = Len(l) \/ i \in 1..Len(n)
  BY <1>1
<1>5. \A i \in 1..Len(n) : i \in 1..Len(l) /\ l[i] # Last(l)
  BY <1>1, <1>2 DEF IsInjective, Last
<1>6. ToSet(n) = ToSet(l) \ {Last(l)}
  BY <1>1, <1>2, <1>4, <1>5 DEF ToSet, Last
<1>7. IsInjective(n)
  BY <1>1, <1>2, <1>5 DEF IsInjective
<1>8. QED
  BY <1>1, <1>3, <1>6, <1>7 DEF n

\* The list without one element (lruRemove).
LEMMA ListRemove ==
  ASSUME NEW S, NEW l \in Seq(S), IsInjective(l), NEW x
  PROVE  /\ Unlisted(l, x) \in Seq(S) /\ IsInjective(Unlisted(l, x))
         /\ ToSet(Unlisted(l, x)) = ToSet(l) \ {x}
<1>1. Len(l) \in Nat /\ DOMAIN l = 1..Len(l)
  OBVIOUS
<1>2. CASE \E i \in 1..Len(l) : l[i] = x
  <2> DEFINE I == {i \in 1..Len(l) : l[i] = x}
             k == Min(I)
             n == SubSeq(l, 1, k - 1) \o SubSeq(l, k + 1, Len(l))
  <2>1. I \subseteq Nat /\ I # {}
    BY <1>2
  <2>2. \E least \in I : \A i \in I : least <= i
    BY <2>1, LeastNatural
  <2>3. k \in I
    BY <2>2 DEF Min
  <2>4. k \in 1..Len(l) /\ l[k] = x
    BY <2>3
  <2>5. Unlisted(l, x) = n
    BY <1>2, <2>1 DEF Unlisted, RemoveFirst, RemoveAt, SelectInSeq
  <2> HIDE DEF k
  <2>6. /\ n \in Seq(S) /\ Len(n) = Len(l) - 1
        /\ (\A i \in 1..Len(n) : n[i] = IF i < k THEN l[i] ELSE l[i + 1])
    <3>1. /\ SubSeq(l, 1, k - 1) \in Seq(S) /\ Len(SubSeq(l, 1, k - 1)) = k - 1
          /\ \A i \in 1..(k - 1) : SubSeq(l, 1, k - 1)[i] = l[i]
      BY <1>1, <2>4
    <3>2. /\ SubSeq(l, k + 1, Len(l)) \in Seq(S) /\ Len(SubSeq(l, k + 1, Len(l))) = Len(l) - k
          /\ \A i \in 1..(Len(l) - k) : SubSeq(l, k + 1, Len(l))[i] = l[k + i]
      <4>1. k + 1 \in Nat /\ Len(l) \in Nat /\ 1 <= k + 1 /\ k + 1 <= Len(l) + 1
        BY <1>1, <2>4
      <4>2. /\ SubSeq(l, k + 1, Len(l)) \in Seq(S)
            /\ Len(SubSeq(l, k + 1, Len(l))) = Len(l) + 1 - (k + 1)
            /\ \A i \in 1..(Len(l) + 1 - (k + 1)) : SubSeq(l, k + 1, Len(l))[i] = l[k + 1 + i - 1]
        BY <4>1, Stretch
      <4>3. Len(l) + 1 - (k + 1) = Len(l) - k /\ \A i \in Nat : k + 1 + i - 1 = k + i
        BY <4>1, <2>4
      <4>4. ASSUME NEW i \in 1..(Len(l) - k)
            PROVE  SubSeq(l, k + 1, Len(l))[i] = l[k + i]
        <5>1. i \in Nat /\ i \in 1..(Len(l) + 1 - (k + 1)) /\ k + 1 + i - 1 = k + i
          BY <4>3, <4>1
        <5>2. SubSeq(l, k + 1, Len(l))[i] = l[k + 1 + i - 1]
          BY <5>1, <4>2
        <5>3. QED
          BY <5>1, <5>2
      <4>5. QED
        BY <4>2, <4>3, <4>4
    <3> DEFINE a == SubSeq(l, 1, k - 1)
               b == SubSeq(l, k + 1, Len(l))
    <3> HIDE DEF a, b
    <3>3. /\ a \o b \in Seq(S) /\ Len(a \o b) = Len(l) - 1
          /\ \A i \in 1..(Len(l) - 1) : (a \o b)[i] = IF i < k THEN a[i] ELSE b[i - (k - 1)]
      <4>1. a \in Seq(S) /\ b \in Seq(S) /\ Len(a) = k - 1 /\ Len(b) = Len(l) - k
        BY <3>1, <3>2 DEF a, b
      <4>2. /\ a \o b \in Seq(S) /\ Len(a \o b) = Len(a) + Len(b)
            /\ \A i \in 1..(Len(a) + Len(b)) : (a \o b)[i] = IF i <= Len(a) THEN a[i] ELSE b[i - Len(a)]
        BY <4>1, ConcatProperties
      <4>3. Len(a) + Len(b) = Len(l) - 1 /\ k \in Int /\ \A i \in Int : i <= k - 1 <=> i < k
        BY <4>1, <2>4, <1>1
      <4>4. QED
        BY <4>1, <4>2, <4>3
    <3>4. ASSUME NEW i \in 1..(Len(l) - 1)
          PROVE  (a \o b)[i] = IF i < k THEN l[i] ELSE l[i + 1]
      <4>1. CASE i < k
        <5>1. i \in 1..(k - 1)
          BY <4>1, <2>4, <1>1
        <5>2. a[i] = l[i]
          BY <5>1, <3>1 DEF a
        <5>3. QED
          BY <5>2, <4>1, <3>3
      <4>2. CASE ~(i < k)
        <5>1. i - (k - 1) \in 1..(Len(l) - k) /\ k + (i - (k - 1)) = i + 1
          BY <4>2, <2>4, <1>1
        <5>2. b[i - (k - 1)] = l[k + (i - (k - 1))]
          BY <5>1, <3>2 DEF b
        <5>3. QED
          BY <5>1, <5>2, <4>2, <3>3
      <4>3. QED
        BY <4>1, <4>2
    <3>5. QED
      BY <3>3, <3>4 DEF a, b
  <2> HIDE DEF n
  <2>7. DOMAIN n = 1..Len(n) /\ Len(n) \in Nat
    BY <2>6
  <2>8. \A i \in 1..Len(n) : LET p == IF i < k THEN i ELSE i + 1
                             IN  p \in 1..Len(l) /\ p # k /\ n[i] = l[p]
    BY <1>1, <2>4, <2>6
  <2>9. \A p \in 1..Len(l) : p # k => LET i == IF p < k THEN p ELSE p - 1
                                      IN  i \in 1..Len(n) /\ n[i] = l[p]
    BY <1>1, <2>4, <2>6
  <2>10. \A p \in 1..Len(l) : p # k => l[p] # x
    BY <1>1, <2>4 DEF IsInjective
  <2>11. ToSet(n) = ToSet(l) \ {x}
    <3>1. \A y : y \in ToSet(n) => y \in ToSet(l) \ {x}
      BY <1>1, <2>7, <2>8, <2>10 DEF ToSet
    <3>2. \A y : y \in ToSet(l) \ {x} => y \in ToSet(n)
      BY <1>1, <2>4, <2>7, <2>9 DEF ToSet
    <3>3. QED
      BY <3>1, <3>2
  <2>12. IsInjective(n)
    <3> SUFFICES ASSUME NEW i \in 1..Len(n), NEW j \in 1..Len(n), n[i] = n[j] PROVE i = j
      BY <2>7 DEF IsInjective
    <3> DEFINE p == IF i < k THEN i ELSE i + 1
               q == IF j < k THEN j ELSE j + 1
    <3>1. p \in DOMAIN l /\ q \in DOMAIN l /\ l[p] = l[q]
      BY <1>1, <2>8
    <3>2. p = q
      BY <3>1 DEF IsInjective
    <3>3. QED
      BY <3>2, <2>4
  <2>13. QED
    BY <2>5, <2>6, <2>11, <2>12
<1>3. CASE ~\E i \in 1..Len(l) : l[i] = x
  <2>1. Unlisted(l, x) = l
    BY <1>3 DEF Unlisted, RemoveFirst
  <2>2. x \notin ToSet(l)
    BY <1>1, <1>3 DEF ToSet
  <2>3. QED
    BY <2>1, <2>2
<1>4. QED
  BY <1>2, <1>3

----------------------------------------------------------------------------
(* Blocks and chains. *)

\* The blocks a trie may be given: those of prompts and those of replies.
AnyUnit == UNION ({ToSet(us) : us \in Chunked} \cup {ToSet(OutputBlocks(n)) : n \in Nat})

\* The names of nodes.
Ways == Seq(AnyUnit) \ {<< >>}

\* A function on 1..n is a list of its values.
LEMMA FunctionIsList ==
  ASSUME NEW n \in Nat, NEW f, DOMAIN f = 1..n, f = [i \in 1..n |-> f[i]]
  PROVE  f \in Seq(ToSet(f)) /\ Len(f) = n
<1>1. f \in [1..n -> ToSet(f)]
  BY DEF ToSet
<1>2. f \in Seq(ToSet(f))
  BY <1>1, SeqDef
<1>3. QED
  BY <1>2

\* So many words fill a natural number of chunks.
LEMMA ListLength == \A n \in Nat : (n + ChunkWords - 1) \div ChunkWords \in Nat
BY KvAssumption

\* A prompt's chunks are a list of blocks, and so are a reply's.
LEMMA ListsOfUnits ==
  /\ \A us \in Chunked : us \in Seq(AnyUnit)
  /\ \A n \in Nat : OutputBlocks(n) \in Seq(AnyUnit)
<1>1. ChunkWords \in Nat \ {0} /\ \A n \in Nat : (n + ChunkWords - 1) \div ChunkWords \in Nat
  BY KvAssumption, ListLength
<1>2. ASSUME NEW n \in Nat PROVE OutputBlocks(n) \in Seq(AnyUnit)
  <2> DEFINE m == (n + ChunkWords - 1) \div ChunkWords
             f == OutputBlocks(n)
  <2>1. m \in Nat /\ DOMAIN f = 1..m /\ f = [i \in 1..m |-> f[i]]
    BY <1>1 DEF OutputBlocks
  <2> HIDE DEF m
  <2>2. ToSet(f) \subseteq AnyUnit
    BY DEF AnyUnit
  <2> HIDE DEF f
  <2>3. f \in Seq(ToSet(f))
    BY <2>1, FunctionIsList
  <2>4. f \in Seq(AnyUnit)
    BY <2>2, <2>3, SeqMonotonic
  <2>5. QED
    BY <2>4 DEF f
<1>3. ASSUME NEW c \in Contents PROVE ChunkContent(c) \in Seq(AnyUnit)
  <2> DEFINE f == ChunkContent(c)
  <2>1. \E m \in Nat : DOMAIN f = 1..m /\ f = [i \in 1..m |-> f[i]]
    <3>1. CASE c = << >>
      <4> DEFINE u == [first |-> TRUE, words |-> << >>]
      <4>1. f = << u >>
        BY <3>1 DEF ChunkContent
      <4> HIDE DEF f, u
      <4>2. f \in Seq({u})
        BY <4>1
      <4>3. Len(f) \in Nat /\ f \in [1..Len(f) -> {u}]
        BY <4>2, LenProperties
      <4>4. DOMAIN f = 1..Len(f) /\ f = [i \in 1..Len(f) |-> f[i]]
        BY <4>3
      <4>5. QED
        BY <4>3, <4>4
    <3>2. CASE c # << >>
      <4> DEFINE m == (Len(c) + ChunkWords - 1) \div ChunkWords
      <4>1. Len(c) \in Nat
        BY KvAssumption
      <4>2. m \in Nat
        BY <4>1, <1>1
      <4>3. f = [i \in 1..m |-> [first |-> i = 1, words |-> Window(c, i)]]
        BY <3>2 DEF ChunkContent
      <4> HIDE DEF m
      <4>4. DOMAIN f = 1..m /\ f = [i \in 1..m |-> f[i]]
        BY <4>3
      <4>5. QED
        BY <4>2, <4>4
    <3>3. QED
      BY <3>1, <3>2
  <2>2. ToSet(f) \subseteq AnyUnit
    BY DEF AnyUnit, Chunked
  <2> HIDE DEF f
  <2>3. f \in Seq(ToSet(f))
    BY <2>1, FunctionIsList
  <2>4. f \in Seq(AnyUnit)
    BY <2>2, <2>3, SeqMonotonic
  <2>5. QED
    BY <2>4 DEF f
<1>4. QED
  BY <1>2, <1>3 DEF Chunked

\* A sequence of words is worth at least one token.
LEMMA WordsWeigh ==
  ASSUME NEW S, NEW w \in Seq(S), NEW u, u.words = w
  PROVE  UnitTokens(u) \in Nat /\ UnitTokens(u) >= 1
<1>1. CASE w = << >>
  BY <1>1 DEF UnitTokens
<1>2. CASE w # << >>
  <2>1. Len(w) \in Nat /\ Len(w) >= 1
    BY <1>2, EmptySeq
  <2>2. (4 * Len(w)) \div 4 = Len(w) /\ ~(4 * Len(w) <= 0)
    BY <2>1
  <2>3. UnitTokens(u) = Max({Len(w), 1})
    BY <1>2, <2>2 DEF UnitTokens, EstimateTokens
  <2>4. {Len(w), 1} \subseteq Nat /\ \A k \in {Len(w), 1} : k <= Len(w)
    BY <2>1
  <2>5. Max({Len(w), 1}) \in {Len(w), 1}
    BY <2>1, <2>4, BoundedMax
  <2>6. QED
    BY <2>1, <2>3, <2>5
<1>3. QED
  BY <1>1, <1>2

\* Every block is worth at least one token (kvcache.go:72-80).
LEMMA UnitsWeigh ==
  ASSUME NEW u \in AnyUnit
  PROVE  UnitTokens(u) \in Nat /\ UnitTokens(u) >= 1
<1>1. CASE \E n \in Nat : u \in ToSet(OutputBlocks(n))
  <2>1. PICK n \in Nat : u \in ToSet(OutputBlocks(n))
    BY <1>1
  <2>2. PICK i \in DOMAIN OutputBlocks(n) : u = OutputBlocks(n)[i]
    BY <2>1 DEF ToSet
  <2>3. u.words = [k \in 1..ChunkWords |->
                     LET w == (i - 1) * ChunkWords + k IN IF w <= n THEN Reply[w] ELSE Filler]
    BY <2>2 DEF OutputBlocks
  <2> DEFINE v == [k \in 1..ChunkWords |->
                     LET w == (i - 1) * ChunkWords + k IN IF w <= n THEN Reply[w] ELSE Filler]
  <2>4. v \in Seq({v[k] : k \in 1..ChunkWords})
    BY KvAssumption
  <2> HIDE DEF v
  <2>5. QED
    BY <2>3, <2>4, WordsWeigh DEF v
<1>2. CASE \E c \in Contents : u \in ToSet(ChunkContent(c))
  <2>1. PICK c \in Contents : u \in ToSet(ChunkContent(c))
    BY <1>2
  <2>2. PICK i \in DOMAIN ChunkContent(c) : u = ChunkContent(c)[i]
    BY <2>1 DEF ToSet
  <2>3. c \in Seq(ToSet(c)) /\ Len(c) \in Nat
    BY KvAssumption
  <2>4. CASE c = << >>
    <3>1. u.words = << >> /\ << >> \in Seq({})
      BY <2>2, <2>4 DEF ChunkContent
    <3>2. QED
      BY <3>1, WordsWeigh
  <2>5. CASE c # << >>
    <3> DEFINE a == (i - 1) * ChunkWords + 1
               b == Min({i * ChunkWords, Len(c)})
    <3>1. i \in Nat /\ i >= 1 /\ ChunkWords \in Nat /\ u.words = SubSeq(c, a, b)
      <4> DEFINE m == (Len(c) + ChunkWords - 1) \div ChunkWords
      <4>1. m \in Nat
        BY <2>3, ListLength
      <4>2. ChunkContent(c) = [k \in 1..m |-> [first |-> k = 1, words |-> Window(c, k)]]
        BY <2>5 DEF ChunkContent
      <4> HIDE DEF m
      <4>3. i \in 1..m /\ u.words = Window(c, i)
        BY <2>2, <4>2
      <4>4. QED
        BY <4>1, <4>3, KvAssumption DEF Window
    <3>2. (i - 1) * ChunkWords \in Nat /\ i * ChunkWords \in Nat
      BY <3>1
    <3>3. a \in Int /\ a >= 1
      BY <3>2
    <3>4. b \in Int /\ b <= Len(c)
      <4>1. PICK m \in {i * ChunkWords, Len(c)} : \A k \in {i * ChunkWords, Len(c)} : m <= k
        BY <3>2, <2>3, LeastNatural, {i * ChunkWords, Len(c)} \subseteq Nat
      <4>2. b \in {i * ChunkWords, Len(c)} /\ \A k \in {i * ChunkWords, Len(c)} : b <= k
        BY <4>1 DEF Min
      <4>3. QED
        BY <4>2, <3>2, <2>3
    <3> HIDE DEF a, b
    <3>5. \A k \in a..b : c[k] \in ToSet(c)
      BY <2>3, <3>3, <3>4
    <3>6. SubSeq(c, a, b) \in Seq(ToSet(c))
      BY <3>3, <3>4, <3>5, SubSeqProperties
    <3>7. QED
      BY <3>1, <3>6, WordsWeigh
  <2>6. QED
    BY <2>4, <2>5
<1>3. QED
  BY <1>1, <1>2 DEF AnyUnit, Chunked

\* A node's name ends with its block.
LEMMA WayOK ==
  ASSUME NEW q \in Ways
  PROVE  /\ q \in Seq(AnyUnit) /\ Len(q) \in Nat /\ Len(q) >= 1 /\ q # << >>
         /\ Last(q) \in AnyUnit /\ UnitTokens(Last(q)) \in Nat /\ UnitTokens(Last(q)) >= 1
<1>1. q \in Seq(AnyUnit) /\ Len(q) \in Nat /\ Len(q) >= 1
  BY EmptySeq DEF Ways
<1>2. Last(q) \in AnyUnit
  BY <1>1 DEF Last
<1>3. QED
  BY <1>1, <1>2, UnitsWeigh DEF Ways

\* What a chain begins with.
LEMMA BeginOK ==
  ASSUME NEW q \in Seq(AnyUnit), NEW k \in 1..Len(q)
  PROVE  /\ SubSeq(q, 1, k) \in Ways /\ Len(SubSeq(q, 1, k)) = k /\ Last(SubSeq(q, 1, k)) = q[k]
         /\ Front(SubSeq(q, 1, k)) = SubSeq(q, 1, k - 1)
         /\ \A j \in 0..k : SubSeq(SubSeq(q, 1, k), 1, j) = SubSeq(q, 1, j)
<1> DEFINE b == SubSeq(q, 1, k)
<1>1. Len(q) \in Nat /\ k \in 0..Len(q)
  OBVIOUS
<1>2. b \in Seq(AnyUnit) /\ Len(b) = k /\ \A i \in 1..k : b[i] = q[i]
  BY <1>1, Prefix
<1> HIDE DEF b
<1>3. b # << >>
  BY <1>2, EmptySeq
<1>4. ASSUME NEW j \in 0..k PROVE SubSeq(b, 1, j) = SubSeq(q, 1, j)
  <2>1. j \in 0..Len(b) /\ j \in 0..Len(q)
    BY <1>1, <1>2
  <2>2. SubSeq(b, 1, j) \in Seq(AnyUnit) /\ Len(SubSeq(b, 1, j)) = j /\ \A i \in 1..j : SubSeq(b, 1, j)[i] = b[i]
    BY <1>2, <2>1, Prefix
  <2>3. SubSeq(q, 1, j) \in Seq(AnyUnit) /\ Len(SubSeq(q, 1, j)) = j /\ \A i \in 1..j : SubSeq(q, 1, j)[i] = q[i]
    BY <2>1, Prefix
  <2>4. \A i \in 1..j : SubSeq(b, 1, j)[i] = SubSeq(q, 1, j)[i]
    BY <1>2, <2>2, <2>3
  <2>5. QED
    BY <2>2, <2>3, <2>4, SeqEqual
<1>5. Last(b) = q[k]
  BY <1>2 DEF Last
<1>6. Front(b) = SubSeq(q, 1, k - 1)
  <2>1. Front(b) = SubSeq(b, 1, k - 1) /\ k - 1 \in 0..k
    BY <1>1, <1>2 DEF Front
  <2>2. QED
    BY <2>1, <1>4
<1>7. QED
  BY <1>2, <1>3, <1>4, <1>5, <1>6 DEF Ways, b

\* All of a chain, and nothing of it.
LEMMA BeginEnds ==
  ASSUME NEW q \in Seq(AnyUnit)
  PROVE  SubSeq(q, 1, Len(q)) = q /\ SubSeq(q, 1, 0) = << >> /\ Len(q) \in Nat
<1>1. Len(q) \in Nat /\ Len(q) \in 0..Len(q) /\ 0 \in 0..Len(q)
  OBVIOUS
<1>2. /\ SubSeq(q, 1, Len(q)) \in Seq(AnyUnit) /\ Len(SubSeq(q, 1, Len(q))) = Len(q)
      /\ \A i \in 1..Len(q) : SubSeq(q, 1, Len(q))[i] = q[i]
  BY <1>1, Prefix
<1>3. SubSeq(q, 1, Len(q)) = q
  BY <1>2, SeqEqual
<1>4. SubSeq(q, 1, 0) \in Seq(AnyUnit) /\ Len(SubSeq(q, 1, 0)) = 0
  BY <1>1, Prefix
<1>5. QED
  BY <1>1, <1>3, <1>4, EmptySeq

\* A node's parent.
LEMMA ParentOK ==
  ASSUME NEW q \in Ways
  PROVE  /\ Front(q) \in Seq(AnyUnit) /\ Len(Front(q)) = Len(q) - 1 /\ Front(q) # q
         /\ Front(q) = SubSeq(q, 1, Len(q) - 1)
<1>1. q \in Seq(AnyUnit) /\ Len(q) \in Nat /\ Len(q) >= 1 /\ Len(q) - 1 \in 0..Len(q)
  BY WayOK
<1>2. SubSeq(q, 1, Len(q) - 1) \in Seq(AnyUnit) /\ Len(SubSeq(q, 1, Len(q) - 1)) = Len(q) - 1
  BY <1>1, Prefix
<1>3. QED
  BY <1>1, <1>2 DEF Front

\* A node's children are the nodes it is the parent of.
LEMMA KidsAre ==
  ASSUME NEW t, t.set \subseteq Ways, NEW q \in Seq(AnyUnit)
  PROVE  Kids(t, q) = {r \in t.set : Front(r) = q}
<1> SUFFICES ASSUME NEW r \in t.set
             PROVE  (Len(r) = Len(q) + 1 /\ IsStrictPrefix(q, r)) <=> Front(r) = q
  BY DEF Kids
<1>1. r \in Ways /\ r \in Seq(AnyUnit) /\ Len(r) \in Nat /\ Len(r) >= 1 /\ Len(q) \in Nat
  BY WayOK
<1>2. Front(r) = SubSeq(r, 1, Len(r) - 1) /\ Len(Front(r)) = Len(r) - 1
  BY <1>1, ParentOK
<1>3. SubSeq(q, 1, Len(q)) = q
  BY BeginEnds
<1>4. ASSUME Len(r) = Len(q) + 1, IsStrictPrefix(q, r) PROVE Front(r) = q
  <2>1. SubSeq(q, 1, Len(q)) = SubSeq(r, 1, Len(q)) /\ Len(r) - 1 = Len(q)
    BY <1>1, <1>4 DEF IsStrictPrefix, IsPrefix
  <2>2. QED
    BY <2>1, <1>2, <1>3
<1>5. ASSUME Front(r) = q PROVE Len(r) = Len(q) + 1 /\ IsStrictPrefix(q, r)
  <2>1. Len(r) = Len(q) + 1 /\ Len(r) - 1 = Len(q) /\ Len(q) <= Len(r) /\ q # r
    BY <1>1, <1>2, <1>5
  <2>2. SubSeq(r, 1, Len(q)) = q
    BY <2>1, <1>2, <1>5
  <2>3. QED
    BY <2>1, <2>2, <1>3 DEF IsStrictPrefix, IsPrefix
<1>6. QED
  BY <1>4, <1>5

\* With a node its ancestors.
Closed(S) == \A q \in S : \A k \in 1..Len(q) : SubSeq(q, 1, k) \in S

\* How far a walk gets (kvcache.go:335-346).
LEMMA MatchedOK ==
  ASSUME NEW t, t.set \subseteq Ways, Closed(t.set), NEW us \in Seq(AnyUnit)
  PROVE  /\ Matched(t, us) \in 0..Len(us)
         /\ \A k \in 1..Len(us) : SubSeq(us, 1, k) \in t.set <=> k <= Matched(t, us)
<1> DEFINE K == {0} \cup {k \in 1..Len(us) : SubSeq(us, 1, k) \in t.set}
           m == Max(K)
<1>1. Len(us) \in Nat
  OBVIOUS
<1>2. K \subseteq Nat /\ K # {} /\ \A k \in K : k <= Len(us)
  BY <1>1
<1> HIDE DEF K
<1>3. m \in K /\ \A k \in K : k <= m
  BY <1>1, <1>2, BoundedMax
<1>4. Matched(t, us) = m
  BY DEF Matched, K
<1> HIDE DEF m
<1>5. ASSUME NEW k \in 1..Len(us), k <= m PROVE SubSeq(us, 1, k) \in t.set
  <2>1. m \in 1..Len(us) /\ SubSeq(us, 1, m) \in t.set /\ k \in 0..m /\ k \in 1..m
    BY <1>1, <1>3, <1>5 DEF K
  <2>2. SubSeq(SubSeq(us, 1, m), 1, k) = SubSeq(us, 1, k) /\ Len(SubSeq(us, 1, m)) = m
    BY <2>1, BeginOK
  <2>3. QED
    BY <2>1, <2>2 DEF Closed
<1>6. ASSUME NEW k \in 1..Len(us), SubSeq(us, 1, k) \in t.set PROVE k <= m
  BY <1>3, <1>6 DEF K
<1>7. m \in 0..Len(us)
  BY <1>1, <1>2, <1>3
<1>8. QED
  BY <1>4, <1>5, <1>6, <1>7

----------------------------------------------------------------------------
(* A trie in order. *)

PinMap == UNION {[D -> Nat \ {0}] : D \in SUBSET Ways}
TrieRecord == [set : SUBSET Ways, lru : Seq(Ways), pins : PinMap,
               nodes : Int, tokens : Int, pinned : Int]

\* What may be evicted.
Leaves(t) == {q \in t.set : (\A r \in t.set : Front(r) # q) /\ q \notin DOMAIN t.pins}

Weights == [q \in Ways |-> UnitTokens(Last(q))]
Weight(S) == SumOver(Weights, S)

\* The list is what may be evicted, each once; the totals are a traversal's; what is
\* pinned is there.
Good(t) ==
  /\ t \in TrieRecord /\ IsFiniteSet(t.set) /\ Closed(t.set)
  /\ IsInjective(t.lru) /\ ToSet(t.lru) = Leaves(t)
  /\ DOMAIN t.pins \subseteq t.set /\ t.pinned = Cardinality(DOMAIN t.pins)
  /\ t.nodes = Cardinality(t.set) /\ t.tokens = Weight(t.set)

\* Pins are of named nodes, and none is zero.
LEMMA PinMapOK ==
  ASSUME NEW t, t.pins \in PinMap
  PROVE  /\ DOMAIN t.pins \subseteq Ways /\ (\A q \in DOMAIN t.pins : t.pins[q] \in Nat \ {0})
         /\ \A q : PinsOf(t, q) \in Nat /\ (PinsOf(t, q) = 0 <=> q \notin DOMAIN t.pins)
<1>1. PICK D \in SUBSET Ways : t.pins \in [D -> Nat \ {0}]
  BY DEF PinMap
<1>2. DOMAIN t.pins = D /\ \A q \in D : t.pins[q] \in Nat \ {0}
  BY <1>1
<1>3. QED
  BY <1>2 DEF PinsOf

\* A node more or less weighs its block more or less.
LEMMA WeightMoves ==
  ASSUME NEW S, S \subseteq Ways, IsFiniteSet(S), NEW q \in S
  PROVE  /\ Weight(S) = Weight(S \ {q}) + UnitTokens(Last(q))
         /\ Weight(S) \in Int /\ Weight(S \ {q}) \in Int
<1>1. \A x \in S : Weights[x] = UnitTokens(Last(x)) /\ Weights[x] \in Int
  BY WayOK DEF Weights
<1>2. /\ SumOver(Weights, S) = Weights[q] + SumOver(Weights, S \ {q})
      /\ SumOver(Weights, S) \in Int /\ SumOver(Weights, S \ {q}) \in Int
  BY <1>1, SumRemoves
<1>3. QED
  BY <1>1, <1>2 DEF Weight

\* insertLocked keeps a trie in order.
LEMMA InsertGood ==
  ASSUME NEW t, Good(t), NEW us \in Seq(AnyUnit), NEW i \in 1..Len(us),
         SubSeq(us, 1, i) \notin t.set, i = 1 \/ SubSeq(us, 1, i - 1) \in t.set
  PROVE  LET n == InsertNode(t, SubSeq(us, 1, i))
         IN  /\ Good(n) /\ n.set = t.set \cup {SubSeq(us, 1, i)} /\ n.pins = t.pins
             /\ n.nodes = t.nodes + 1 /\ n.tokens = t.tokens + UnitTokens(us[i])
<1> DEFINE q == SubSeq(us, 1, i)
           p == Front(q)
           l == Unlisted(t.lru, p)
           n == InsertNode(t, q)
           pre == SubSeq(us, 1, i - 1)
<1>1. /\ q \in Ways /\ Len(q) = i /\ Last(q) = us[i] /\ p = pre
      /\ \A j \in 0..i : SubSeq(q, 1, j) = SubSeq(us, 1, j)
  BY BeginOK
<1>2. /\ t \in TrieRecord /\ t.set \subseteq Ways /\ t.lru \in Seq(Ways)
  BY DEF Good, TrieRecord
<1>3. l \in Seq(Ways) /\ IsInjective(l) /\ ToSet(l) = Leaves(t) \ {p}
  BY <1>2, ListRemove DEF Good
<1>4. q \notin t.set /\ q \notin ToSet(l)
  BY <1>3 DEF Leaves
<1>5. /\ << q >> \o l \in Seq(Ways) /\ IsInjective(<< q >> \o l)
      /\ ToSet(<< q >> \o l) = (Leaves(t) \ {p}) \cup {q}
  <2> HIDE DEF q, l
  <2>1. /\ << q >> \o l \in Seq(Ways) /\ IsInjective(<< q >> \o l)
        /\ ToSet(<< q >> \o l) = ToSet(l) \cup {q}
    BY <1>1, <1>3, <1>4, ListCons
  <2>2. QED
    BY <2>1, <1>3
<1>6. i \in Nat /\ i >= 1 /\ Len(us) \in Nat
  OBVIOUS
<1>7. UnitTokens(Last(q)) \in Nat /\ UnitTokens(us[i]) = UnitTokens(Last(q))
  BY <1>1, WayOK
<1> HIDE DEF q, p, l, pre
<1>8. /\ n \in TrieRecord /\ n.set = t.set \cup {q} /\ n.lru = << q >> \o l /\ n.pins = t.pins
      /\ n.nodes = t.nodes + 1 /\ n.tokens = t.tokens + UnitTokens(Last(q)) /\ n.pinned = t.pinned
  <2>1. n = [t EXCEPT !.set = t.set \cup {q}, !.lru = << q >> \o l,
                      !.nodes = t.nodes + 1, !.tokens = t.tokens + UnitTokens(Last(q))]
    BY DEF InsertNode, l, p
  <2>2. t.set \cup {q} \in SUBSET Ways /\ t.nodes + 1 \in Int /\ t.tokens + UnitTokens(Last(q)) \in Int
    BY <1>1, <1>2, <1>7 DEF TrieRecord
  <2> HIDE DEF n
  <2>3. QED
    BY <2>1, <2>2, <1>2, <1>5 DEF TrieRecord
<1> HIDE DEF n
<1>9. ASSUME NEW r \in t.set PROVE Front(r) # q
  <2>1. r \in Ways /\ Front(r) = SubSeq(r, 1, Len(r) - 1) /\ Len(Front(r)) = Len(r) - 1 /\ Len(r) \in Nat
    BY <1>2, ParentOK, WayOK
  <2> SUFFICES ASSUME Front(r) = q PROVE FALSE
    OBVIOUS
  <2>2. Len(r) - 1 \in 1..Len(r)
    BY <2>1, <1>1, <1>6
  <2>3. SubSeq(r, 1, Len(r) - 1) \in t.set
    BY <2>2 DEF Good, Closed
  <2>4. QED
    BY <2>1, <2>3, <1>4
<1>10. q \notin DOMAIN t.pins /\ Front(q) = p /\ p # q
  BY <1>1, <1>4, ParentOK DEF Good, p
<1>11. Leaves(n) = (Leaves(t) \ {p}) \cup {q}
  BY <1>8, <1>9, <1>10 DEF Leaves
<1>12. Closed(n.set)
  <2> SUFFICES ASSUME NEW x \in n.set, NEW k \in 1..Len(x) PROVE SubSeq(x, 1, k) \in n.set
    BY DEF Closed
  <2>1. CASE x \in t.set
    BY <2>1, <1>8 DEF Good, Closed
  <2>2. CASE x = q
    <3>1. k \in 1..i /\ SubSeq(x, 1, k) = SubSeq(us, 1, k)
      BY <2>2, <1>1
    <3>2. CASE k = i
      BY <3>1, <3>2, <1>8 DEF q
    <3>3. CASE k # i
      <4>1. i # 1 /\ k \in 1..(i - 1) /\ i - 1 \in 1..Len(us) /\ k \in 0..(i - 1)
        BY <3>1, <3>3, <1>6
      <4>2. pre \in t.set /\ Len(pre) = i - 1 /\ SubSeq(pre, 1, k) = SubSeq(us, 1, k)
        BY <4>1, BeginOK DEF pre
      <4>3. SubSeq(pre, 1, k) \in t.set
        BY <4>1, <4>2 DEF Good, Closed
      <4>4. QED
        BY <3>1, <4>2, <4>3, <1>8
    <3>4. QED
      BY <3>2, <3>3
  <2>3. QED
    BY <2>1, <2>2, <1>8
<1>13. IsFiniteSet(n.set) /\ Cardinality(n.set) = Cardinality(t.set) + 1
  <2>1. IsFiniteSet(t.set)
    BY DEF Good
  <2>2. /\ IsFiniteSet(t.set \cup {q})
        /\ Cardinality(t.set \cup {q}) = IF q \in t.set THEN Cardinality(t.set) ELSE Cardinality(t.set) + 1
    BY <2>1, FS_AddElement
  <2>3. QED
    BY <2>2, <1>4, <1>8
<1>14. n.tokens = Weight(n.set)
  <2>1. n.set \ {q} = t.set /\ n.set \subseteq Ways /\ q \in n.set
    BY <1>1, <1>2, <1>4, <1>8
  <2>2. Weight(n.set) = Weight(t.set) + UnitTokens(Last(q))
    BY <2>1, <1>13, WeightMoves
  <2>3. QED
    BY <2>2, <1>8 DEF Good
<1>15. Good(n)
  BY <1>5, <1>8, <1>11, <1>12, <1>13, <1>14 DEF Good
<1>16. QED
  BY <1>1, <1>7, <1>8, <1>15 DEF n, q

\* A node that is not listed is pinned or has children; without pins the longest is listed.
LEMMA SomeLeaf ==
  ASSUME NEW t, Good(t), t.set # {}, DOMAIN t.pins = {}
  PROVE  t.lru # << >>
<1> DEFINE f == [q \in t.set |-> Len(q)]
<1>1. t.set \subseteq Ways /\ IsFiniteSet(t.set) /\ t.lru \in Seq(Ways)
  BY DEF Good, TrieRecord
<1>2. \A q \in t.set : Len(q) \in Nat
  BY <1>1, WayOK
<1>3. PICK q \in t.set : \A r \in t.set : Len(r) <= Len(q)
  <2> DEFINE L == {f[q] : q \in t.set}
  <2>1. IsFiniteSet(L) /\ L # {} /\ L \subseteq Int
    <3>1. \A q \in t.set : f[q] = Len(q) /\ f[q] \in Int
      BY <1>2
    <3>2. f \in Surjection(t.set, L)
      BY <3>1 DEF Surjection
    <3> HIDE DEF f
    <3>3. L # {} /\ L \subseteq Int
      BY <3>1
    <3> HIDE DEF L
    <3>4. QED
      BY <1>1, <3>2, <3>3, FS_Surjection
  <2> HIDE DEF L
  <2>2. PICK m \in L : \A k \in L : m >= k
    BY <2>1, FiniteMax
  <2>3. QED
    BY <2>2, <1>2 DEF L
<1>4. ASSUME NEW r \in t.set PROVE Front(r) # q
  <2>1. Len(Front(r)) = Len(r) - 1 /\ r \in Ways /\ Len(r) \in Nat
    BY <1>1, <1>2, ParentOK
  <2>2. r \in t.set /\ Len(r) <= Len(q) /\ Len(q) \in Nat
    BY <1>2, <1>3
  <2>3. Len(Front(r)) # Len(q)
    BY <2>1, <2>2
  <2>4. QED
    BY <2>3
<1>5. q \in Leaves(t)
  BY <1>3, <1>4 DEF Leaves
<1>6. ToSet(t.lru) # {}
  BY <1>5 DEF Good
<1>7. QED
  BY <1>6 DEF ToSet

\* evictLocked keeps a trie in order, and gets on while the list is not empty.
LEMMA EvictGood ==
  ASSUME NEW t, Good(t)
  PROVE  LET n == EvictOne(t)
         IN  /\ Good(n) /\ n.pins = t.pins /\ n.set \subseteq t.set
             /\ ~OverBudget(t) => n = t
             /\ OverBudget(t) /\ t.lru # << >> => n.nodes = t.nodes - 1 /\ n.tokens <= t.tokens - 1
<1> DEFINE v == Last(t.lru)
           p == Front(v)
           n == EvictOne(t)
<1>1. t \in TrieRecord /\ t.set \subseteq Ways /\ t.lru \in Seq(Ways)
  BY DEF Good, TrieRecord
<1>2. CASE ~OverBudget(t) \/ t.lru = << >>
  <2>1. n = t
    BY <1>2 DEF EvictOne
  <2>2. QED
    BY <1>2, <2>1
<1>3. CASE OverBudget(t) /\ t.lru # << >>
  <2> DEFINE S == t.set \ {v}
             l == Front(t.lru)
             s == [t EXCEPT !.set = S, !.lru = l,
                            !.nodes = t.nodes - 1, !.tokens = t.tokens - UnitTokens(Last(v))]
  <2>1. /\ l \in Seq(Ways) /\ IsInjective(l) /\ v \in ToSet(t.lru)
        /\ ToSet(l) = Leaves(t) \ {v}
    BY <1>1, <1>3, ListFront DEF Good
  <2>2. v \in t.set /\ (\A r \in t.set : Front(r) # v) /\ v \notin DOMAIN t.pins
    BY <2>1 DEF Good, Leaves
  <2>3. /\ v \in Ways /\ v \in Seq(AnyUnit) /\ Len(v) \in Nat /\ Len(v) >= 1
        /\ UnitTokens(Last(v)) \in Nat /\ UnitTokens(Last(v)) >= 1
    BY <1>1, <2>2, WayOK
  <2>4. p \in Seq(AnyUnit) /\ p = SubSeq(v, 1, Len(v) - 1) /\ Len(p) = Len(v) - 1 /\ p # v
    BY <2>3, ParentOK
  <2>5. Kids(t, v) = {}
    BY <1>1, <2>2, <2>3, KidsAre
  <2>6. n = IF BecomesLeaf(s, p) THEN [s EXCEPT !.lru = Append(l, p)] ELSE s
    BY <1>3, <2>5 DEF EvictOne
  <2> HIDE DEF v, p, l, n
  <2>7. /\ s \in TrieRecord /\ s.set = S /\ s.lru = l /\ s.pins = t.pins /\ s.pinned = t.pinned
        /\ s.nodes = t.nodes - 1 /\ s.tokens = t.tokens - UnitTokens(Last(v))
    <3>1. S \in SUBSET Ways /\ t.nodes - 1 \in Int /\ t.tokens - UnitTokens(Last(v)) \in Int
      BY <1>1, <2>3 DEF TrieRecord
    <3> HIDE DEF S
    <3>2. QED
      BY <3>1, <1>1, <2>1 DEF TrieRecord
  <2> HIDE DEF s
  <2>8. /\ IsFiniteSet(S) /\ Cardinality(S) = Cardinality(t.set) - 1 /\ Closed(S)
        /\ Weight(S) = Weight(t.set) - UnitTokens(Last(v)) /\ Weight(S) \in Int /\ Weight(t.set) \in Int
    <3>1. IsFiniteSet(t.set)
      BY DEF Good
    <3>2. IsFiniteSet(S) /\ Cardinality(S) = Cardinality(t.set) - 1
      BY <3>1, <2>2, FS_RemoveElement
    <3>3. Weight(t.set) = Weight(S) + UnitTokens(Last(v)) /\ Weight(S) \in Int /\ Weight(t.set) \in Int
      BY <3>1, <1>1, <2>2, WeightMoves
    <3>4. ASSUME NEW x \in S, NEW k \in 1..Len(x) PROVE SubSeq(x, 1, k) \in S
      <4>1. x \in t.set /\ x \in Ways /\ x \in Seq(AnyUnit) /\ Len(x) \in Nat /\ SubSeq(x, 1, Len(x)) = x
        BY <1>1, WayOK, BeginEnds
      <4>2. SubSeq(x, 1, k) \in t.set
        BY <4>1 DEF Good, Closed
      <4>3. SubSeq(x, 1, k) # v
        <5> SUFFICES ASSUME SubSeq(x, 1, k) = v PROVE FALSE
          BY SMTT(30)
        <5>1. k # Len(x)
          BY <4>1
        <5>2. k + 1 \in 1..Len(x) /\ k + 1 - 1 = k
          <6>1. k \in 1..Len(x) /\ Len(x) \in Nat
            BY <4>1
          <6> HIDE DEF S
          <6>2. QED
            BY <5>1, <6>1
        <5>3. SubSeq(x, 1, k + 1) \in t.set
          BY <4>1, <5>2 DEF Good, Closed
        <5>4. Front(SubSeq(x, 1, k + 1)) = v
          BY <4>1, <5>2, BeginOK
        <5>5. QED
          BY <5>3, <5>4, <2>2
      <4>4. QED
        BY <4>2, <4>3
    <3>5. QED
      BY <3>2, <3>3, <3>4, <2>3 DEF Closed
  <2>9. DOMAIN t.pins \subseteq S
    BY <2>2 DEF Good
  <2>10. Kids(s, p) = {r \in S : Front(r) = p}
    BY <1>1, <2>4, <2>7, KidsAre
  <2>11. PinsOf(s, p) = 0 <=> p \notin DOMAIN t.pins
    BY <2>7, <1>1, PinMapOK DEF TrieRecord
  <2>12. \A x \in S : x \in Leaves(s) <=> x \in Leaves(t) \/ (x = p /\ BecomesLeaf(s, p))
    <3> SUFFICES ASSUME NEW x \in S
                 PROVE  x \in Leaves(s) <=> x \in Leaves(t) \/ (x = p /\ BecomesLeaf(s, p))
      OBVIOUS
    <3>1. x \in t.set /\ x \in Ways /\ x # << >>
      BY <1>1, WayOK
    <3>2. x \in Leaves(s) <=> (\A r \in S : Front(r) # x) /\ x \notin DOMAIN t.pins
      BY <2>7 DEF Leaves
    <3>3. x \in Leaves(t) <=> (\A r \in t.set : Front(r) # x) /\ x \notin DOMAIN t.pins
      BY <3>1 DEF Leaves
    <3>4. (\A r \in t.set : Front(r) # x) <=> (\A r \in S : Front(r) # x) /\ p # x
      BY <2>2 DEF p
    <3>5. x = p => (BecomesLeaf(s, p) <=> (\A r \in S : Front(r) # x) /\ x \notin DOMAIN t.pins)
      BY <3>1, <2>10, <2>11 DEF BecomesLeaf
    <3>6. QED
      BY <3>2, <3>3, <3>4, <3>5
  <2>13. \A x : x \in Leaves(t) => x \in t.set
    BY DEF Leaves
  <2>14. Leaves(s) \subseteq S
    BY <2>7 DEF Leaves
  <2>15. CASE BecomesLeaf(s, p)
    <3>1. p # << >>
      BY <2>15 DEF BecomesLeaf
    <3>2. p \in S
      <4>1. Len(v) - 1 \in 1..Len(v)
        BY <2>3, <2>4, <3>1, EmptySeq, SMTT(30)
      <4>2. p \in t.set
        BY <4>1, <2>2, <2>4 DEF Good, Closed
      <4>3. QED
        BY <4>2, <2>4
    <3>3. p \notin ToSet(l)
      BY <2>1, <2>2 DEF Leaves, p
    <3>4. p \in Ways
      BY <3>2, <1>1
    <3>5. /\ Append(l, p) \in Seq(Ways) /\ IsInjective(Append(l, p))
          /\ ToSet(Append(l, p)) = ToSet(l) \cup {p}
      BY <2>1, <3>3, <3>4, ListAppend, SMTT(30)
    <3>6. n = [s EXCEPT !.lru = Append(l, p)]
      BY <2>6, <2>15
    <3>7. /\ n \in TrieRecord /\ n.set = S /\ n.lru = Append(l, p) /\ n.pins = t.pins
          /\ n.pinned = t.pinned /\ n.nodes = t.nodes - 1 /\ n.tokens = t.tokens - UnitTokens(Last(v))
      BY <3>5, <3>6, <2>7 DEF TrieRecord
    <3>8. Leaves(n) = Leaves(s)
      BY <3>7, <2>7 DEF Leaves
    <3>9. Leaves(s) = (Leaves(t) \ {v}) \cup {p}
      BY <2>12, <2>13, <2>14, <2>15, <3>2
    <3>10. ToSet(n.lru) = Leaves(n)
      BY <3>5, <3>7, <3>8, <3>9, <2>1
    <3>11. Good(n)
      BY <3>5, <3>7, <3>10, <2>8, <2>9 DEF Good
    <3>12. n.tokens <= t.tokens - 1
      BY <3>7, <2>3, <1>1 DEF TrieRecord
    <3>13. QED
      BY <3>7, <3>11, <3>12, <1>3 DEF n
  <2>16. CASE ~BecomesLeaf(s, p)
    <3>1. n = s
      BY <2>6, <2>16
    <3>2. Leaves(s) = Leaves(t) \ {v}
      BY <2>12, <2>13, <2>14, <2>16
    <3>3. Good(n)
      BY <3>1, <3>2, <2>1, <2>7, <2>8, <2>9 DEF Good
    <3>4. n.tokens <= t.tokens - 1
      BY <3>1, <2>7, <2>3, <1>1 DEF TrieRecord
    <3>5. QED
      BY <3>1, <3>3, <3>4, <2>7, <1>3 DEF n
  <2>17. QED
    BY <2>15, <2>16
<1>4. QED
  BY <1>2, <1>3

----------------------------------------------------------------------------
(* The loops. *)

\* The rounds of evictLocked.
Rounds(f, t, n) == f = [i \in 0..n |-> IF i = 0 THEN t ELSE EvictOne(f[i - 1])]

\* However many rounds are asked for, there is a run of them.
LEMMA RoundsExist ==
  ASSUME NEW t, NEW n \in Nat
  PROVE  \E f : Rounds(f, t, n)
<1> DEFINE bad == {k \in Nat : ~\E f : Rounds(f, t, k)}
<1> SUFFICES ASSUME bad # {} PROVE FALSE
  OBVIOUS
<1>1. PICK k \in bad : \A j \in bad : k <= j
  BY LeastNatural, bad \subseteq Nat
<1>2. k \in Nat /\ ~\E f : Rounds(f, t, k)
  OBVIOUS
<1>3. CASE k = 0
  <2> DEFINE h == [i \in 0..0 |-> t]
  <2>1. h = [i \in 0..0 |-> IF i = 0 THEN t ELSE EvictOne(h[i - 1])]
    OBVIOUS
  <2>2. QED
    BY <2>1, <1>2, <1>3 DEF Rounds
<1>4. CASE k # 0
  <2>1. k - 1 \in Nat /\ ~(k <= k - 1)
    BY <1>2, <1>4
  <2>2. k - 1 \notin bad
    BY <1>1, <2>1
  <2>3. PICK g : Rounds(g, t, k - 1)
    BY <2>1, <2>2
  <2> HIDE DEF bad
  <2> DEFINE h == [i \in 0..k |-> IF i = k THEN EvictOne(g[k - 1]) ELSE g[i]]
  <2>4. \A i \in 0..(k - 1) : h[i] = g[i] /\ g[i] = IF i = 0 THEN t ELSE EvictOne(g[i - 1])
    <3>1. \A i \in 0..(k - 1) : g[i] = IF i = 0 THEN t ELSE EvictOne(g[i - 1])
      BY <2>3 DEF Rounds
    <3>2. \A i \in 0..(k - 1) : i \in 0..k /\ i # k
      BY <1>2, <2>1
    <3>3. QED
      BY <3>1, <3>2
  <2>5. ASSUME NEW i \in 0..k PROVE h[i] = IF i = 0 THEN t ELSE EvictOne(h[i - 1])
    <3>1. CASE i = k
      <4>1. h[i] = EvictOne(g[k - 1]) /\ k - 1 \in 0..(k - 1)
        BY <3>1, <2>1
      <4>2. h[i - 1] = g[k - 1]
        BY <3>1, <4>1, <2>4
      <4>3. QED
        BY <4>1, <4>2, <3>1, <1>4
    <3>2. CASE i # k
      <4>1. i \in 0..(k - 1) /\ (i # 0 => i - 1 \in 0..(k - 1))
        BY <3>2, <1>2, <2>1
      <4>2. QED
        BY <4>1, <2>4
    <3>3. QED
      BY <3>1, <3>2
  <2>6. Rounds(h, t, k)
    <3>1. h = [i \in 0..k |-> h[i]]
      OBVIOUS
    <3> HIDE DEF h
    <3>2. QED
      BY <3>1, <2>5 DEF Rounds
  <2>7. QED
    BY <2>6, <1>2
<1>5. QED
  BY <1>3, <1>4

\* What evictLocked leaves is a trie in order, and what it worked on or less; with nothing
\* pinned it is within the caps, or every round has taken a block.
LEMMA EvictedGood ==
  ASSUME cap \in Caps, NEW t, Good(t), NEW n \in Nat
  PROVE  LET e == Evicted(t, n)
         IN  /\ Good(e) /\ e.pins = t.pins /\ e.set \subseteq t.set
             /\ DOMAIN t.pins = {} =>
                  \/ ~OverBudget(e) /\ e.nodes <= t.nodes /\ e.tokens <= t.tokens
                  \/ e.nodes = t.nodes - n /\ e.tokens <= t.tokens - n
<1> DEFINE f == CHOOSE g : Rounds(g, t, n)
           Fine(k) == /\ Good(f[k]) /\ f[k].pins = t.pins /\ f[k].set \subseteq t.set
                      /\ DOMAIN t.pins = {} =>
                           \/ ~OverBudget(f[k]) /\ f[k].nodes <= t.nodes /\ f[k].tokens <= t.tokens
                           \/ f[k].nodes = t.nodes - k /\ f[k].tokens <= t.tokens - k
           bad == {k \in 0..n : ~Fine(k)}
<1>1. Rounds(f, t, n)
  BY RoundsExist
<1>2. Evicted(t, n) = f[n]
  BY DEF Evicted, Rounds
<1> HIDE DEF f
<1>3. \A k \in 0..n : f[k] = IF k = 0 THEN t ELSE EvictOne(f[k - 1])
  BY <1>1 DEF Rounds
<1>4. t.nodes \in Int /\ t.tokens \in Int
  BY DEF Good, TrieRecord
<1>5. Fine(0)
  <2>1. f[0] = t
    BY <1>3
  <2>2. QED
    BY <2>1, <1>4
<1>6. ASSUME NEW k \in 1..n, Fine(k - 1) PROVE Fine(k)
  <2> DEFINE s == f[k - 1]
             e == EvictOne(s)
  <2>1. f[k] = e /\ k \in Nat /\ k - 1 \in Nat
    BY <1>3
  <2>2. /\ Good(s) /\ s.pins = t.pins /\ s.set \subseteq t.set /\ s.nodes \in Int /\ s.tokens \in Int
    BY <1>6 DEF Good, TrieRecord
  <2>3. /\ Good(e) /\ e.pins = s.pins /\ e.set \subseteq s.set
        /\ ~OverBudget(s) => e = s
        /\ OverBudget(s) /\ s.lru # << >> => e.nodes = s.nodes - 1 /\ e.tokens <= s.tokens - 1
    BY <2>2, EvictGood
  <2>4. ASSUME DOMAIN t.pins = {}
        PROVE  \/ ~OverBudget(f[k]) /\ f[k].nodes <= t.nodes /\ f[k].tokens <= t.tokens
               \/ f[k].nodes = t.nodes - k /\ f[k].tokens <= t.tokens - k
    <3>1. \/ ~OverBudget(s) /\ s.nodes <= t.nodes /\ s.tokens <= t.tokens
          \/ s.nodes = t.nodes - (k - 1) /\ s.tokens <= t.tokens - (k - 1)
      BY <1>6, <2>4
    <3>2. CASE ~OverBudget(s)
      <4>1. f[k] = s
        BY <3>2, <2>1, <2>3
      <4>2. s.nodes <= t.nodes /\ s.tokens <= t.tokens
        BY <3>1, <2>1, <2>2, <1>4
      <4>3. QED
        BY <4>1, <4>2, <3>2
    <3>3. CASE OverBudget(s)
      <4>1. s.set # {}
        <5> SUFFICES ASSUME s.set = {} PROVE FALSE
          OBVIOUS
        <5>1. s.nodes = 0 /\ s.tokens = 0
          BY <2>2, FS_EmptySet, SumOfNone DEF Good, Weight
        <5>2. cap.nodes \in Nat /\ cap.tokens \in Nat
          BY KvAssumption
        <5>3. QED
          BY <3>3, <5>1, <5>2 DEF OverBudget
      <4>2. s.lru # << >>
        BY <2>2, <2>4, <4>1, SomeLeaf
      <4>3. f[k].nodes = s.nodes - 1 /\ f[k].tokens <= s.tokens - 1 /\ f[k].tokens \in Int
        BY <2>1, <2>3, <3>3, <4>2 DEF Good, TrieRecord
      <4>4. QED
        BY <3>1, <3>3, <4>3, <2>1, <2>2, <1>4
    <3>4. QED
      BY <3>2, <3>3
  <2>5. QED
    BY <2>1, <2>2, <2>3, <2>4
<1> HIDE DEF Fine
<1>7. bad = {}
  <2> SUFFICES ASSUME bad # {} PROVE FALSE
    OBVIOUS
  <2>1. PICK k \in bad : \A j \in bad : k <= j
    BY LeastNatural, bad \subseteq Nat
  <2>2. k \in 0..n /\ ~Fine(k)
    OBVIOUS
  <2>3. k # 0
    BY <2>2, <1>5
  <2>4. k \in 1..n /\ k - 1 \in 0..n /\ ~(k <= k - 1)
    BY <2>2, <2>3
  <2>5. Fine(k - 1)
    BY <2>1, <2>4
  <2>6. QED
    BY <2>2, <2>4, <2>5, <1>6
<1>8. Fine(n)
  BY <1>7
<1>9. QED
  BY <1>2, <1>8 DEF Fine

\* The blocks of insertFrom.
Grown(f, t, us, m, n) ==
  f = [i \in m..n |-> IF i = m THEN t ELSE InsertNode(f[i - 1], SubSeq(us, 1, i))]

\* However many blocks there are, there is a run of insertions.
LEMMA GrownExists ==
  ASSUME NEW t, NEW us, NEW m \in Nat, NEW n \in Nat, m <= n
  PROVE  \E f : Grown(f, t, us, m, n)
<1> DEFINE bad == {k \in Nat : m <= k /\ ~\E f : Grown(f, t, us, m, k)}
<1> SUFFICES ASSUME bad # {} PROVE FALSE
  OBVIOUS
<1>1. PICK k \in bad : \A j \in bad : k <= j
  BY LeastNatural, bad \subseteq Nat
<1>2. k \in Nat /\ m <= k /\ ~\E f : Grown(f, t, us, m, k)
  OBVIOUS
<1>3. CASE k = m
  <2> DEFINE h == [i \in m..m |-> t]
  <2>1. h = [i \in m..m |-> IF i = m THEN t ELSE InsertNode(h[i - 1], SubSeq(us, 1, i))]
    OBVIOUS
  <2>2. QED
    BY <2>1, <1>2, <1>3 DEF Grown
<1>4. CASE k # m
  <2>1. k - 1 \in Nat /\ ~(k <= k - 1) /\ m <= k - 1
    BY <1>2, <1>4
  <2>2. k - 1 \notin bad
    BY <1>1, <2>1
  <2>3. PICK g : Grown(g, t, us, m, k - 1)
    BY <2>1, <2>2
  <2> HIDE DEF bad
  <2> DEFINE h == [i \in m..k |-> IF i = k THEN InsertNode(g[k - 1], SubSeq(us, 1, k)) ELSE g[i]]
  <2>4. /\ \A i \in m..(k - 1) : g[i] = IF i = m THEN t ELSE InsertNode(g[i - 1], SubSeq(us, 1, i))
        /\ \A i \in m..(k - 1) : h[i] = g[i]
    <3>1. \A i \in m..(k - 1) : g[i] = IF i = m THEN t ELSE InsertNode(g[i - 1], SubSeq(us, 1, i))
      BY <2>3 DEF Grown
    <3>2. \A i \in m..(k - 1) : i \in m..k /\ i # k
      BY <1>2, <2>1
    <3>3. QED
      BY <3>1, <3>2
  <2>5. ASSUME NEW i \in m..k
        PROVE  h[i] = IF i = m THEN t ELSE InsertNode(h[i - 1], SubSeq(us, 1, i))
    <3>1. CASE i = k
      <4>1. h[i] = InsertNode(g[k - 1], SubSeq(us, 1, k)) /\ k - 1 \in m..(k - 1)
        BY <3>1, <2>1, <1>2
      <4>2. h[i - 1] = g[k - 1]
        BY <3>1, <4>1, <2>4
      <4>3. QED
        BY <4>1, <4>2, <3>1, <1>4
    <3>2. CASE i # k
      <4>1. i \in m..(k - 1) /\ (i # m => i - 1 \in m..(k - 1))
        BY <3>2, <1>2, <2>1
      <4>2. QED
        BY <4>1, <2>4
    <3>3. QED
      BY <3>1, <3>2
  <2>6. Grown(h, t, us, m, k)
    <3>1. h = [i \in m..k |-> h[i]]
      OBVIOUS
    <3> HIDE DEF h
    <3>2. QED
      BY <3>1, <2>5 DEF Grown
  <2>7. QED
    BY <2>6, <1>2
<1>5. QED
  BY <1>3, <1>4

\* Cover adds block by block, and every block counts.
LEMMA CoverOK ==
  ASSUME NEW us \in Seq(AnyUnit)
  PROVE  /\ Cover(us, 0) = 0
         /\ \A i \in 1..Len(us) : Cover(us, i) = Cover(us, i - 1) + UnitTokens(us[i])
         /\ \A i \in 0..Len(us) : Cover(us, i) \in Nat /\ Cover(us, i) >= i
<1> DEFINE f == [k \in 1..Len(us) |-> UnitTokens(us[k])]
<1>0. Len(us) \in Nat /\ \A k \in 1..Len(us) : us[k] \in AnyUnit
  OBVIOUS
<1>1. \A k \in 1..Len(us) : f[k] = UnitTokens(us[k]) /\ f[k] \in Nat /\ f[k] \in Int /\ f[k] >= 1
  BY <1>0, UnitsWeigh
<1>2. ASSUME NEW i \in 0..Len(us) PROVE Cover(us, i) = SumOver(f, 1..i)
  <2> DEFINE S == 1..i
             K(it) == [s \in SUBSET S |-> IF s = {} THEN 0
                                          ELSE UnitTokens(us[First(s)]) + it[s \ {First(s)}]]
             h == [s \in SUBSET S |-> Iter(f, S)[s]]
             it0 == CHOOSE it : it = K(it)
  <2>0. IsFiniteSet(S) /\ S \subseteq 1..Len(us)
    BY <1>0, FS_Interval
  <2>1. \A s \in SUBSET S : Iter(f, S)[s] = Folded(f, Iter(f, S), s)
    <3> HIDE DEF f, S
    <3>1. QED
      BY <2>0, IterFolds
  <2>2. \A s \in SUBSET S : s # {} => /\ First(s) \in S /\ s \ {First(s)} \in SUBSET S
                                     /\ f[First(s)] = UnitTokens(us[First(s)])
    BY <2>0, <1>1 DEF First
  <2> HIDE DEF f, S
  <2>3. h = K(h)
    BY <2>1, <2>2 DEF Folded
  <2>4. it0 = K(it0)
    <3> HIDE DEF h, K
    <3>1. QED
      BY <2>3
  <2>5. \A s \in SUBSET S : it0[s] = Folded(f, it0, s)
    <3> HIDE DEF it0
    <3>1. QED
      BY <2>2, <2>4 DEF Folded
  <2>6. it0[S] = SumOver(f, S)
    <3> HIDE DEF it0
    <3>1. QED
      BY <2>0, <2>5, FoldIsSum
  <2>7. Cover(us, i) = it0[S]
    BY DEF Cover, MapThenSumSet, MapThenFoldSet, First, S
  <2>8. QED
    BY <2>6, <2>7 DEF S
<1> HIDE DEF f
<1>3. Cover(us, 0) = 0
  <2>1. 1..0 = {} /\ 0 \in 0..Len(us)
    BY <1>0
  <2>2. QED
    BY <2>1, <1>2, SumOfNone
<1>4. ASSUME NEW i \in 1..Len(us)
      PROVE  Cover(us, i) = Cover(us, i - 1) + UnitTokens(us[i]) /\ Cover(us, i) \in Int
  <2> DEFINE S == 1..i
  <2>1. IsFiniteSet(S) /\ i \in S /\ S \ {i} = 1..(i - 1) /\ i \in 0..Len(us) /\ i - 1 \in 0..Len(us)
    <3>1. i \in Nat /\ i >= 1 /\ i <= Len(us)
      BY <1>0
    <3>2. IsFiniteSet(1..i)
      BY <3>1, FS_Interval
    <3>3. \A k \in Int : k \in (1..i) \ {i} <=> k \in 1..(i - 1)
      BY <3>1
    <3>4. (1..i) \ {i} = 1..(i - 1)
      BY <3>1, <3>3
    <3>5. QED
      BY <3>1, <3>2, <3>4, <1>0
  <2>2. \A k \in S : f[k] \in Int
    BY <1>0, <1>1
  <2> HIDE DEF S
  <2>3. /\ SumOver(f, S) = f[i] + SumOver(f, S \ {i})
        /\ SumOver(f, S) \in Int /\ SumOver(f, S \ {i}) \in Int
    BY <2>1, <2>2, SumRemoves
  <2>4. Cover(us, i) = SumOver(f, S) /\ Cover(us, i - 1) = SumOver(f, S \ {i})
    BY <2>1, <1>2 DEF S
  <2>5. QED
    BY <2>3, <2>4, <1>1
<1>5. \A i \in 0..Len(us) : Cover(us, i) \in Nat /\ Cover(us, i) >= i
  <2> DEFINE bad == {i \in 0..Len(us) : ~(Cover(us, i) \in Nat /\ Cover(us, i) >= i)}
  <2> SUFFICES ASSUME bad # {} PROVE FALSE
    OBVIOUS
  <2>1. PICK i \in bad : \A j \in bad : i <= j
    BY LeastNatural, bad \subseteq Nat
  <2>2. i \in 0..Len(us) /\ ~(Cover(us, i) \in Nat /\ Cover(us, i) >= i)
    OBVIOUS
  <2>3. i # 0
    BY <2>2, <1>3
  <2>4. i \in 1..Len(us) /\ i - 1 \in 0..Len(us) /\ ~(i <= i - 1)
    BY <2>2, <2>3
  <2>5. Cover(us, i - 1) \in Nat /\ Cover(us, i - 1) >= i - 1
    BY <2>1, <2>4
  <2>6. Cover(us, i) = Cover(us, i - 1) + UnitTokens(us[i]) /\ UnitTokens(us[i]) \in Nat /\ UnitTokens(us[i]) >= 1
    BY <2>4, <1>1, <1>4
  <2>7. QED
    BY <2>2, <2>4, <2>5, <2>6
<1>6. QED
  BY <1>3, <1>4, <1>5

\* What insertFrom adds: the chain's blocks that were missing.
LEMMA GrownGood ==
  ASSUME NEW t, Good(t), NEW us \in Seq(AnyUnit), NEW m, m = Matched(t, us),
         NEW f, Grown(f, t, us, m, Len(us)), NEW i \in m..Len(us)
  PROVE  /\ Good(f[i]) /\ f[i].pins = t.pins
         /\ f[i].set = t.set \cup {SubSeq(us, 1, k) : k \in (m + 1)..i}
         /\ f[i].nodes = t.nodes + (i - m)
         /\ f[i].tokens = t.tokens + Cover(us, i) - Cover(us, m)
<1> DEFINE New(k) == {SubSeq(us, 1, j) : j \in (m + 1)..k}
           Fine(k) == /\ Good(f[k]) /\ f[k].pins = t.pins
                      /\ f[k].set = t.set \cup New(k)
                      /\ f[k].nodes = t.nodes + (k - m)
                      /\ f[k].tokens = t.tokens + Cover(us, k) - Cover(us, m)
           bad == {k \in m..Len(us) : ~Fine(k)}
<1>1. /\ t \in TrieRecord /\ t.set \subseteq Ways /\ Closed(t.set)
      /\ t.nodes \in Int /\ t.tokens \in Int /\ Len(us) \in Nat
  BY DEF Good, TrieRecord
<1>2. /\ m \in 0..Len(us) /\ m \in Nat
      /\ \A k \in 1..Len(us) : SubSeq(us, 1, k) \in t.set <=> k <= m
  BY <1>1, MatchedOK
<1>3. \A k \in m..Len(us) : f[k] = IF k = m THEN t ELSE InsertNode(f[k - 1], SubSeq(us, 1, k))
  BY DEF Grown
<1>4. \A k \in 0..Len(us) : Cover(us, k) \in Nat
  BY CoverOK
<1>5. Fine(m)
  <2>1. f[m] = t /\ New(m) = {} /\ Cover(us, m) \in Nat
    BY <1>1, <1>2, <1>3, <1>4
  <2>2. QED
    BY <1>1, <1>2, <2>1
<1>6. ASSUME NEW k \in (m + 1)..Len(us), Fine(k - 1) PROVE Fine(k)
  <2> DEFINE s == f[k - 1]
             q == SubSeq(us, 1, k)
  <2>1. /\ k \in Nat /\ k \in 1..Len(us) /\ k \in m..Len(us) /\ k # m /\ k - 1 \in Nat /\ ~(k <= m)
        /\ k - 1 \in 0..Len(us) /\ k \in 0..Len(us)
    BY <1>1, <1>2
  <2>2. f[k] = InsertNode(s, q)
    BY <1>3, <2>1
  <2>3. q \notin s.set
    <3>1. q \notin t.set
      BY <1>2, <2>1
    <3>2. Len(q) = k
      BY <2>1, BeginOK
    <3>3. ASSUME NEW j \in (m + 1)..(k - 1) PROVE SubSeq(us, 1, j) # q
      <4>1. j \in 1..Len(us) /\ j # k
        BY <1>1, <1>2, <2>1
      <4>2. Len(SubSeq(us, 1, j)) = j
        BY <4>1, BeginOK
      <4>3. QED
        BY <4>1, <4>2, <3>2
    <3>4. QED
      BY <1>6, <3>1, <3>3
  <2>4. k = 1 \/ SubSeq(us, 1, k - 1) \in s.set
    <3> SUFFICES ASSUME k # 1 PROVE SubSeq(us, 1, k - 1) \in s.set
      OBVIOUS
    <3>1. k - 1 \in 1..Len(us) /\ (k - 1 <= m \/ k - 1 \in (m + 1)..(k - 1))
      BY <1>1, <1>2, <2>1
    <3>2. QED
      BY <1>2, <1>6, <3>1
  <2>5. /\ Good(InsertNode(s, q)) /\ InsertNode(s, q).set = s.set \cup {q}
        /\ InsertNode(s, q).pins = s.pins /\ InsertNode(s, q).nodes = s.nodes + 1
        /\ InsertNode(s, q).tokens = s.tokens + UnitTokens(us[k])
    <3>1. Good(s)
      BY <1>6
    <3> HIDE DEF New, s
    <3>2. QED
      BY <3>1, <2>1, <2>3, <2>4, InsertGood
  <2>6. New(k) = New(k - 1) \cup {q}
    <3>1. \A j : j \in (m + 1)..k <=> j \in (m + 1)..(k - 1) \/ j = k
      BY <1>2, <2>1
    <3>2. QED
      BY <3>1
  <2>7. Cover(us, k) = Cover(us, k - 1) + UnitTokens(us[k]) /\ Cover(us, k) \in Nat /\ Cover(us, k - 1) \in Nat
        /\ Cover(us, m) \in Nat
    BY <1>2, <1>4, <2>1, CoverOK
  <2> HIDE DEF New
  <2>8. f[k].set = t.set \cup New(k)
    BY <2>2, <2>5, <2>6, <1>6
  <2>9. f[k].nodes = t.nodes + (k - m)
    BY <2>1, <2>2, <2>5, <1>6, <1>1, <1>2
  <2>10. f[k].tokens = t.tokens + Cover(us, k) - Cover(us, m)
    <3>1. us[k] \in AnyUnit
      BY <2>1
    <3>2. UnitTokens(us[k]) \in Nat
      BY <3>1, UnitsWeigh
    <3>3. f[k].tokens = t.tokens + Cover(us, k - 1) - Cover(us, m) + UnitTokens(us[k])
      BY <2>2, <2>5, <1>6
    <3>4. QED
      BY <3>2, <3>3, <2>7, <1>1
  <2>11. QED
    BY <2>2, <2>5, <2>8, <2>9, <2>10, <1>6
<1> HIDE DEF Fine
<1>7. bad = {}
  <2> SUFFICES ASSUME bad # {} PROVE FALSE
    OBVIOUS
  <2>1. bad \subseteq Nat
    BY <1>2
  <2>2. PICK k \in bad : \A j \in bad : k <= j
    BY <2>1, LeastNatural
  <2>3. k \in m..Len(us) /\ ~Fine(k)
    OBVIOUS
  <2>4. k # m
    BY <2>3, <1>5
  <2>5. k \in (m + 1)..Len(us) /\ k - 1 \in m..Len(us) /\ ~(k <= k - 1)
    BY <2>3, <2>4, <1>1, <1>2
  <2>6. Fine(k - 1)
    BY <2>2, <2>5
  <2>7. QED
    BY <2>3, <2>5, <2>6, <1>6
<1>8. Fine(i)
  BY <1>7
<1>9. QED
  BY <1>8 DEF Fine

\* Within the caps, the one on tokens as far as the budget covers what is added.
Within(t) ==
  /\ cap.nodes > 0 => t.nodes <= cap.nodes
  /\ cap.tokens > 0 /\ BudgetCovers => t.tokens <= cap.tokens

\* insertFrom keeps a trie in order, and one without pins within the caps.
LEMMA InsertFromGood ==
  ASSUME cap \in Caps, NEW t, Good(t), NEW us \in Seq(AnyUnit), us # << >>
  PROVE  LET r == InsertFrom(t, us, Matched(t, us))
         IN  /\ Good(r) /\ r.pins = t.pins
             /\ DOMAIN t.pins = {} /\ us \in Chunked /\ Within(t) => Within(r)
<1> DEFINE m == Matched(t, us)
           L == Len(us)
           f == CHOOSE g : Grown(g, t, us, m, L)
           n == L - m + cap.evict
           r == InsertFrom(t, us, m)
<1>1. /\ t.set \subseteq Ways /\ Closed(t.set) /\ L \in Nat
      /\ t.nodes \in Int /\ t.tokens \in Int
  BY DEF Good, TrieRecord
<1>2. m \in 0..L
  BY <1>1, MatchedOK
<1>3. m \in Nat /\ m <= L /\ L \in m..L /\ m \in 0..L /\ L \in 0..L
  BY <1>1, <1>2
<1>4. cap.nodes \in Nat /\ cap.tokens \in Nat /\ cap.evict \in Nat /\ n \in Nat
  BY <1>1, <1>2, KvAssumption
<1> HIDE DEF m, L
<1>5. Grown(f, t, us, m, L)
  BY <1>1, <1>3, GrownExists
<1>6. r = IF Bounded THEN Evicted(f[L], n) ELSE f[L]
  BY DEF InsertFrom, Grown, L
<1> HIDE DEF f
<1>7. /\ Good(f[L]) /\ f[L].pins = t.pins /\ f[L].nodes = t.nodes + (L - m)
      /\ f[L].tokens = t.tokens + Cover(us, L) - Cover(us, m)
  BY <1>3, <1>5, GrownGood DEF m, L
<1> HIDE DEF n, r
<1>8. CASE ~Bounded
  <2>1. Within(r)
    BY <1>8, <1>4 DEF Within, Bounded
  <2>2. QED
    BY <1>6, <1>7, <1>8, <2>1 DEF m, r
<1>9. CASE Bounded
  <2> DEFINE e == Evicted(f[L], n)
  <2>1. /\ Good(e) /\ e.pins = f[L].pins
        /\ DOMAIN f[L].pins = {} =>
             \/ ~OverBudget(e)
             \/ e.nodes = f[L].nodes - n /\ e.tokens <= f[L].tokens - n
    BY <1>4, <1>7, EvictedGood
  <2>2. r = e
    BY <1>6, <1>9
  <2> HIDE DEF e
  <2>3. e.nodes \in Int /\ e.tokens \in Int
    BY <2>1 DEF Good, TrieRecord
  <2>4. ASSUME DOMAIN t.pins = {}, us \in Chunked, Within(t) PROVE Within(e)
    <3>1. CASE ~OverBudget(e)
      BY <3>1, <1>4, <2>3 DEF OverBudget, Within
    <3>2. CASE e.nodes = f[L].nodes - n /\ e.tokens <= f[L].tokens - n
      <4>1. e.nodes = t.nodes - cap.evict
        BY <3>2, <1>1, <1>3, <1>4, <1>7 DEF n
      <4>2. Cover(us, m) \in Nat /\ Cover(us, m) >= m /\ Cover(us, L) \in Nat
        BY <1>3, CoverOK DEF L
      <4>3. e.tokens <= t.tokens + Cover(us, L) - Cover(us, m) - (L - m + cap.evict)
        BY <3>2, <4>2, <1>1, <1>3, <1>4, <1>7, <2>3, SMTT(30) DEF n
      <4>4. BudgetCovers => Cover(us, L) <= L + cap.evict
        BY <2>4 DEF BudgetCovers, L
      <4>5. ASSUME BudgetCovers PROVE e.tokens <= t.tokens
        <5>1. Cover(us, L) <= L + cap.evict
          BY <4>4, <4>5
        <5>2. /\ L \in Nat /\ m \in Nat /\ cap.evict \in Nat /\ t.tokens \in Int /\ e.tokens \in Int
              /\ Cover(us, m) \in Nat /\ Cover(us, L) \in Nat
          BY <4>2, <1>1, <1>3, <1>4, <2>3
        <5>3. QED
          BY <5>1, <5>2, <4>2, <4>3, SMTT(30)
      <4>6. e.nodes <= t.nodes
        BY <4>1, <1>1, <1>4
      <4>7. QED
        BY <4>5, <4>6, <2>4, <2>3, <1>1, <1>4 DEF Within
    <3>3. QED
      BY <2>1, <1>7, <2>4, <3>1, <3>2
  <2>5. QED
    BY <2>1, <2>2, <2>4, <1>7 DEF m, r
<1>10. QED
  BY <1>8, <1>9

----------------------------------------------------------------------------
(* Recording, pinning and unpinning. *)

\* RecordAndCount's and RecordAndPin's insertion.
LEMMA RecordedGood ==
  ASSUME cap \in Caps, NEW t, Good(t), NEW us \in Seq(AnyUnit), us # << >>
  PROVE  /\ Good(RecordedIn(t, us)) /\ RecordedIn(t, us).pins = t.pins
         /\ DOMAIN t.pins = {} /\ us \in Chunked /\ Within(t) => Within(RecordedIn(t, us))
BY InsertFromGood DEF RecordedIn

\* commitLocked: using a leaf anew changes its place in the list, and nothing else.
LEMMA CommittedGood ==
  ASSUME cap \in Caps, NEW t, Good(t), NEW us \in Seq(AnyUnit), us # << >>
  PROVE  /\ Good(Committed(t, us)) /\ Committed(t, us).pins = t.pins
         /\ DOMAIN t.pins = {} /\ us \in Chunked /\ Within(t) => Within(Committed(t, us))
<1> DEFINE m == Matched(t, us)
           q == SubSeq(us, 1, m)
           l == << q >> \o Unlisted(t.lru, q)
           s == IF Contains(t.lru, q) THEN [t EXCEPT !.lru = l] ELSE t
<1>1. Committed(t, us) = InsertFrom(s, us, m)
  BY DEF Committed
<1>2. t \in TrieRecord /\ t.lru \in Seq(Ways)
  BY DEF Good, TrieRecord
<1> HIDE DEF m
<1>3. /\ Good(s) /\ s.pins = t.pins /\ s.set = t.set /\ s.nodes = t.nodes /\ s.tokens = t.tokens
  <2>1. CASE Contains(t.lru, q)
    <3>1. q \in ToSet(t.lru) /\ q \in Ways
      <4> HIDE DEF q
      <4>1. \E i \in 1..Len(t.lru) : t.lru[i] = q
        BY <2>1 DEF Contains
      <4>2. QED
        BY <4>1, <1>2, ListOf
    <3>2. /\ Unlisted(t.lru, q) \in Seq(Ways) /\ IsInjective(Unlisted(t.lru, q))
          /\ ToSet(Unlisted(t.lru, q)) = ToSet(t.lru) \ {q}
      BY <1>2, ListRemove DEF Good
    <3>3. q \notin ToSet(Unlisted(t.lru, q))
      BY <3>2
    <3>4. /\ l \in Seq(Ways) /\ IsInjective(l) /\ ToSet(l) = ToSet(Unlisted(t.lru, q)) \cup {q}
      <4> HIDE DEF q
      <4>1. QED
        BY <3>1, <3>2, <3>3, ListCons
    <3>5. ToSet(l) = ToSet(t.lru)
      BY <3>1, <3>2, <3>4
    <3> HIDE DEF l
    <3>6. /\ s \in TrieRecord /\ s.set = t.set /\ s.lru = l /\ s.pins = t.pins /\ s.nodes = t.nodes
          /\ s.tokens = t.tokens /\ s.pinned = t.pinned
      BY <2>1, <1>2, <3>4 DEF TrieRecord
    <3> HIDE DEF s
    <3>7. Leaves(s) = Leaves(t)
      BY <3>6 DEF Leaves
    <3>8. QED
      BY <3>4, <3>5, <3>6, <3>7 DEF Good
  <2>2. CASE ~Contains(t.lru, q)
    BY <2>2
  <2>3. QED
    BY <2>1, <2>2
<1> HIDE DEF s
<1>4. m = Matched(s, us)
  BY <1>3 DEF m, Matched
<1>5. Within(s) <=> Within(t)
  BY <1>3 DEF Within
<1>6. /\ Good(InsertFrom(s, us, m)) /\ InsertFrom(s, us, m).pins = s.pins
      /\ DOMAIN s.pins = {} /\ us \in Chunked /\ Within(s) => Within(InsertFrom(s, us, m))
  BY <1>3, <1>4, InsertFromGood
<1>7. QED
  BY <1>1, <1>3, <1>5, <1>6

\* A chain's nodes are the prefixes of its name.
LEMMA ChainIs ==
  ASSUME NEW us \in Ways
  PROVE  /\ ChainOf(us) \subseteq Ways /\ IsFiniteSet(ChainOf(us)) /\ us \in ChainOf(us)
         /\ \A q \in Ways : IsPrefix(q, us) <=> q \in ChainOf(us)
<1> DEFINE f == [k \in 1..Len(us) |-> SubSeq(us, 1, k)]
<1>1. us \in Seq(AnyUnit) /\ Len(us) \in Nat /\ Len(us) >= 1 /\ SubSeq(us, 1, Len(us)) = us
  BY WayOK, BeginEnds
<1>2. \A k \in 1..Len(us) : SubSeq(us, 1, k) \in Ways /\ Len(SubSeq(us, 1, k)) = k
  BY <1>1, BeginOK
<1>3. IsFiniteSet(ChainOf(us))
  <2>1. IsFiniteSet(1..Len(us))
    BY <1>1, FS_Interval
  <2>2. f \in Surjection(1..Len(us), ChainOf(us))
    BY DEF Surjection, ChainOf
  <2>3. QED
    BY <2>1, <2>2, FS_Surjection
<1>4. ASSUME NEW q \in Ways PROVE IsPrefix(q, us) <=> q \in ChainOf(us)
  <2>1. q \in Seq(AnyUnit) /\ Len(q) \in Nat /\ Len(q) >= 1 /\ SubSeq(q, 1, Len(q)) = q
    BY WayOK, BeginEnds
  <2>2. ASSUME IsPrefix(q, us) PROVE q \in ChainOf(us)
    <3>1. Len(q) \in 1..Len(us) /\ q = SubSeq(us, 1, Len(q))
      BY <1>1, <2>1, <2>2 DEF IsPrefix
    <3>2. QED
      BY <3>1 DEF ChainOf
  <2>3. ASSUME q \in ChainOf(us) PROVE IsPrefix(q, us)
    <3>1. PICK k \in 1..Len(us) : q = SubSeq(us, 1, k)
      BY <2>3 DEF ChainOf
    <3>2. Len(q) = k
      BY <1>2, <3>1, SMTT(30)
    <3>3. QED
      BY <1>1, <2>1, <3>1, <3>2 DEF IsPrefix
  <2>4. QED
    BY <2>2, <2>3
<1>5. us \in ChainOf(us) /\ ChainOf(us) \subseteq Ways
  <2>1. Len(us) \in 1..Len(us)
    BY <1>1
  <2>2. SubSeq(us, 1, Len(us)) \in ChainOf(us)
    BY <2>1 DEF ChainOf
  <2>3. QED
    BY <2>2, <1>1, <1>2 DEF ChainOf
<1>6. QED
  BY <1>3, <1>4, <1>5

\* Taking the nodes of pinChain's walk from the list one by one.
Taken(f, l, us, new, n) ==
  f = [k \in 0..n |-> IF k = 0 THEN l
                      ELSE IF SubSeq(us, 1, k) \in new THEN Unlisted(f[k - 1], SubSeq(us, 1, k))
                      ELSE f[k - 1]]

\* However long the chain is, there is a walk along it.
LEMMA TakenExists ==
  ASSUME NEW l, NEW us, NEW new, NEW n \in Nat
  PROVE  \E f : Taken(f, l, us, new, n)
<1> DEFINE Step(k, x) == IF SubSeq(us, 1, k) \in new THEN Unlisted(x, SubSeq(us, 1, k)) ELSE x
           bad == {k \in Nat : ~\E f : Taken(f, l, us, new, k)}
<1> SUFFICES ASSUME bad # {} PROVE FALSE
  OBVIOUS
<1>1. PICK k \in bad : \A j \in bad : k <= j
  BY LeastNatural, bad \subseteq Nat
<1>2. k \in Nat /\ ~\E f : Taken(f, l, us, new, k)
  OBVIOUS
<1>3. CASE k = 0
  <2> DEFINE h == [i \in 0..0 |-> l]
  <2>1. h = [i \in 0..0 |-> IF i = 0 THEN l ELSE Step(i, h[i - 1])]
    OBVIOUS
  <2>2. QED
    BY <2>1, <1>2, <1>3 DEF Taken
<1>4. CASE k # 0
  <2>1. k - 1 \in Nat /\ ~(k <= k - 1)
    BY <1>2, <1>4
  <2>2. k - 1 \notin bad
    BY <1>1, <2>1
  <2>3. PICK g : Taken(g, l, us, new, k - 1)
    BY <2>1, <2>2
  <2> HIDE DEF bad
  <2> DEFINE h == [i \in 0..k |-> IF i = k THEN Step(k, g[k - 1]) ELSE g[i]]
  <2>4. /\ \A i \in 0..(k - 1) : g[i] = IF i = 0 THEN l ELSE Step(i, g[i - 1])
        /\ \A i \in 0..(k - 1) : h[i] = g[i]
    <3>1. \A i \in 0..(k - 1) : g[i] = IF i = 0 THEN l ELSE Step(i, g[i - 1])
      BY <2>3 DEF Taken
    <3>2. \A i \in 0..(k - 1) : i \in 0..k /\ i # k
      BY <1>2, <2>1
    <3>3. QED
      BY <3>1, <3>2
  <2>5. ASSUME NEW i \in 0..k PROVE h[i] = IF i = 0 THEN l ELSE Step(i, h[i - 1])
    <3>1. CASE i = k
      <4>1. h[i] = Step(k, g[k - 1]) /\ k - 1 \in 0..(k - 1)
        BY <3>1, <2>1, <1>2
      <4>2. h[i - 1] = g[k - 1]
        BY <3>1, <4>1, <2>4
      <4>3. QED
        BY <4>1, <4>2, <3>1, <1>4
    <3>2. CASE i # k
      <4>1. i \in 0..(k - 1) /\ (i # 0 => i - 1 \in 0..(k - 1))
        BY <3>2, <1>2, <2>1
      <4>2. QED
        BY <4>1, <2>4
    <3>3. QED
      BY <3>1, <3>2
  <2>6. Taken(h, l, us, new, k)
    <3>1. h = [i \in 0..k |-> h[i]]
      OBVIOUS
    <3> HIDE DEF h
    <3>2. QED
      BY <3>1, <2>5 DEF Taken
  <2>7. QED
    BY <2>6, <1>2
<1>5. QED
  BY <1>3, <1>4

\* What pinChain leaves of the list: all but the chain's nodes that were not pinned.
LEMMA TakenGood ==
  ASSUME NEW l \in Seq(Ways), IsInjective(l), NEW us, NEW new, NEW n \in Nat,
         NEW f, Taken(f, l, us, new, n), NEW i \in 0..n
  PROVE  /\ f[i] \in Seq(Ways) /\ IsInjective(f[i])
         /\ \A q : q \in ToSet(f[i]) <=> /\ q \in ToSet(l)
                                         /\ q \in new => \A j \in 1..i : q # SubSeq(us, 1, j)
<1> DEFINE Dropped(k) == {q \in new : \E j \in 1..k : q = SubSeq(us, 1, j)}
           Fine(k) == f[k] \in Seq(Ways) /\ IsInjective(f[k]) /\ ToSet(f[k]) = ToSet(l) \ Dropped(k)
           bad == {k \in 0..n : ~Fine(k)}
<1>1. \A k \in 0..n : f[k] = IF k = 0 THEN l
                             ELSE IF SubSeq(us, 1, k) \in new THEN Unlisted(f[k - 1], SubSeq(us, 1, k))
                             ELSE f[k - 1]
  BY DEF Taken
<1>2. Fine(0)
  <2>1. Dropped(0) = {} /\ f[0] = l
    BY <1>1
  <2> HIDE DEF Dropped
  <2>2. QED
    BY <2>1
<1>3. ASSUME NEW k \in 1..n, Fine(k - 1) PROVE Fine(k)
  <2> DEFINE p == SubSeq(us, 1, k)
  <2>1. k \in 0..n /\ k # 0 /\ k - 1 \in 0..n /\ \A j : j \in 1..k <=> (j \in 1..(k - 1) \/ j = k)
    OBVIOUS
  <2>2. f[k] = IF p \in new THEN Unlisted(f[k - 1], p) ELSE f[k - 1]
    BY <1>1, <2>1
  <2>3. Dropped(k) = Dropped(k - 1) \cup ({p} \cap new)
    BY <2>1
  <2> HIDE DEF Dropped, p
  <2>4. CASE p \in new
    <3>1. /\ Unlisted(f[k - 1], p) \in Seq(Ways) /\ IsInjective(Unlisted(f[k - 1], p))
          /\ ToSet(Unlisted(f[k - 1], p)) = ToSet(f[k - 1]) \ {p}
      BY <1>3, ListRemove
    <3>2. ToSet(l) \ Dropped(k) = (ToSet(l) \ Dropped(k - 1)) \ {p}
      BY <2>3, <2>4
    <3>3. QED
      BY <3>1, <3>2, <2>2, <2>4, <1>3
  <2>5. CASE p \notin new
    <3>1. Dropped(k) = Dropped(k - 1)
      BY <2>3, <2>5
    <3>2. QED
      BY <3>1, <2>2, <2>5, <1>3
  <2>6. QED
    BY <2>4, <2>5
<1>4. bad = {}
  <2> HIDE DEF Fine
  <2> SUFFICES ASSUME bad # {} PROVE FALSE
    OBVIOUS
  <2>1. PICK k \in bad : \A j \in bad : k <= j
    BY LeastNatural, bad \subseteq Nat
  <2>2. k \in 0..n /\ ~Fine(k)
    OBVIOUS
  <2>3. k # 0
    BY <2>2, <1>2
  <2>4. k \in 1..n /\ k - 1 \in 0..n /\ ~(k <= k - 1)
    BY <2>2, <2>3
  <2>5. Fine(k - 1)
    BY <2>1, <2>4
  <2>6. QED
    BY <2>2, <2>4, <2>5, <1>3
<1>5. Fine(i)
  <2> HIDE DEF Fine
  <2> QED
    BY <1>4
<1>6. QED
  BY <1>5

\* pinChain keeps a trie in order, if the chain is there.
LEMMA PinGood ==
  ASSUME NEW t, Good(t), NEW us \in Ways, ChainOf(us) \subseteq t.set
  PROVE  LET n == PinChain(t, us)
         IN  /\ Good(n) /\ n.set = t.set
             /\ \A q : PinsOf(n, q) = PinsOf(t, q) + IF q \in ChainOf(us) THEN 1 ELSE 0
<1> DEFINE chain == ChainOf(us)
           new == {q \in chain : PinsOf(t, q) = 0}
           L == Len(us)
           f == CHOOSE g : Taken(g, t.lru, us, new, L)
           D == DOMAIN t.pins \cup chain
           pins == [q \in D |-> PinsOf(t, q) + IF q \in chain THEN 1 ELSE 0]
           n == PinChain(t, us)
<1>1. /\ t \in TrieRecord /\ t.set \subseteq Ways /\ t.lru \in Seq(Ways) /\ t.pins \in PinMap
      /\ IsInjective(t.lru) /\ t.pinned \in Int
  BY DEF Good, TrieRecord
<1>2. /\ us \in Seq(AnyUnit) /\ L \in Nat
      /\ IsFiniteSet(chain) /\ chain \subseteq Ways
  BY WayOK, ChainIs
<1>3. /\ DOMAIN t.pins \subseteq Ways /\ (\A q \in DOMAIN t.pins : t.pins[q] \in Nat \ {0})
      /\ \A q : PinsOf(t, q) \in Nat /\ (PinsOf(t, q) = 0 <=> q \notin DOMAIN t.pins)
  BY <1>1, PinMapOK
<1>4. Taken(f, t.lru, us, new, L)
  <2> HIDE DEF new, L
  <2> QED
    BY <1>2, TakenExists
<1>5. n = [t EXCEPT !.lru = f[L], !.pinned = t.pinned + Cardinality(new), !.pins = pins]
  BY DEF PinChain, Taken, L
<1> HIDE DEF f
<1>6. f[L] \in Seq(Ways) /\ IsInjective(f[L]) /\ ToSet(f[L]) = ToSet(t.lru) \ new
  <2>1. L \in 0..L
    BY <1>2
  <2>2. /\ f[L] \in Seq(Ways) /\ IsInjective(f[L])
        /\ \A q : q \in ToSet(f[L]) <=> /\ q \in ToSet(t.lru)
                                        /\ q \in new => \A j \in 1..L : q # SubSeq(us, 1, j)
    <3>1. t.lru \in Seq(Ways) /\ IsInjective(t.lru) /\ L \in Nat
      BY <1>1, <1>2
    <3> HIDE DEF L, new
    <3>2. QED
      BY <3>1, <1>4, <2>1, TakenGood
  <2>3. \A q \in new : \E j \in 1..L : q = SubSeq(us, 1, j)
    BY DEF ChainOf
  <2>4. QED
    BY <2>2, <2>3
<1>7. pins \in PinMap /\ DOMAIN pins = D /\ D \subseteq t.set
  <2>1. D \subseteq Ways /\ D \subseteq t.set
    BY <1>2, <1>3 DEF Good
  <2>2. \A q \in D : PinsOf(t, q) + (IF q \in chain THEN 1 ELSE 0) \in Nat \ {0}
    BY <1>3
  <2>3. pins \in [D -> Nat \ {0}] /\ DOMAIN pins = D
    BY <2>2
  <2> HIDE DEF pins, D
  <2>4. QED
    BY <2>1, <2>3 DEF PinMap
<1> DEFINE m == [t EXCEPT !.lru = f[L], !.pinned = t.pinned + Cardinality(new), !.pins = pins]
<1>8. /\ IsFiniteSet(new) /\ new = D \ DOMAIN t.pins /\ IsFiniteSet(D)
      /\ Cardinality(D) = t.pinned + Cardinality(new) /\ Cardinality(new) \in Int
  <2>1. IsFiniteSet(new) /\ IsFiniteSet(DOMAIN t.pins)
    BY <1>2, FS_Subset DEF Good
  <2>2. new = D \ DOMAIN t.pins /\ D = DOMAIN t.pins \cup new /\ DOMAIN t.pins \cap new = {}
    BY <1>3
  <2>3. /\ IsFiniteSet(D)
        /\ Cardinality(D) = Cardinality(DOMAIN t.pins) + Cardinality(new) - Cardinality(DOMAIN t.pins \cap new)
    <3> HIDE DEF new, D
    <3> QED
      BY <2>1, <2>2, FS_Union
  <2>4. Cardinality(DOMAIN t.pins \cap new) = 0 /\ Cardinality(DOMAIN t.pins) \in Nat /\ Cardinality(new) \in Nat
    <3> HIDE DEF new
    <3> QED
      BY <2>1, <2>2, FS_EmptySet, FS_CardinalityType
  <2>5. QED
    BY <2>1, <2>2, <2>3, <2>4 DEF Good
<1> HIDE DEF pins
<1>9. /\ m \in TrieRecord /\ m.set = t.set /\ m.lru = f[L] /\ m.pins = pins /\ m.nodes = t.nodes
      /\ m.tokens = t.tokens /\ m.pinned = t.pinned + Cardinality(new)
  <2>1. t.pinned + Cardinality(new) \in Int /\ f[L] \in Seq(Ways) /\ pins \in PinMap
    BY <1>1, <1>6, <1>7, <1>8
  <2> HIDE DEF new, L
  <2>2. QED
    BY <1>1, <2>1 DEF TrieRecord
<1> HIDE DEF m
<1>10. Leaves(m) = Leaves(t) \ new
  <2>1. Leaves(m) = {q \in t.set : (\A r \in t.set : Front(r) # q) /\ q \notin D}
    BY <1>7, <1>9 DEF Leaves
  <2>2. QED
    BY <2>1, <1>8 DEF Leaves
<1>11. Good(m)
  BY <1>6, <1>7, <1>8, <1>9, <1>10 DEF Good
<1>12. ASSUME NEW q PROVE PinsOf(m, q) = PinsOf(t, q) + IF q \in chain THEN 1 ELSE 0
  <2>1. CASE q \in D
    BY <2>1, <1>7, <1>9 DEF PinsOf, pins
  <2>2. CASE q \notin D
    BY <2>2, <1>7, <1>9, <1>3 DEF PinsOf
  <2>3. QED
    BY <2>1, <2>2
<1>13. n = m
  BY <1>5 DEF m
<1>14. QED
  BY <1>9, <1>11, <1>12, <1>13

\* unpinChain keeps a trie in order: of what it frees only the chain's end can be a leaf.
LEMMA UnpinGood ==
  ASSUME NEW t, Good(t), NEW us \in Ways, ChainOf(us) \subseteq DOMAIN t.pins
  PROVE  LET n == UnpinChain(t, us)
         IN  /\ Good(n) /\ n.set = t.set
             /\ \A q : PinsOf(n, q) = PinsOf(t, q) - IF q \in ChainOf(us) THEN 1 ELSE 0
<1> DEFINE chain == ChainOf(us)
           freed == {q \in chain : PinsOf(t, q) = 1}
           leaf == us \in freed /\ Kids(t, us) = {}
           l == IF leaf THEN << us >> \o t.lru ELSE t.lru
           D == DOMAIN t.pins \ freed
           pins == [q \in D |-> PinsOf(t, q) - IF q \in chain THEN 1 ELSE 0]
           n == UnpinChain(t, us)
<1>1. /\ t \in TrieRecord /\ t.set \subseteq Ways /\ t.lru \in Seq(Ways) /\ t.pins \in PinMap
      /\ IsInjective(t.lru) /\ t.pinned \in Int /\ ToSet(t.lru) = Leaves(t)
  BY DEF Good, TrieRecord
<1>2. /\ us \in Seq(AnyUnit) /\ Len(us) \in Nat /\ Len(us) >= 1 /\ us \in chain
      /\ IsFiniteSet(chain) /\ chain \subseteq Ways
  BY WayOK, ChainIs
<1>3. /\ DOMAIN t.pins \subseteq Ways /\ (\A q \in DOMAIN t.pins : t.pins[q] \in Nat \ {0})
      /\ \A q : PinsOf(t, q) \in Nat /\ (PinsOf(t, q) = 0 <=> q \notin DOMAIN t.pins)
  BY <1>1, PinMapOK
<1>4. n = [t EXCEPT !.pinned = t.pinned - Cardinality(freed), !.lru = l, !.pins = pins]
  BY DEF UnpinChain
<1>5. /\ l \in Seq(Ways) /\ IsInjective(l)
      /\ ToSet(l) = ToSet(t.lru) \cup (IF leaf THEN {us} ELSE {})
  <2>1. us \notin ToSet(t.lru)
    BY <1>1, <1>2 DEF Leaves
  <2>2. CASE leaf
    <3>1. /\ << us >> \o t.lru \in Seq(Ways) /\ IsInjective(<< us >> \o t.lru)
          /\ ToSet(<< us >> \o t.lru) = ToSet(t.lru) \cup {us}
      <4> HIDE DEF leaf
      <4> QED
        BY <2>1, <1>1, ListCons
    <3> HIDE DEF leaf
    <3>2. QED
      BY <3>1, <2>2
  <2>3. CASE ~leaf
    <3> HIDE DEF leaf
    <3> QED
      BY <2>3, <1>1
  <2>4. QED
    BY <2>2, <2>3
<1>6. pins \in PinMap /\ DOMAIN pins = D /\ D \subseteq t.set
  <2>1. D \subseteq Ways /\ D \subseteq t.set
    BY <1>3 DEF Good
  <2>2. \A q \in D : PinsOf(t, q) - (IF q \in chain THEN 1 ELSE 0) \in Nat \ {0}
    BY <1>3
  <2>3. pins \in [D -> Nat \ {0}] /\ DOMAIN pins = D
    BY <2>2
  <2> HIDE DEF pins, D
  <2>4. QED
    BY <2>1, <2>3 DEF PinMap
<1> DEFINE m == [t EXCEPT !.pinned = t.pinned - Cardinality(freed), !.lru = l, !.pins = pins]
<1>7. freed \subseteq DOMAIN t.pins
  OBVIOUS
<1>8. /\ IsFiniteSet(freed) /\ Cardinality(freed) \in Int
      /\ Cardinality(D) = t.pinned - Cardinality(freed)
  <2>1. IsFiniteSet(DOMAIN t.pins) /\ t.pinned = Cardinality(DOMAIN t.pins)
    BY FS_Subset DEF Good
  <2>2. IsFiniteSet(freed) /\ DOMAIN t.pins \cap freed = freed
    BY <1>2, <1>7, FS_Subset
  <2> HIDE DEF freed
  <2>3. Cardinality(D) = Cardinality(DOMAIN t.pins) - Cardinality(DOMAIN t.pins \cap freed)
    BY <2>1, <2>2, FS_Difference
  <2>4. Cardinality(freed) \in Nat
    BY <2>2, FS_CardinalityType
  <2>5. QED
    BY <2>1, <2>2, <2>3, <2>4
<1>9. /\ m \in TrieRecord /\ m.set = t.set /\ m.lru = l /\ m.pins = pins /\ m.nodes = t.nodes
      /\ m.tokens = t.tokens /\ m.pinned = t.pinned - Cardinality(freed)
  <2>1. t.pinned - Cardinality(freed) \in Int /\ l \in Seq(Ways) /\ pins \in PinMap
    BY <1>1, <1>5, <1>6, <1>8
  <2> HIDE DEF freed, l, pins
  <2>2. QED
    BY <1>1, <2>1 DEF TrieRecord
<1> HIDE DEF m
<1>10. Leaves(m) = Leaves(t) \cup (IF leaf THEN {us} ELSE {})
  <2>1. Leaves(m) = {q \in t.set : (\A r \in t.set : Front(r) # q) /\ q \notin D}
    BY <1>6, <1>9 DEF Leaves
  <2>2. ASSUME NEW q \in freed, q # us PROVE \E r \in t.set : Front(r) = q
    <3>1. PICK k \in 1..Len(us) : q = SubSeq(us, 1, k)
      BY <2>2 DEF ChainOf
    <3>2. k # Len(us)
      BY <3>1, <2>2, <1>2, BeginEnds
    <3>3. k + 1 \in 1..Len(us) /\ (k + 1) - 1 = k
      BY <3>1, <3>2, <1>2
    <3>4. SubSeq(us, 1, k + 1) \in chain /\ Front(SubSeq(us, 1, k + 1)) = q
      <4>1. Front(SubSeq(us, 1, k + 1)) = SubSeq(us, 1, (k + 1) - 1)
        BY <3>3, <1>2, BeginOK
      <4>2. QED
        BY <4>1, <3>1, <3>3 DEF ChainOf
    <3>5. chain \subseteq t.set
      BY DEF Good
    <3>6. QED
      BY <3>4, <3>5
  <2>3. us \in t.set
    BY <1>2 DEF Good
  <2>4. Kids(t, us) = {r \in t.set : Front(r) = us}
    BY <1>1, <1>2, KidsAre
  <2>5. leaf <=> us \in freed /\ \A r \in t.set : Front(r) # us
    BY <2>4
  <2> HIDE DEF leaf, freed
  <2>6. QED
    BY <2>1, <2>2, <2>3, <2>5, <1>7 DEF Leaves
<1>11. Good(m)
  <2>1. Cardinality(D) = m.pinned /\ IsInjective(m.lru) /\ ToSet(m.lru) = Leaves(m)
    BY <1>1, <1>5, <1>8, <1>9, <1>10
  <2>2. QED
    BY <2>1, <1>6, <1>9 DEF Good
<1>12. ASSUME NEW q PROVE PinsOf(m, q) = PinsOf(t, q) - IF q \in chain THEN 1 ELSE 0
  <2>1. CASE q \in D
    BY <2>1, <1>6, <1>9 DEF PinsOf, pins
  <2>2. CASE q \in freed
    BY <2>2, <1>6, <1>9 DEF PinsOf
  <2>3. CASE q \notin D /\ q \notin freed
    <3>1. q \notin DOMAIN t.pins /\ q \notin chain /\ PinsOf(m, q) = 0
      BY <2>3, <1>6, <1>9 DEF PinsOf
    <3>2. QED
      BY <3>1, <1>3
  <2>4. QED
    BY <2>1, <2>2, <2>3
<1>13. n = m
  BY <1>4 DEF m
<1>14. QED
  BY <1>9, <1>11, <1>12, <1>13

\* A traversal's total is the weight of what there is.
LEMMA WeightTotal ==
  ASSUME NEW S, S \subseteq Ways, IsFiniteSet(S)
  PROVE  MapThenSumSet(LAMBDA q : UnitTokens(Last(q)), S) = Weight(S)
<1> DEFINE f == Weights
           K(it) == [s \in SUBSET S |-> IF s = {} THEN 0
                                        ELSE UnitTokens(Last(First(s))) + it[s \ {First(s)}]]
           h == [s \in SUBSET S |-> Iter(f, S)[s]]
           it0 == CHOOSE it : it = K(it)
<1>1. \A s \in SUBSET S : Iter(f, S)[s] = Folded(f, Iter(f, S), s)
  <2> HIDE DEF f
  <2>1. QED
    BY IterFolds
<1>2. \A s \in SUBSET S : s # {} => /\ First(s) \in S /\ s \ {First(s)} \in SUBSET S
                                   /\ f[First(s)] = UnitTokens(Last(First(s)))
  BY DEF First, Weights
<1> HIDE DEF f
<1>3. h = K(h)
  BY <1>1, <1>2 DEF Folded
<1>4. it0 = K(it0)
  <2> HIDE DEF h, K
  <2>1. QED
    BY <1>3
<1>5. \A s \in SUBSET S : it0[s] = Folded(f, it0, s)
  <2> HIDE DEF it0
  <2>1. QED
    BY <1>2, <1>4 DEF Folded
<1>6. it0[S] = SumOver(f, S)
  <2> HIDE DEF it0
  <2>1. QED
    BY <1>5, FoldIsSum
<1>7. MapThenSumSet(LAMBDA q : UnitTokens(Last(q)), S) = it0[S]
  BY DEF MapThenSumSet, MapThenFoldSet, First
<1>8. QED
  BY <1>6, <1>7 DEF Weight, f

\* Nothing is a trie in order.
LEMMA EmptyGood == Good(EmptyTrie) /\ DOMAIN EmptyTrie.pins = {} /\ (cap \in Caps => Within(EmptyTrie))
<1> DEFINE t == EmptyTrie
<1>1. /\ t.set = {} /\ t.lru = << >> /\ t.pins = << >> /\ t.nodes = 0 /\ t.tokens = 0 /\ t.pinned = 0
      /\ t = [set |-> t.set, lru |-> t.lru, pins |-> t.pins, nodes |-> t.nodes,
              tokens |-> t.tokens, pinned |-> t.pinned]
  BY DEF EmptyTrie
<1> HIDE DEF t
<1>2. DOMAIN << >> = {}
  OBVIOUS
<1>3. << >> \in PinMap
  <2>1. << >> \in [{} -> Nat \ {0}] /\ {} \in SUBSET Ways
    BY <1>2
  <2>2. QED
    BY <2>1 DEF PinMap
<1>4. t \in TrieRecord
  <2>1. << >> \in Seq(Ways) /\ {} \in SUBSET Ways /\ 0 \in Int
    OBVIOUS
  <2>2. QED
    BY <2>1, <1>1, <1>3 DEF TrieRecord
<1>5. IsInjective(t.lru) /\ ToSet(t.lru) = {}
  BY <1>1, <1>2 DEF IsInjective, ToSet
<1>6. Weight({}) = 0 /\ Cardinality({}) = 0 /\ IsFiniteSet({})
  BY SumOfNone, FS_EmptySet DEF Weight
<1>7. Leaves(t) = {} /\ Closed({})
  BY <1>1 DEF Leaves, Closed
<1>8. Good(t)
  BY <1>1, <1>2, <1>4, <1>5, <1>6, <1>7 DEF Good
<1>9. cap \in Caps => Within(t)
  BY <1>1, KvAssumption DEF Within
<1>10. QED
  BY <1>1, <1>2, <1>8, <1>9 DEF t

----------------------------------------------------------------------------
(* Pins and their holders. *)

PinnedBy(q) == {o \in Owners : held[o] # NoChain /\ IsPrefix(q, held[o])}

\* Every pin is one owner's, and without pins the caps are kept.
TrieInv ==
  /\ cap \in Caps
  /\ ~torn =>
       /\ Good(kv)
       /\ held \in [Owners -> (Chunked \cap Ways) \cup {NoChain}]
       /\ \A q \in Ways : PinsOf(kv, q) = Cardinality(PinnedBy(q))
       /\ ~cap.pins => (\A o \in Owners : held[o] = NoChain) /\ Within(kv)

\* Whose pin is held keeps his chain; where none is held nothing is pinned.
LEMMA HoldersHave ==
  ASSUME TrieInv, ~torn
  PROVE  /\ \A o \in Owners : held[o] # NoChain => ChainOf(held[o]) \subseteq DOMAIN kv.pins
         /\ (\A o \in Owners : held[o] = NoChain) => DOMAIN kv.pins = {}
         /\ \A q : IsFiniteSet(PinnedBy(q))
<1>1. kv.pins \in PinMap /\ held \in [Owners -> (Chunked \cap Ways) \cup {NoChain}]
  BY DEF TrieInv, Good, TrieRecord
<1>2. /\ DOMAIN kv.pins \subseteq Ways
      /\ \A q : PinsOf(kv, q) \in Nat /\ (PinsOf(kv, q) = 0 <=> q \notin DOMAIN kv.pins)
  BY <1>1, PinMapOK
<1>3. \A q : IsFiniteSet(PinnedBy(q))
  BY KvAssumption, FS_Subset DEF PinnedBy
<1>4. \A q \in Ways : PinsOf(kv, q) = Cardinality(PinnedBy(q))
  BY DEF TrieInv
<1>5. ASSUME NEW o \in Owners, held[o] # NoChain, NEW q \in ChainOf(held[o]) PROVE q \in DOMAIN kv.pins
  <2>1. held[o] \in Ways
    BY <1>1, <1>5
  <2>2. q \in Ways /\ IsPrefix(q, held[o])
    BY <2>1, <1>5, ChainIs
  <2>3. o \in PinnedBy(q)
    BY <2>2, <1>5 DEF PinnedBy
  <2>4. Cardinality(PinnedBy(q)) # 0
    BY <2>3, <1>3, FS_EmptySet
  <2>5. QED
    BY <2>2, <2>4, <1>2, <1>4
<1>6. ASSUME \A o \in Owners : held[o] = NoChain, NEW q \in DOMAIN kv.pins PROVE FALSE
  <2>1. PinnedBy(q) = {}
    BY <1>6 DEF PinnedBy
  <2>2. QED
    BY <2>1, <1>2, <1>4, <1>6, FS_EmptySet
<1>7. QED
  BY <1>3, <1>5, <1>6

\* Commit and RecordAndCount touch no pin; a trie without pins stays within its caps.
LEMMA StoreKeeps ==
  ASSUME TrieInv, ~torn, NEW us \in Seq(AnyUnit), us # << >>, us \in Chunked \/ cap.pins,
         kv' \in {Committed(kv, us), RecordedIn(kv, us)}, UNCHANGED << cap, held, torn >>
  PROVE  TrieInv'
<1>1. cap \in Caps /\ Good(kv) /\ held \in [Owners -> (Chunked \cap Ways) \cup {NoChain}]
  BY DEF TrieInv
<1>2. /\ Good(kv') /\ kv'.pins = kv.pins
      /\ DOMAIN kv.pins = {} /\ us \in Chunked /\ Within(kv) => Within(kv')
  BY <1>1, RecordedGood, CommittedGood
<1>3. cap' = cap /\ held' = held /\ torn' = torn
  OBVIOUS
<1>4. Good(kv)'
  BY <1>2 DEF Good, Leaves
<1>5. \A q \in Ways : PinsOf(kv, q)' = Cardinality(PinnedBy(q))'
  BY <1>2, <1>3 DEF TrieInv, PinsOf, PinnedBy
<1>6. ~cap.pins => (\A o \in Owners : held[o] = NoChain) /\ Within(kv)'
  <2>1. Within(kv)' <=> Within(kv')
    BY <1>3 DEF Within, BudgetCovers
  <2>2. QED
    BY <2>1, <1>2, HoldersHave DEF TrieInv
<1>7. QED
  BY <1>1, <1>3, <1>4, <1>5, <1>6 DEF TrieInv

\* RecordAndPin: what the insertion has left of the trie is in order, and if it left the
\* whole chain the pins are one more.
LEMMA PinKeeps ==
  ASSUME TrieInv, NEW o \in Owners, NEW us \in Chunked \cap Ways, RecordAndPin(o, us)
  PROVE  TrieInv'
<1> DEFINE t == RecordedIn(kv, us)
           chain == ChainOf(us)
<1>1. /\ cap \in Caps /\ ~torn /\ cap.pins /\ held[o] = NoChain /\ us # << >>
      /\ Good(kv) /\ held \in [Owners -> (Chunked \cap Ways) \cup {NoChain}]
      /\ cap' = cap /\ held' = [held EXCEPT ![o] = us]
      /\ kv' = PinChain(t, us) /\ torn' = ~(chain \subseteq t.set)
  BY DEF TrieInv, RecordAndPin
<1>2. SUFFICES ASSUME chain \subseteq t.set
               PROVE  /\ Good(kv)' /\ held' \in [Owners -> (Chunked \cap Ways) \cup {NoChain}]
                      /\ \A q \in Ways : PinsOf(kv, q)' = Cardinality(PinnedBy(q))'
  BY <1>1 DEF TrieInv
<1>3. us \in Seq(AnyUnit)
  BY WayOK
<1>4. Good(t) /\ t.pins = kv.pins
  BY <1>1, <1>3, RecordedGood
<1> HIDE DEF t
<1>5. /\ Good(kv') /\ \A q : PinsOf(kv', q) = PinsOf(t, q) + IF q \in chain THEN 1 ELSE 0
  BY <1>1, <1>2, <1>4, PinGood
<1>6. Good(kv)'
  BY <1>5 DEF Good, Leaves
<1>7. ASSUME NEW q \in Ways PROVE PinsOf(kv, q)' = Cardinality(PinnedBy(q))'
  <2>1. PinsOf(kv, q)' = PinsOf(kv, q) + IF q \in chain THEN 1 ELSE 0
    BY <1>4, <1>5 DEF PinsOf
  <2>2. PinsOf(kv, q) = Cardinality(PinnedBy(q)) /\ IsFiniteSet(PinnedBy(q))
    BY <1>1, HoldersHave DEF TrieInv
  <2>3. IsPrefix(q, us) <=> q \in chain
    BY ChainIs
  <2>4. us # NoChain
    BY NoChainAssumption
  <2>5. PinnedBy(q)' = {p \in Owners : held'[p] # NoChain /\ IsPrefix(q, held'[p])}
    BY DEF PinnedBy
  <2>6. \A p \in Owners : held'[p] = IF p = o THEN us ELSE held[p]
    BY <1>1
  <2>7. o \notin PinnedBy(q)
    BY <1>1 DEF PinnedBy
  <2>8. CASE q \in chain
    <3>1. PinnedBy(q)' = PinnedBy(q) \cup {o}
      BY <2>3, <2>4, <2>5, <2>6, <2>8, <1>1, SMTT(30) DEF PinnedBy
    <3>2. Cardinality(PinnedBy(q) \cup {o}) = Cardinality(PinnedBy(q)) + 1
      BY <2>2, <2>7, FS_AddElement
    <3>3. QED
      BY <3>1, <3>2, <2>1, <2>2, <2>8
  <2>9. CASE q \notin chain
    <3>1. PinnedBy(q)' = PinnedBy(q)
      BY <2>3, <2>5, <2>6, <2>9, <1>1 DEF PinnedBy
    <3>2. Cardinality(PinnedBy(q)) \in Nat
      BY <2>2, FS_CardinalityType
    <3>3. QED
      BY <3>1, <3>2, <2>1, <2>2, <2>9
  <2>10. QED
    BY <2>8, <2>9
<1>8. held' \in [Owners -> (Chunked \cap Ways) \cup {NoChain}]
  BY <1>1
<1>9. QED
  BY <1>6, <1>7, <1>8

\* Unpin: the pins are one less along the chain, and eviction touches none.
LEMMA UnpinKeeps ==
  ASSUME TrieInv, NEW o \in Owners, Unpin(o)
  PROVE  TrieInv'
<1> DEFINE us == held[o]
           t == UnpinChain(kv, us)
           chain == ChainOf(us)
<1>1. /\ cap \in Caps /\ ~torn /\ us # NoChain
      /\ Good(kv) /\ held \in [Owners -> (Chunked \cap Ways) \cup {NoChain}]
      /\ cap' = cap /\ torn' = torn /\ held' = [held EXCEPT ![o] = NoChain]
      /\ kv' = IF Bounded THEN Evicted(t, cap.evict) ELSE t
  BY DEF TrieInv, Unpin
<1>2. cap.pins /\ us \in Ways /\ cap.evict \in Nat
  BY <1>1, KvAssumption DEF TrieInv
<1>3. chain \subseteq DOMAIN kv.pins
  BY <1>1, HoldersHave
<1>4. Good(t) /\ \A q : PinsOf(t, q) = PinsOf(kv, q) - IF q \in chain THEN 1 ELSE 0
  <2> HIDE DEF us
  <2> QED
    BY <1>1, <1>2, <1>3, UnpinGood
<1> HIDE DEF t
<1>5. Good(kv') /\ kv'.pins = t.pins
  <2>1. Good(Evicted(t, cap.evict)) /\ Evicted(t, cap.evict).pins = t.pins
    BY <1>1, <1>2, <1>4, EvictedGood
  <2>2. QED
    BY <2>1, <1>1, <1>4
<1>6. Good(kv)'
  BY <1>5 DEF Good, Leaves
<1>7. ASSUME NEW q \in Ways PROVE PinsOf(kv, q)' = Cardinality(PinnedBy(q))'
  <2>1. PinsOf(kv, q)' = PinsOf(kv, q) - IF q \in chain THEN 1 ELSE 0
    BY <1>4, <1>5 DEF PinsOf
  <2>2. PinsOf(kv, q) = Cardinality(PinnedBy(q)) /\ IsFiniteSet(PinnedBy(q))
    BY <1>1, HoldersHave DEF TrieInv
  <2>3. IsPrefix(q, us) <=> q \in chain
    BY <1>2, ChainIs
  <2>4. PinnedBy(q)' = {p \in Owners : held'[p] # NoChain /\ IsPrefix(q, held'[p])}
    BY DEF PinnedBy
  <2>5. \A p \in Owners : held'[p] = IF p = o THEN NoChain ELSE held[p]
    BY <1>1
  <2>6. PinnedBy(q)' = PinnedBy(q) \ {o} /\ (o \in PinnedBy(q) <=> q \in chain)
    BY <2>3, <2>4, <2>5, <1>1 DEF PinnedBy
  <2>7. CASE q \in chain
    <3>1. Cardinality(PinnedBy(q) \ {o}) = Cardinality(PinnedBy(q)) - 1
      BY <2>2, <2>6, <2>7, FS_RemoveElement
    <3>2. QED
      BY <3>1, <2>1, <2>2, <2>6, <2>7
  <2>8. CASE q \notin chain
    <3>1. PinnedBy(q)' = PinnedBy(q)
      BY <2>6, <2>8
    <3>2. Cardinality(PinnedBy(q)) \in Nat
      BY <2>2, FS_CardinalityType
    <3>3. QED
      BY <3>1, <3>2, <2>1, <2>2, <2>8
  <2>9. QED
    BY <2>7, <2>8
<1>8. held' \in [Owners -> (Chunked \cap Ways) \cup {NoChain}]
  BY <1>1
<1>9. QED
  BY <1>1, <1>2, <1>6, <1>7, <1>8 DEF TrieInv

\* Reset, when no pin is held.
LEMMA ResetKeeps ==
  ASSUME TrieInv, Reset
  PROVE  TrieInv'
<1>1. /\ cap \in Caps /\ ~torn /\ (\A o \in Owners : held[o] = NoChain)
      /\ held \in [Owners -> (Chunked \cap Ways) \cup {NoChain}]
      /\ cap' = cap /\ torn' = torn /\ held' = held /\ kv' = EmptyTrie
  BY DEF TrieInv, Reset
<1>2. Good(EmptyTrie) /\ DOMAIN EmptyTrie.pins = {} /\ Within(EmptyTrie)
  BY <1>1, EmptyGood
<1>3. Good(kv)' /\ Within(kv)'
  BY <1>1, <1>2 DEF Good, Leaves, Within, BudgetCovers, EmptyTrie
<1>4. ASSUME NEW q \in Ways PROVE PinsOf(kv, q)' = Cardinality(PinnedBy(q))'
  <2>1. PinnedBy(q)' = {}
    BY <1>1 DEF PinnedBy
  <2>2. PinsOf(kv, q)' = 0
    BY <1>1, <1>2 DEF PinsOf
  <2>3. QED
    BY <2>1, <2>2, FS_EmptySet
<1>5. QED
  BY <1>1, <1>3, <1>4 DEF TrieInv

\* A chain that is not empty names a node.
LEMMA ChunkedWays == \A us \in Chunked : us # << >> => us \in Ways /\ us \in Seq(AnyUnit)
BY ListsOfUnits DEF Ways

\* Every operation of the trie keeps it in order.
LEMMA TrieKeeps == TrieInv /\ [KvNext]_kvVars => TrieInv'
<1> SUFFICES ASSUME TrieInv, [KvNext]_kvVars PROVE TrieInv'
  OBVIOUS
<1>1. ASSUME NEW us \in Chunked, Commit(us) PROVE TrieInv'
  BY <1>1, StoreKeeps, ChunkedWays DEF Commit
<1>2. ASSUME NEW us \in Chunked, RecordAndCount(us) PROVE TrieInv'
  BY <1>2, StoreKeeps, ChunkedWays DEF RecordAndCount
<1>3. ASSUME NEW us \in Chunked, NEW o \in Owners, RecordAndPin(o, us) PROVE TrieInv'
  <2>1. us \in Chunked \cap Ways
    BY <1>3, ChunkedWays DEF RecordAndPin
  <2>2. QED
    BY <2>1, <1>3, PinKeeps
<1>4. ASSUME UNCHANGED kvVars PROVE TrieInv'
  BY <1>4 DEF kvVars, TrieInv, Good, Leaves, PinnedBy, PinsOf, Within, BudgetCovers
<1>5. QED
  BY <1>1, <1>2, <1>3, <1>4, UnpinKeeps, ResetKeeps DEF KvNext

\* The empty trie starts in order.
LEMMA TrieStarts == KvInit => TrieInv
<1> SUFFICES ASSUME KvInit PROVE TrieInv
  OBVIOUS
<1>1. cap \in Caps /\ kv = EmptyTrie /\ (\A o \in Owners : held[o] = NoChain)
  BY DEF KvInit
<1>2. held \in [Owners -> (Chunked \cap Ways) \cup {NoChain}]
  BY DEF KvInit
<1>3. Good(kv) /\ DOMAIN kv.pins = {} /\ Within(kv)
  BY <1>1, EmptyGood
<1>4. ASSUME NEW q \in Ways PROVE PinsOf(kv, q) = Cardinality(PinnedBy(q))
  <2>1. PinnedBy(q) = {} /\ PinsOf(kv, q) = 0
    BY <1>1, <1>3 DEF PinnedBy, PinsOf
  <2>2. QED
    BY <2>1, FS_EmptySet
<1>5. QED
  BY <1>1, <1>2, <1>3, <1>4 DEF TrieInv

\* A trie in order is exact.
LEMMA TrieMatches == TrieInv => TrieExact
<1> SUFFICES ASSUME TrieInv, ~torn PROVE TrieExact
  BY DEF TrieExact
<1>1. /\ Good(kv) /\ kv.set \subseteq Ways /\ IsFiniteSet(kv.set) /\ kv.pins \in PinMap
      /\ DOMAIN kv.pins \subseteq kv.set
      /\ \A q \in Ways : PinsOf(kv, q) = Cardinality(PinnedBy(q))
      /\ ~cap.pins => Within(kv)
  BY DEF TrieInv, Good, TrieRecord
<1>2. \A q : PinsOf(kv, q) \in Nat /\ (PinsOf(kv, q) = 0 <=> q \notin DOMAIN kv.pins)
  BY <1>1, PinMapOK
<1>3. Leaves(kv) = {q \in kv.set : Kids(kv, q) = {} /\ PinsOf(kv, q) = 0}
  <2>1. ASSUME NEW q \in kv.set PROVE Kids(kv, q) = {} <=> \A r \in kv.set : Front(r) # q
    <3>1. q \in Seq(AnyUnit)
      BY <1>1, WayOK
    <3>2. Kids(kv, q) = {r \in kv.set : Front(r) = q}
      BY <3>1, <1>1, KidsAre
    <3>3. QED
      BY <3>2
  <2>2. QED
    BY <2>1, <1>2 DEF Leaves
<1>4. {q \in kv.set : PinsOf(kv, q) > 0} = DOMAIN kv.pins
  BY <1>1, <1>2
<1>5. kv.tokens = MapThenSumSet(LAMBDA q : UnitTokens(Last(q)), kv.set)
  <2>1. kv.tokens = Weight(kv.set)
    BY <1>1 DEF Good
  <2>2. QED
    BY <2>1, <1>1, WeightTotal
<1>6. /\ ToSet(kv.lru) = Leaves(kv) /\ IsInjective(kv.lru) /\ kv.nodes = Cardinality(kv.set)
      /\ kv.pinned = Cardinality(DOMAIN kv.pins)
  BY <1>1 DEF Good
<1>7. \A q \in kv.set : PinsOf(kv, q) = Cardinality({o \in Owners : held[o] # NoChain /\ IsPrefix(q, held[o])})
  BY <1>1 DEF PinnedBy
<1>8. \A o \in Owners : held[o] # NoChain => ChainOf(held[o]) \subseteq kv.set
  BY <1>1, HoldersHave
<1>9. ~cap.pins => /\ cap.nodes > 0 => kv.nodes <= cap.nodes
                   /\ cap.tokens > 0 /\ BudgetCovers => kv.tokens <= cap.tokens
  BY <1>1 DEF Within
<1>10. QED
  BY <1>3, <1>4, <1>5, <1>6, <1>7, <1>8, <1>9 DEF TrieExact

\* Whatever is inserted, pinned, let go and evicted, in whatever order: the list holds the
\* leaves that are not pinned, the totals and the pins are exact, a pinned chain stays
\* whole, and a trie without pins keeps its caps (kvcache.go:251-253, 274-282, 577-633).
THEOREM TrieAlwaysExact == KvSpec => []TrieExact
<1>1. KvInit => TrieInv
  BY TrieStarts
<1>2. TrieInv /\ [KvNext]_kvVars => TrieInv'
  BY TrieKeeps
<1>3. TrieInv => TrieExact
  BY TrieMatches
<1>4. QED
  BY <1>1, <1>2, <1>3, PTL DEF KvSpec

----------------------------------------------------------------------------
(* The trie under the mock engine's calls. *)

AfterPin == {"prefill", "decode", "append", "publish", "unpin"}

\* Between its pin and its release a call holds a pin.
PinsKept ==
  ~torn => \A o \in Owners : /\ calls[o].pc \in AfterPin => held[o] # NoChain
                             /\ calls[o].generated \in Nat

\* A step that leaves the trie alone, by which no call gets past its pin.
LEMMA CallKeepsPins ==
  ASSUME PinsKept, calls \in [Owners -> EngineCall], UNCHANGED kvVars, NEW o \in Owners,
         NEW r, calls' = [calls EXCEPT ![o] = r],
         r.pc \in AfterPin => calls[o].pc \in AfterPin,
         calls[o].generated \in Nat => r.generated \in Nat
  PROVE  PinsKept'
<1>1. torn' = torn /\ held' = held
  BY DEF kvVars
<1>2. \A p \in Owners : calls'[p] = IF p = o THEN r ELSE calls[p]
  OBVIOUS
<1>3. QED
  BY <1>1, <1>2 DEF PinsKept

\* The engine's steps on its own state.
LEMMA OwnStepKeepsPins ==
  ASSUME PinsKept, calls \in [Owners -> EngineCall], UNCHANGED kvVars, NEW o \in Owners,
         \/ \E us \in ServedUnits : EngineArrives(o, us)
         \/ CheckPrefill(o) \/ Enter(o) \/ Bounce(o) \/ PrefillDone(o)
         \/ PrefillLeft(o) \/ DecodeLeft(o) \/ Publish(o) \/ ReleaseSlot(o)
         \/ \E n \in 0..Len(Reply) : Decode(o, n)
  PROVE  PinsKept'
<1>1. calls[o] \in EngineCall /\ NoRequest.pc = "idle" /\ NoRequest.generated = 0
  BY DEF NoRequest
<1>3. ASSUME NEW pc, calls' = [calls EXCEPT ![o].pc = pc],
             pc \in AfterPin => calls[o].pc \in AfterPin
      PROVE  PinsKept'
  <2> DEFINE r == [calls[o] EXCEPT !.pc = pc]
  <2>1. calls' = [calls EXCEPT ![o] = r] /\ r.pc = pc /\ r.generated = calls[o].generated
    BY <1>1, <1>3 DEF EngineCall
  <2> HIDE DEF r
  <2>2. QED
    BY <2>1, <1>3, CallKeepsPins
<1>2. "idle" \notin AfterPin /\ "check" \notin AfterPin /\ "enter" \notin AfterPin /\ 0 \in Nat
  BY DEF AfterPin
<1>4. ASSUME calls' = [calls EXCEPT ![o] = NoRequest] PROVE PinsKept'
  BY <1>1, <1>2, <1>4, CallKeepsPins
<1>5. CASE \E us \in ServedUnits : EngineArrives(o, us)
  <2>1. PICK us \in ServedUnits, stream \in BOOLEAN, bypass \in BOOLEAN :
          calls' = [calls EXCEPT ![o] = [NoRequest EXCEPT !.pc = "check", !.units = us,
                                                !.stream = stream, !.bypass = bypass]]
    BY <1>5 DEF EngineArrives
  <2> DEFINE r == [NoRequest EXCEPT !.pc = "check", !.units = us, !.stream = stream, !.bypass = bypass]
  <2>2. r.pc = "check" /\ r.generated = 0 /\ calls' = [calls EXCEPT ![o] = r]
    BY <2>1 DEF NoRequest
  <2> HIDE DEF r
  <2>3. QED
    BY <2>2, <1>2, CallKeepsPins
<1>6. CASE CheckPrefill(o)
  <2> DEFINE r == [calls[o] EXCEPT !.pc = "enter", !.bypass = FALSE]
  <2>1. r.pc = "enter" /\ r.generated = calls[o].generated
    BY <1>1 DEF EngineCall
  <2>2. \/ calls' = [calls EXCEPT ![o] = NoRequest]
        \/ calls' = [calls EXCEPT ![o] = r]
    BY <1>1, <1>6 DEF CheckPrefill
  <2> HIDE DEF r
  <2>3. QED
    BY <2>1, <2>2, <1>2, <1>4, CallKeepsPins
<1>7. CASE Enter(o)
  <2>1. PICK pc \in {"bounce", "pin"} : calls' = [calls EXCEPT ![o].pc = pc]
    BY <1>7 DEF Enter, Goto
  <2>2. QED
    BY <2>1, <1>3 DEF AfterPin
<1>8. CASE Bounce(o) \/ ReleaseSlot(o)
  BY <1>8, <1>4 DEF Bounce, ReleaseSlot
<1>9. CASE PrefillDone(o) \/ PrefillLeft(o) \/ DecodeLeft(o) \/ Publish(o)
  <2>1. calls[o].pc \in AfterPin
    BY <1>9 DEF PrefillDone, PrefillLeft, DecodeLeft, Publish, At, AfterPin
  <2>2. PICK pc \in AfterPin : calls' = [calls EXCEPT ![o].pc = pc]
    BY <1>9 DEF PrefillDone, PrefillLeft, DecodeLeft, Publish, Goto, AfterPin
  <2>3. QED
    BY <2>1, <2>2, <1>3
<1>10. CASE \E n \in 0..Len(Reply) : Decode(o, n)
  <2>1. PICK n \in 0..Len(Reply) : Decode(o, n)
    BY <1>10
  <2> DEFINE r == [calls[o] EXCEPT !.pc = "append", !.stream = FALSE, !.generated = n]
  <2>2. n \in Nat
    OBVIOUS
  <2>3. r.pc = "append" /\ r.generated = n
    BY <1>1 DEF EngineCall
  <2>4. calls[o].pc = "decode" /\ calls' = [calls EXCEPT ![o] = r]
    BY <1>1, <2>1 DEF Decode, At
  <2> HIDE DEF r
  <2>5. QED
    BY <2>2, <2>3, <2>4, CallKeepsPins DEF AfterPin
<1>11. QED
  BY <1>5, <1>6, <1>7, <1>8, <1>9, <1>10

\* A call's pin, its output and its release.
LEMMA TrieStepKeeps ==
  ASSUME TrieInv, PinsKept, calls \in [Owners -> EngineCall], NEW o \in Owners,
         Pin(o) \/ AppendOutput(o) \/ ReleasePin(o)
  PROVE  TrieInv' /\ PinsKept'
<1>1. calls[o] \in EngineCall /\ ~torn /\ (calls[o].units = << >> \/ calls[o].units \in Chunked)
  BY EngineAssumption DEF Pin, AppendOutput, ReleasePin, At, EngineCall, ServedUnits, Chunked
<1>2. held \in [Owners -> (Chunked \cap Ways) \cup {NoChain}]
  BY <1>1 DEF TrieInv
<1>3. CASE Pin(o)
  <2> DEFINE us == calls[o].units
  <2>1. /\ RecordAndPin(o, us) /\ us # << >> /\ calls' = [calls EXCEPT ![o].pc = "prefill"]
        /\ held' = [held EXCEPT ![o] = us]
    BY <1>3 DEF Pin, Goto, RecordAndPin
  <2>2. us \in Chunked \cap Ways
    BY <2>1, <1>1, ChunkedWays
  <2>3. us # NoChain
    BY <2>2, NoChainAssumption
  <2>4. /\ held'[o] # NoChain /\ calls'[o].generated = calls[o].generated
        /\ \A p \in Owners \ {o} : calls'[p] = calls[p] /\ held'[p] = held[p]
    BY <2>1, <2>3, <1>1, <1>2 DEF EngineCall
  <2>5. PinsKept'
    BY <2>4, <1>1 DEF PinsKept
  <2>6. TrieInv'
    BY <2>1, <2>2, PinKeeps
  <2>7. QED
    BY <2>5, <2>6
<1>4. CASE AppendOutput(o)
  <2> DEFINE n == calls[o].generated
             us == calls[o].units \o OutputBlocks(n)
             r == [calls[o] EXCEPT !.pc = "publish", !.generated = 0]
  <2>1. /\ calls[o].pc \in AfterPin /\ "publish" \in AfterPin
        /\ r.pc = "publish" /\ r.generated = 0 /\ calls' = [calls EXCEPT ![o] = r]
        /\ (IF n = 0 THEN UNCHANGED kvVars ELSE Commit(us))
    BY <1>1, <1>4 DEF AppendOutput, At, EngineCall, AfterPin
  <2>2. n \in Nat /\ cap.pins
    BY <2>1, <1>1 DEF PinsKept, TrieInv
  <2>3. us \in Seq(AnyUnit)
    <3>1. calls[o].units \in Seq(AnyUnit) /\ OutputBlocks(n) \in Seq(AnyUnit)
      <4>1. << >> \in Seq(AnyUnit)
        OBVIOUS
      <4>2. QED
        BY <4>1, <2>2, <1>1, ListsOfUnits
    <3>2. QED
      BY <3>1
  <2> HIDE DEF us, r, n
  <2>4. held' = held /\ torn' = torn
    BY <2>1 DEF kvVars, Commit
  <2>5. \A p \in Owners : calls'[p] = IF p = o THEN r ELSE calls[p]
    BY <2>1
  <2>6. PinsKept'
    BY <2>1, <2>4, <2>5 DEF PinsKept
  <2>7. CASE n = 0
    <3>1. UNCHANGED kvVars
      BY <2>1, <2>7
    <3>2. QED
      BY <3>1, <2>6, TrieKeeps
  <2>8. CASE n # 0
    <3>1. Commit(us)
      BY <2>1, <2>8
    <3>2. QED
      BY <3>1, <2>2, <2>3, <2>6, StoreKeeps DEF Commit
  <2>9. QED
    BY <2>7, <2>8
<1>5. CASE ReleasePin(o)
  <2> DEFINE r == [NoRequest EXCEPT !.pc = "exit"]
  <2>1. r.pc = "exit" /\ r.generated = 0 /\ calls' = [calls EXCEPT ![o] = r] /\ Unpin(o)
    BY <1>5 DEF ReleasePin, NoRequest
  <2> HIDE DEF r
  <2>2. held' = [held EXCEPT ![o] = NoChain] /\ torn' = torn
    BY <2>1 DEF Unpin
  <2>3. /\ calls'[o] = r
        /\ \A p \in Owners \ {o} : calls'[p] = calls[p] /\ held'[p] = held[p]
    BY <2>1, <2>2, <1>2
  <2>4. PinsKept'
    BY <2>1, <2>2, <2>3 DEF PinsKept, AfterPin
  <2>5. QED
    BY <2>1, <2>4, UnpinKeeps
<1>6. QED
  BY <1>3, <1>4, <1>5

\* The trie of an engine that serves any number of calls is exact as well: prompts pinned,
\* replies appended, and pins released (engine.go:303-337, 469-514).
THEOREM EngineTrieExact == EngineSpec => []TrieExact
<1> DEFINE Inv == EngineInv /\ TrieInv /\ PinsKept
<1>1. KvInit /\ EngineInit => Inv
  <2> SUFFICES ASSUME KvInit, EngineInit PROVE Inv
    OBVIOUS
  <2>1. \A o \in Owners : calls[o].pc = "idle" /\ calls[o].generated = 0
    BY DEF EngineInit, NoRequest
  <2>2. PinsKept
    BY <2>1 DEF PinsKept, AfterPin
  <2>3. QED
    BY <2>2, EngineStarts, TrieStarts
<1>2. Inv /\ [EngineNext]_<< kvVars, engineVars >> => Inv'
  <2> SUFFICES ASSUME EngineInv, TrieInv, PinsKept, [EngineNext]_<< kvVars, engineVars >> PROVE Inv'
    OBVIOUS
  <2>1. EngineInv'
    BY EngineKeeps
  <2>2. calls \in [Owners -> EngineCall]
    BY DEF EngineInv
  <2>3. UNCHANGED kvVars => TrieInv'
    BY TrieKeeps
  <2>4. UNCHANGED << kvVars, calls >> => PinsKept'
    BY DEF kvVars, PinsKept
  <2>5. CASE UNCHANGED << kvVars, engineVars >>
    BY <2>1, <2>3, <2>4, <2>5 DEF engineVars
  <2>6. ASSUME NEW us \in ServedUnits, PublishedElsewhere(us), UNCHANGED kvVars PROVE Inv'
    BY <2>1, <2>3, <2>4, <2>6 DEF PublishedElsewhere
  <2>7. ASSUME NEW o \in Owners, UNCHANGED kvVars,
               \/ \E us \in ServedUnits : EngineArrives(o, us)
               \/ CheckPrefill(o) \/ Enter(o) \/ Bounce(o) \/ PrefillDone(o)
               \/ PrefillLeft(o) \/ DecodeLeft(o) \/ Publish(o) \/ ReleaseSlot(o)
               \/ \E n \in 0..Len(Reply) : Decode(o, n)
        PROVE  Inv'
    BY <2>1, <2>2, <2>3, <2>7, OwnStepKeepsPins
  <2>8. ASSUME NEW o \in Owners, Pin(o) \/ AppendOutput(o) \/ ReleasePin(o) PROVE Inv'
    BY <2>1, <2>2, <2>8, TrieStepKeeps
  <2>9. QED
    BY <2>5, <2>6, <2>7, <2>8 DEF EngineNext
<1>3. Inv => TrieExact
  BY TrieMatches
<1>4. QED
  BY <1>1, <1>2, <1>3, PTL DEF EngineSpec

-----------------------------------------------------------------------------
(* Processor sharing.                                                      *)

SubmitterRecord ==
  [at : {"outside", "none", "join", "wait", "leave", "left", "true", "false"},
   work : Nat, over : BOOLEAN]

SchedType ==
  /\ sub \in [Submitters -> SubmitterRecord]
  /\ DOMAIN remaining \subseteq Submitters
  /\ remaining \in [DOMAIN remaining -> Int]
  /\ updated \in Nat /\ now \in Nat /\ updated <= now
  /\ served \in [Submitters -> Int]

\* What job s has left now: SettledNow, one job at a time.
LeftOf(s) == remaining[s] - (Grain * (now - updated)) \div Cardinality(DOMAIN remaining)

\* A submitter's record, whether its job is active and what that has left, whether it is
\* done, and the time it had.
JobOK(r, active, left, done, had) ==
  /\ active => left = Grain * r.work - had /\ r.at \in {"wait", "leave"} /\ ~done
  /\ done => r.at \in {"wait", "leave", "left", "true"} /\ had >= Grain * r.work
  /\ r.at = "true" => r.work = 0 \/ had >= Grain * r.work
  /\ r.at = "none" => r.work = 0
  /\ r.at \in {"outside", "none", "join"} => had = 0

SchedInv ==
  /\ SchedType
  /\ \A s \in Submitters :
       JobOK(sub[s], s \in DOMAIN remaining, LeftOf(s), s \in finished, served[s])

\* A share is a whole number of parts: one more tick is one more share.
LEMMA ShareOfTicks ==
  ASSUME NEW n \in Nat \ {0}, NEW g \in Nat, g % n = 0, NEW k \in Nat
  PROVE  (g * (k + 1)) \div n = (g * k) \div n + g \div n
<1> DEFINE q == g \div n
<1>1. q \in Nat /\ g = n * q
  OBVIOUS
<1> HIDE DEF q
<1>2. ASSUME NEW m \in Nat
      PROVE  (n * m) \div n = m
  <2> DEFINE d == (n * m) \div n
             e == (n * m) % n
  <2>1. n * m \in Nat /\ d \in Int /\ e \in 0..(n - 1) /\ n * m = n * d + e
    OBVIOUS
  <2> HIDE DEF d, e
  <2>2. n * (m - d) = e
    BY <2>1
  <2>3. ~(m - d >= 1)
    BY <2>1, <2>2
  <2>4. ~(m - d <= -1)
    BY <2>1, <2>2
  <2>5. d = m
    BY <2>1, <2>3, <2>4
  <2>6. QED
    BY <2>5 DEF d
<1>3. g * k = n * (q * k) /\ g * (k + 1) = n * (q * k + q) /\ q * k \in Nat
  BY <1>1
<1>4. (g * k) \div n = q * k /\ (g * (k + 1)) \div n = q * k + q
  BY <1>1, <1>2, <1>3
<1>5. QED
  BY <1>4 DEF q

\* The number of active jobs: one at least, and one that shares out a tick exactly.
LEMMA ActiveCount ==
  ASSUME NEW D, D \subseteq Submitters, D # {}
  PROVE  Cardinality(D) \in Nat \ {0} /\ Grain % Cardinality(D) = 0
<1>1. IsFiniteSet(Submitters)
  BY PrefillAssumption
<1>2. IsFiniteSet(D) /\ Cardinality(D) <= Cardinality(Submitters)
  BY <1>1, FS_Subset
<1>3. Cardinality(D) \in Nat /\ Cardinality(Submitters) \in Nat
  BY <1>1, <1>2, FS_CardinalityType
<1>4. Cardinality(D) # 0
  BY <1>2, FS_EmptySet
<1>5. Cardinality(D) \in 1..Cardinality(Submitters)
  BY <1>2, <1>3, <1>4
<1>6. QED
  BY <1>3, <1>4, <1>5, PrefillAssumption

\* Right after settle, what is recorded is what is left.
LEMMA LeftAfterSettle ==
  ASSUME updated' = now, now' = now, now \in Nat, DOMAIN remaining' \subseteq Submitters,
         NEW s \in DOMAIN remaining', remaining'[s] \in Int
  PROVE  LeftOf(s)' = remaining'[s]
<1>1. Cardinality(DOMAIN remaining') \in Nat \ {0}
  BY ActiveCount
<1> DEFINE n == Cardinality(DOMAIN remaining')
<1> HIDE DEF n
<1>2. LeftOf(s)' = remaining'[s] - (Grain * (now - now)) \div n
  BY DEF LeftOf, n
<1>3. n \in Nat \ {0} /\ Grain \in Nat
  BY <1>1, PrefillAssumption DEF n
<1>4. (Grain * (now - now)) \div n = 0
  <2>1. now - now = 0 /\ Grain * 0 = 0
    BY <1>3
  <2>2. 0 \div n = 0
    BY <1>3
  <2>3. QED
    BY <2>1, <2>2
<1>5. QED
  BY <1>2, <1>4

\* A submitter moves while the loop does nothing.
LEMMA SubmitterMoves ==
  ASSUME SchedInv, NEW s \in Submitters, NEW r \in SubmitterRecord,
         sub' = [sub EXCEPT ![s] = r],
         JobOK(r, s \in DOMAIN remaining, LeftOf(s), s \in finished, served[s]),
         UNCHANGED << remaining, finished, updated, now, served >>
  PROVE  SchedInv'
<1>1. SchedType
  BY DEF SchedInv
<1>2. sub'[s] = r /\ \A x \in Submitters \ {s} : sub'[x] = sub[x]
  BY <1>1 DEF SchedType
<1>3. SchedType'
  BY <1>1 DEF SchedType
<1>4. \A x \in Submitters : LeftOf(x)' = LeftOf(x)
  BY DEF LeftOf
<1>5. ASSUME NEW x \in Submitters
      PROVE  JobOK(sub'[x], x \in DOMAIN remaining', LeftOf(x)', x \in finished', served'[x])
  <2>1. JobOK(sub[x], x \in DOMAIN remaining, LeftOf(x), x \in finished, served[x])
    BY DEF SchedInv
  <2>2. CASE x = s
    BY <1>2, <1>4, <2>2 DEF JobOK
  <2>3. CASE x # s
    BY <1>2, <1>4, <2>1, <2>3 DEF JobOK
  <2>4. QED
    BY <2>2, <2>3
<1>6. QED
  BY <1>3, <1>5 DEF SchedInv, JobOK

\* The loop settles: what stays active keeps what it has left; a job leaves the active
\* ones because it joined just now, because it is done, or because its caller is gone.
LEMMA LoopSettles ==
  ASSUME SchedInv, updated' = now, now' = now, served' = served,
         sub' \in [Submitters -> SubmitterRecord],
         DOMAIN remaining' \subseteq Submitters,
         remaining' \in [DOMAIN remaining' -> Int],
         \A x \in Submitters :
           JobOK(sub'[x], x \in DOMAIN remaining', remaining'[x], x \in finished', served[x])
  PROVE  SchedInv'
<1>1. SchedType
  BY DEF SchedInv
<1>2. SchedType'
  BY <1>1 DEF SchedType
<1>3. ASSUME NEW x \in Submitters
      PROVE  JobOK(sub'[x], x \in DOMAIN remaining', LeftOf(x)', x \in finished', served'[x])
  <2>1. JobOK(sub'[x], x \in DOMAIN remaining', remaining'[x], x \in finished', served'[x])
    OBVIOUS
  <2>2. x \in DOMAIN remaining' => LeftOf(x)' = remaining'[x]
    BY <1>1, LeftAfterSettle DEF SchedType
  <2>3. QED
    BY <2>1, <2>2 DEF JobOK
<1>4. QED
  BY <1>2, <1>3 DEF SchedInv, JobOK

\* settle's result for an active job.
LEMMA SettledIsLeft ==
  ASSUME SchedInv, NEW s \in DOMAIN remaining
  PROVE  SettledNow[s] = LeftOf(s) /\ LeftOf(s) \in Int /\ DOMAIN SettledNow = DOMAIN remaining
<1>1. SchedType
  BY DEF SchedInv
<1>2. Cardinality(DOMAIN remaining) \in Nat \ {0}
  BY <1>1, ActiveCount DEF SchedType
<1>3. SettledNow[s] = LeftOf(s) /\ DOMAIN SettledNow = DOMAIN remaining
  BY DEF SettledNow, Settled, LeftOf
<1> DEFINE n == Cardinality(DOMAIN remaining)
<1> HIDE DEF n
<1>4. n \in Nat \ {0} /\ Grain \in Nat /\ remaining[s] \in Int /\ now \in Nat /\ updated \in Nat
  BY <1>1, <1>2, PrefillAssumption DEF n, SchedType
<1>5. remaining[s] - (Grain * (now - updated)) \div n \in Int
  BY <1>4
<1>6. QED
  BY <1>3, <1>5 DEF LeftOf, n

\* What submit does on its own keeps the invariant.
LEMMA SubmitKeeps ==
  ASSUME SchedInv, NEW s \in Submitters,
         \/ \E w \in Works : Submit(s, w)
         \/ ContextEnds(s) \/ NothingToDo(s) \/ GivesUpJoining(s) \/ SeesDone(s)
         \/ SeesContext(s) \/ AfterLeave(s)
  PROVE  SchedInv'
<1>1. /\ sub \in [Submitters -> SubmitterRecord] /\ sub[s] \in SubmitterRecord
      /\ served[s] \in Int /\ Grain \in Nat
  BY PrefillAssumption DEF SchedInv, SchedType
<1>2. JobOK(sub[s], s \in DOMAIN remaining, LeftOf(s), s \in finished, served[s])
  BY DEF SchedInv
<1>3. UNCHANGED << remaining, finished, updated, now, served >>
  BY DEF Submit, ContextEnds, NothingToDo, GivesUpJoining, SeesDone, SeesContext, AfterLeave
<1>4. ASSUME NEW w \in Works, Submit(s, w)
      PROVE  SchedInv'
  <2> DEFINE a == IF w = 0 THEN "none" ELSE "join"
             r == [Outside EXCEPT !.at = a, !.work = w]
  <2>1. w \in Nat /\ sub[s].at = "outside" /\ sub' = [sub EXCEPT ![s] = r]
    BY <1>4, PrefillAssumption DEF Submit
  <2>2. a \in {"none", "join"} /\ (a = "none" => w = 0)
    OBVIOUS
  <2> HIDE DEF a
  <2>3. r \in SubmitterRecord /\ r.at = a /\ r.work = w
    BY <2>1, <2>2 DEF Outside, SubmitterRecord
  <2> HIDE DEF r
  <2>4. JobOK(r, s \in DOMAIN remaining, LeftOf(s), s \in finished, served[s])
    BY <1>2, <2>1, <2>2, <2>3 DEF JobOK
  <2>5. QED
    BY <1>3, <2>1, <2>3, <2>4, SubmitterMoves
<1>5. ASSUME ContextEnds(s)
      PROVE  SchedInv'
  <2> DEFINE r == [sub[s] EXCEPT !.over = TRUE]
  <2>1. sub' = [sub EXCEPT ![s] = r]
    BY <1>1, <1>5 DEF ContextEnds
  <2>2. r \in SubmitterRecord /\ r.at = sub[s].at /\ r.work = sub[s].work
    BY <1>1 DEF SubmitterRecord
  <2> HIDE DEF r
  <2>3. JobOK(r, s \in DOMAIN remaining, LeftOf(s), s \in finished, served[s])
    BY <1>2, <2>2 DEF JobOK
  <2>4. QED
    BY <1>3, <2>1, <2>2, <2>3, SubmitterMoves
<1>6. ASSUME NothingToDo(s) \/ GivesUpJoining(s) \/ SeesDone(s) \/ SeesContext(s) \/ AfterLeave(s)
      PROVE  SchedInv'
  <2>1. PICK a \in {"true", "false", "leave"} :
          /\ Returns(s, a)
          /\ \/ sub[s].at = "none" /\ a \in {"true", "false"}
             \/ sub[s].at = "join" /\ a = "false"
             \/ sub[s].at \in {"wait", "leave"} /\ s \in finished /\ a = "true"
             \/ sub[s].at = "wait" /\ a = "leave"
             \/ sub[s].at = "left" /\ (IF s \in finished THEN a = "true" ELSE a = "false")
    BY <1>6 DEF NothingToDo, GivesUpJoining, SeesDone, SeesContext, AfterLeave
  <2> DEFINE r == [sub[s] EXCEPT !.at = a]
  <2>2. sub' = [sub EXCEPT ![s] = r]
    BY <1>1, <2>1 DEF Returns
  <2>3. r \in SubmitterRecord /\ r.at = a /\ r.work = sub[s].work
    BY <1>1 DEF SubmitterRecord
  <2> HIDE DEF r
  <2>4. JobOK(r, s \in DOMAIN remaining, LeftOf(s), s \in finished, served[s])
    BY <1>2, <2>1, <2>3 DEF JobOK
  <2>5. QED
    BY <1>3, <2>2, <2>3, <2>4, SubmitterMoves
<1>7. QED
  BY <1>4, <1>5, <1>6

\* The caller has its answer.
LEMMA GoneKeeps ==
  ASSUME SchedInv, NEW s \in Submitters, Gone(s)
  PROVE  SchedInv'
<1>1. /\ SchedType /\ sub \in [Submitters -> SubmitterRecord]
      /\ served \in [Submitters -> Int] /\ Grain \in Nat
  BY PrefillAssumption DEF SchedInv, SchedType
<1>2. Outside \in SubmitterRecord /\ Outside.at = "outside"
  BY DEF Outside, SubmitterRecord
<1>3. /\ sub'[s] = Outside /\ \A x \in Submitters \ {s} : sub'[x] = sub[x]
      /\ sub' \in [Submitters -> SubmitterRecord]
  BY <1>1, <1>2 DEF Gone
<1>4. /\ served'[s] = 0 /\ \A x \in Submitters \ {s} : served'[x] = served[x]
      /\ served' \in [Submitters -> Int]
  <2>1. PICK z \in Int : z = 0
    OBVIOUS
  <2>2. served' = [served EXCEPT ![s] = z]
    BY <2>1 DEF Gone
  <2>3. QED
    BY <1>1, <2>1, <2>2
<1>5. SchedType'
  BY <1>1, <1>3, <1>4 DEF Gone, SchedType
<1>6. remaining' = remaining /\ finished' = finished \ {s} /\ \A x \in Submitters : LeftOf(x)' = LeftOf(x)
  BY DEF Gone, LeftOf
<1>7. JobOK(sub[s], s \in DOMAIN remaining, LeftOf(s), s \in finished, served[s])
  BY DEF SchedInv
<1>8. s \notin DOMAIN remaining
  BY <1>7 DEF Gone, JobOK
<1>9. ASSUME NEW x \in Submitters
      PROVE  JobOK(sub'[x], x \in DOMAIN remaining', LeftOf(x)', x \in finished', served'[x])
  <2>1. JobOK(sub[x], x \in DOMAIN remaining, LeftOf(x), x \in finished, served[x])
    BY DEF SchedInv
  <2>2. CASE x = s
    BY <1>2, <1>3, <1>4, <1>6, <1>8, <2>2 DEF JobOK
  <2>3. CASE x # s
    BY <1>3, <1>4, <1>6, <2>1, <2>3 DEF JobOK
  <2>4. QED
    BY <2>2, <2>3
<1>10. QED
  BY <1>5, <1>9 DEF SchedInv, JobOK

\* A job joins: those before it are settled, it has had nothing yet.
LEMMA JoinKeeps ==
  ASSUME SchedInv, NEW s \in Submitters, JoinJob(s)
  PROVE  SchedInv'
<1>1. /\ SchedType /\ sub \in [Submitters -> SubmitterRecord] /\ sub[s] \in SubmitterRecord
      /\ served \in [Submitters -> Int] /\ Grain \in Nat
  BY PrefillAssumption DEF SchedInv, SchedType
<1> DEFINE r == [sub[s] EXCEPT !.at = "wait"]
<1>2. /\ sub[s].at = "join" /\ sub' = [sub EXCEPT ![s] = r] /\ updated' = now /\ now' = now
      /\ finished' = finished /\ served' = served
      /\ remaining' = [j \in DOMAIN remaining \cup {s} |->
                         IF j = s THEN Grain * sub[s].work ELSE SettledNow[j]]
  BY <1>1 DEF JoinJob
<1>3. r \in SubmitterRecord /\ r.at = "wait" /\ r.work = sub[s].work /\ sub[s].work \in Nat
  BY <1>1 DEF SubmitterRecord
<1> HIDE DEF r
<1>4. JobOK(sub[s], s \in DOMAIN remaining, LeftOf(s), s \in finished, served[s])
  BY DEF SchedInv
<1>5. s \notin DOMAIN remaining /\ s \notin finished /\ served[s] = 0
  BY <1>2, <1>4 DEF JobOK
<1>6. Grain * sub[s].work \in Int /\ Grain * sub[s].work = Grain * r.work - 0
  BY <1>1, <1>3
<1>7. /\ DOMAIN remaining' = DOMAIN remaining \cup {s}
      /\ remaining'[s] = Grain * sub[s].work
      /\ \A x \in DOMAIN remaining : remaining'[x] = LeftOf(x) /\ LeftOf(x) \in Int
  BY <1>2, <1>5, SettledIsLeft
<1>8. remaining' \in [DOMAIN remaining' -> Int] /\ DOMAIN remaining' \subseteq Submitters
  BY <1>1, <1>2, <1>6, <1>7 DEF SchedType
<1>9. /\ sub' \in [Submitters -> SubmitterRecord]
      /\ sub'[s] = r /\ \A x \in Submitters \ {s} : sub'[x] = sub[x]
  BY <1>1, <1>2, <1>3
<1>10. ASSUME NEW x \in Submitters
       PROVE  JobOK(sub'[x], x \in DOMAIN remaining', remaining'[x], x \in finished', served[x])
  <2>1. JobOK(sub[x], x \in DOMAIN remaining, LeftOf(x), x \in finished, served[x])
    BY DEF SchedInv
  <2>2. CASE x = s
    BY <1>2, <1>3, <1>5, <1>6, <1>7, <1>9, <2>2 DEF JobOK
  <2>3. CASE x # s
    BY <1>2, <1>7, <1>9, <2>1, <2>3 DEF JobOK
  <2>4. QED
    BY <2>2, <2>3
<1>11. QED
  BY <1>2, <1>8, <1>9, <1>10, LoopSettles

\* Jobs that leave the active ones after a settle.
LEMMA WithoutJobs ==
  ASSUME SchedInv, NEW js, remaining' = Without(SettledNow, js)
  PROVE  /\ DOMAIN remaining' = DOMAIN remaining \ js /\ DOMAIN remaining' \subseteq Submitters
         /\ remaining' \in [DOMAIN remaining' -> Int]
         /\ \A x \in DOMAIN remaining \ js : remaining'[x] = LeftOf(x) /\ LeftOf(x) \in Int
<1>1. DOMAIN SettledNow = DOMAIN remaining
  BY DEF SettledNow, Settled
<1>2. \A x \in DOMAIN remaining : SettledNow[x] = LeftOf(x) /\ LeftOf(x) \in Int
  BY SettledIsLeft
<1>3. remaining' = [j \in DOMAIN remaining \ js |-> SettledNow[j]]
  BY <1>1 DEF Without
<1>4. QED
  BY <1>2, <1>3 DEF SchedInv, SchedType

\* A caller takes its job back, or finds it done.
LEMMA LeaveKeeps ==
  ASSUME SchedInv, NEW s \in Submitters, LeaveJob(s)
  PROVE  SchedInv'
<1>1. /\ SchedType /\ sub \in [Submitters -> SubmitterRecord] /\ sub[s] \in SubmitterRecord
      /\ served \in [Submitters -> Int] /\ Grain \in Nat
  BY PrefillAssumption DEF SchedInv, SchedType
<1> DEFINE r == [sub[s] EXCEPT !.at = "left"]
<1>2. /\ sub[s].at = "leave" /\ sub' = [sub EXCEPT ![s] = r] /\ now' = now
      /\ finished' = finished /\ served' = served
  BY <1>1 DEF LeaveJob
<1>3. r \in SubmitterRecord /\ r.at = "left" /\ r.work = sub[s].work
  BY <1>1 DEF SubmitterRecord
<1> HIDE DEF r
<1>4. JobOK(sub[s], s \in DOMAIN remaining, LeftOf(s), s \in finished, served[s])
  BY DEF SchedInv
<1>5. CASE s \in DOMAIN remaining
  <2>1. remaining' = Without(SettledNow, {s}) /\ updated' = now
    BY <1>5 DEF LeaveJob
  <2>2. /\ DOMAIN remaining' = DOMAIN remaining \ {s} /\ DOMAIN remaining' \subseteq Submitters
        /\ remaining' \in [DOMAIN remaining' -> Int]
        /\ \A x \in DOMAIN remaining \ {s} : remaining'[x] = LeftOf(x) /\ LeftOf(x) \in Int
    BY <2>1, WithoutJobs
  <2>3. /\ sub' \in [Submitters -> SubmitterRecord]
        /\ sub'[s] = r /\ \A x \in Submitters \ {s} : sub'[x] = sub[x]
    BY <1>1, <1>2, <1>3
  <2>4. ASSUME NEW x \in Submitters
        PROVE  JobOK(sub'[x], x \in DOMAIN remaining', remaining'[x], x \in finished', served[x])
    <3>1. JobOK(sub[x], x \in DOMAIN remaining, LeftOf(x), x \in finished, served[x])
      BY DEF SchedInv
    <3>2. CASE x = s
      BY <1>2, <1>3, <1>4, <1>5, <2>2, <2>3, <3>2 DEF JobOK
    <3>3. CASE x # s
      BY <1>2, <2>2, <2>3, <3>1, <3>3 DEF JobOK
    <3>4. QED
      BY <3>2, <3>3
  <2>5. QED
    BY <1>2, <2>1, <2>2, <2>3, <2>4, LoopSettles
<1>6. CASE s \notin DOMAIN remaining
  <2>1. UNCHANGED << remaining, updated >>
    BY <1>6 DEF LeaveJob
  <2>2. JobOK(r, s \in DOMAIN remaining, LeftOf(s), s \in finished, served[s])
    BY <1>2, <1>3, <1>4, <1>6 DEF JobOK
  <2>3. QED
    BY <1>2, <1>3, <2>1, <2>2, SubmitterMoves
<1>7. QED
  BY <1>5, <1>6

\* The timer: what has nothing left has had all its work.
LEMMA WakeKeeps ==
  ASSUME SchedInv, Wake
  PROVE  SchedInv'
<1>1. /\ SchedType /\ sub \in [Submitters -> SubmitterRecord]
      /\ served \in [Submitters -> Int] /\ Grain \in Nat
  BY PrefillAssumption DEF SchedInv, SchedType
<1> DEFINE due == {j \in DOMAIN remaining : SettledNow[j] <= 0}
<1>2. /\ sub' = sub /\ now' = now /\ served' = served /\ updated' = now
      /\ finished' = finished \cup due /\ remaining' = Without(SettledNow, due)
  BY DEF Wake
<1>3. \A x \in DOMAIN remaining : SettledNow[x] = LeftOf(x) /\ LeftOf(x) \in Int
  BY SettledIsLeft
<1>4. due \subseteq DOMAIN remaining /\ \A x \in due : LeftOf(x) <= 0
  BY <1>3
<1> HIDE DEF due
<1>5. /\ DOMAIN remaining' = DOMAIN remaining \ due /\ DOMAIN remaining' \subseteq Submitters
      /\ remaining' \in [DOMAIN remaining' -> Int]
      /\ \A x \in DOMAIN remaining \ due : remaining'[x] = LeftOf(x) /\ LeftOf(x) \in Int
  BY <1>2, WithoutJobs
<1>6. ASSUME NEW x \in Submitters
      PROVE  JobOK(sub'[x], x \in DOMAIN remaining', remaining'[x], x \in finished', served[x])
  <2>1. JobOK(sub[x], x \in DOMAIN remaining, LeftOf(x), x \in finished, served[x])
    BY DEF SchedInv
  <2>2. CASE x \in due
    <3>1. /\ x \notin DOMAIN remaining' /\ x \in DOMAIN remaining /\ x \in finished' /\ sub'[x] = sub[x]
      BY <1>2, <1>4, <1>5, <2>2
    <3>2. sub[x].at \in {"wait", "leave"} /\ LeftOf(x) = Grain * sub[x].work - served[x]
      BY <2>1, <3>1 DEF JobOK
    <3>3. sub[x].work \in Nat /\ served[x] \in Int /\ Grain * sub[x].work \in Int
      BY <1>1 DEF SubmitterRecord
    <3>4. served[x] >= Grain * sub[x].work
      BY <1>4, <2>2, <3>2, <3>3
    <3>5. QED
      BY <3>1, <3>2, <3>4 DEF JobOK
  <2>3. CASE x \notin due
    <3>1. /\ x \in DOMAIN remaining' <=> x \in DOMAIN remaining
          /\ x \in DOMAIN remaining' => remaining'[x] = LeftOf(x)
          /\ x \in finished' <=> x \in finished
          /\ sub'[x] = sub[x]
      BY <1>2, <1>5, <2>3
    <3>2. QED
      BY <2>1, <3>1 DEF JobOK
  <2>4. QED
    BY <2>2, <2>3
<1>7. sub' \in [Submitters -> SubmitterRecord]
  BY <1>1, <1>2
<1>8. QED
  BY <1>2, <1>5, <1>6, <1>7, LoopSettles

\* Time passes: what each active job has left falls by its share.
LEMMA TickKeeps ==
  ASSUME SchedInv, SchedTick
  PROVE  SchedInv'
<1>1. /\ SchedType /\ sub \in [Submitters -> SubmitterRecord]
      /\ served \in [Submitters -> Int] /\ Grain \in Nat
      /\ updated \in Nat /\ now \in Nat /\ updated <= now /\ DOMAIN remaining \subseteq Submitters
  BY PrefillAssumption DEF SchedInv, SchedType
<1> DEFINE n == Cardinality(DOMAIN remaining)
<1>2. /\ UNCHANGED << sub, remaining, finished, updated >> /\ now' = now + 1
      /\ served' = [s \in Submitters |->
                      served[s] + IF s \in DOMAIN remaining THEN Grain \div n ELSE 0]
  BY DEF SchedTick
<1>3. DOMAIN remaining # {} => n \in Nat \ {0} /\ Grain % n = 0
  BY <1>1, ActiveCount
<1>4. \A x \in Submitters \ DOMAIN remaining : served'[x] = served[x]
  BY <1>1, <1>2
<1>5. \A x \in DOMAIN remaining : LeftOf(x) = remaining[x] - (Grain * (now - updated)) \div n
  BY DEF LeftOf
<1>6. \A x \in DOMAIN remaining : LeftOf(x)' = remaining[x] - (Grain * (now + 1 - updated)) \div n
  <2> SUFFICES ASSUME NEW x \in DOMAIN remaining
               PROVE  LeftOf(x)' = remaining[x] - (Grain * (now + 1 - updated)) \div n
    OBVIOUS
  <2>1. LeftOf(x)' = remaining'[x] - (Grain * (now' - updated')) \div Cardinality(DOMAIN remaining')
    BY DEF LeftOf
  <2>2. remaining' = remaining /\ updated' = updated /\ now' = now + 1
    BY <1>2
  <2>3. now' - updated' = now + 1 - updated
    BY <1>1, <2>2
  <2>4. LeftOf(x)' = remaining[x] - (Grain * (now' - updated')) \div n
    BY <2>1, <2>2
  <2>5. QED
    BY <2>3, <2>4
<1> HIDE DEF n
<1>7. ASSUME NEW x \in DOMAIN remaining
      PROVE  /\ served'[x] = served[x] + Grain \div n /\ Grain \div n \in Int
             /\ LeftOf(x)' = LeftOf(x) - Grain \div n /\ LeftOf(x) \in Int
  <2>1. n \in Nat \ {0} /\ Grain % n = 0 /\ x \in Submitters
    BY <1>1, <1>3, <1>7
  <2>2. Grain \div n \in Int
    BY <1>1, <2>1
  <2>3. PICK k \in Nat : k = now - updated
    BY <1>1
  <2>4. now + 1 - updated = k + 1
    BY <1>1, <2>3
  <2>5. (Grain * (k + 1)) \div n = (Grain * k) \div n + Grain \div n
    BY <1>1, <2>1, ShareOfTicks
  <2>6. remaining[x] \in Int /\ (Grain * k) \div n \in Int
    BY <1>1, <2>1 DEF SchedType
  <2>7. LeftOf(x) = remaining[x] - (Grain * k) \div n
    BY <1>5, <2>3
  <2>8. LeftOf(x)' = remaining[x] - (Grain * (k + 1)) \div n
    BY <1>6, <2>4
  <2>9. served'[x] = served[x] + Grain \div n
    BY <1>2, <2>1
  <2>10. QED
    BY <2>2, <2>5, <2>6, <2>7, <2>8, <2>9
<1>8. SchedType'
  <2>1. \A x \in Submitters : served'[x] \in Int
    BY <1>1, <1>4, <1>7
  <2>2. served' \in [Submitters -> Int]
    BY <1>2, <2>1
  <2>3. QED
    BY <1>1, <1>2, <2>2 DEF SchedType
<1>9. ASSUME NEW x \in Submitters
      PROVE  JobOK(sub'[x], x \in DOMAIN remaining', LeftOf(x)', x \in finished', served'[x])
  <2>1. JobOK(sub[x], x \in DOMAIN remaining, LeftOf(x), x \in finished, served[x])
    BY DEF SchedInv
  <2>2. CASE x \in DOMAIN remaining
    <3>1. /\ LeftOf(x) = Grain * sub[x].work - served[x]
          /\ sub[x].at \in {"wait", "leave"} /\ x \notin finished
      BY <2>1, <2>2 DEF JobOK
    <3>2. sub[x].work \in Nat /\ served[x] \in Int /\ Grain * sub[x].work \in Int
      BY <1>1 DEF SubmitterRecord
    <3>3. LeftOf(x)' = Grain * sub[x].work - served'[x]
      BY <1>7, <2>2, <3>1, <3>2
    <3>4. QED
      BY <1>2, <3>1, <3>3 DEF JobOK
  <2>3. CASE x \notin DOMAIN remaining
    BY <1>2, <1>4, <2>1, <2>3 DEF JobOK
  <2>4. QED
    BY <2>2, <2>3
<1>10. QED
  BY <1>8, <1>9 DEF SchedInv, JobOK

\* "each of N active jobs drains at 1/N of the instance's full rate" (prefill.go:139-145)
\* for any number of submitters and any work, however joins, leaves, completions and
\* disconnects interleave, and nobody is told true of work that was not drained or false
\* of a job that was (prefill.go:107-127).
THEOREM SharingExact == SchedSpec => []SharesExact
<1>1. SchedInit => SchedInv
  <2> SUFFICES ASSUME SchedInit PROVE SchedInv
    OBVIOUS
  <2>1. Outside \in SubmitterRecord /\ Outside.at = "outside"
    BY DEF Outside, SubmitterRecord
  <2>2. DOMAIN remaining = {} /\ finished = {} /\ updated = 0 /\ now = 0
    BY DEF SchedInit
  <2>3. remaining \in [DOMAIN remaining -> Int]
    BY DEF SchedInit
  <2>4. sub \in [Submitters -> SubmitterRecord] /\ \A s \in Submitters : sub[s] = Outside
    BY <2>1 DEF SchedInit
  <2>5. served \in [Submitters -> Int] /\ \A s \in Submitters : served[s] = 0
    BY DEF SchedInit
  <2>6. SchedType
    BY <2>2, <2>3, <2>4, <2>5 DEF SchedType
  <2>7. QED
    BY <2>1, <2>2, <2>4, <2>5, <2>6 DEF SchedInv, JobOK
<1>2. SchedInv /\ [SchedNext]_schedVars => SchedInv'
  <2> SUFFICES ASSUME SchedInv, [SchedNext]_schedVars PROVE SchedInv'
    OBVIOUS
  <2>1. CASE UNCHANGED schedVars \/ Close
    <3>1. UNCHANGED << sub, remaining, finished, updated, now, served >>
      BY <2>1 DEF schedVars, Close
    <3>2. QED
      BY <3>1 DEF SchedInv, SchedType, LeftOf, JobOK
  <2>2. QED
    BY <2>1, SubmitKeeps, GoneKeeps, JoinKeeps, LeaveKeeps, WakeKeeps, TickKeeps DEF SchedNext
<1>3. SchedInv => SharesExact
  <2> SUFFICES ASSUME SchedInv PROVE SharesExact
    OBVIOUS
  <2>1. \A s \in Submitters :
          JobOK(sub[s], s \in DOMAIN remaining, LeftOf(s), s \in finished, served[s])
    BY DEF SchedInv
  <2>2. \A s \in DOMAIN remaining : s \in Submitters /\ SettledNow[s] = LeftOf(s)
    BY SettledIsLeft DEF SchedInv, SchedType
  <2>3. QED
    BY <2>1, <2>2 DEF SharesExact, JobOK
<1>4. QED
  BY <1>1, <1>2, <1>3, PTL DEF SchedSpec

-----------------------------------------------------------------------------
(* The endpoints of a dynamic model.                                       *)

\* What Max makes of two numbers.
LEMMA MaxOfTwo ==
  ASSUME NEW a \in Int, NEW b \in Int
  PROVE  Max({a, b}) \in {a, b} /\ Max({a, b}) >= a /\ Max({a, b}) >= b
<1>1. \E x \in {a, b} : \A y \in {a, b} : x >= y
  OBVIOUS
<1>2. QED
  BY <1>1 DEF Max

\* N disjoint parts of at least K elements each take N * K elements.
LEMMA Pigeons ==
  ASSUME NEW S, IsFiniteSet(S), NEW N \in Nat, NEW K \in Nat, NEW part \in [1..N -> SUBSET S],
         \A e \in 1..N : Cardinality(part[e]) >= K,
         \A e, f \in 1..N : \A x : x \in part[e] /\ x \in part[f] => e = f
  PROVE  N * K <= Cardinality(S)
<1>1. \A e \in 1..N : IsFiniteSet(part[e]) /\ Cardinality(part[e]) \in Nat
  BY FS_Subset, FS_CardinalityType
<1> DEFINE bij(e) == CHOOSE f : f \in Bijection(1..Cardinality(part[e]), part[e])
<1>2. \A e \in 1..N : bij(e) \in Bijection(1..Cardinality(part[e]), part[e])
  BY <1>1, FS_CardinalityType DEF ExistsBijection
<1> DEFINE F == [p \in (1..N) \X (1..K) |-> bij(p[1])[p[2]]]
<1> HIDE DEF bij
<1>3. ASSUME NEW e \in 1..N
      PROVE  /\ \A k \in 1..K : bij(e)[k] \in part[e]
             /\ \A k, m \in 1..K : bij(e)[k] = bij(e)[m] => k = m
  <2>1. \A k \in 1..K : k \in 1..Cardinality(part[e])
    BY <1>1
  <2>2. bij(e) \in [1..Cardinality(part[e]) -> part[e]] /\ IsInjective(bij(e))
    BY <1>2 DEF Bijection, Injection
  <2>3. QED
    BY <2>1, <2>2 DEF IsInjective
<1>4. F \in [(1..N) \X (1..K) -> S]
  BY <1>3
<1>5. \A p, q \in (1..N) \X (1..K) : F[p] = F[q] => p = q
  <2> SUFFICES ASSUME NEW p \in (1..N) \X (1..K), NEW q \in (1..N) \X (1..K), F[p] = F[q]
               PROVE  p = q
    OBVIOUS
  <2>1. p[1] \in 1..N /\ p[2] \in 1..K /\ q[1] \in 1..N /\ q[2] \in 1..K
        /\ p = << p[1], p[2] >> /\ q = << q[1], q[2] >>
    OBVIOUS
  <2>2. F[p] = bij(p[1])[p[2]] /\ F[q] = bij(q[1])[q[2]]
    OBVIOUS
  <2>3. F[p] \in part[p[1]] /\ F[q] \in part[q[1]]
    BY <1>3, <2>1, <2>2
  <2>4. p[1] = q[1]
    BY <2>1, <2>3
  <2>5. p[2] = q[2]
    BY <1>3, <2>1, <2>2, <2>4
  <2>6. QED
    BY <2>1, <2>4, <2>5
<1>6. F \in Injection((1..N) \X (1..K), S)
  BY <1>4, <1>5, Fun_IsInj
<1>7. Cardinality((1..N) \X (1..K)) <= Cardinality(S)
  BY <1>6, FS_Injection
<1>8. /\ IsFiniteSet(1..N) /\ Cardinality(1..N) = N
      /\ IsFiniteSet(1..K) /\ Cardinality(1..K) = K
  <2>1. \A k \in Nat : (IF 1 > k THEN 0 ELSE k - 1 + 1) = k
    OBVIOUS
  <2>2. 1 \in Int /\ N \in Int /\ K \in Int
    OBVIOUS
  <2>3. QED
    BY <2>1, <2>2, FS_Interval
<1>9. Cardinality((1..N) \X (1..K)) = Cardinality(1..N) * Cardinality(1..K)
  BY <1>8, FS_Product
<1>10. QED
  BY <1>7, <1>8, <1>9

CallerRecord ==
  [at : {"away", "resolve", "home", "pick", "sent"}, want : BOOLEAN, next : Nat,
   bases : Seq({"v1", "raw"}), model : {"", "id", "given", "default"},
   series : SeriesNums \cup {NoHome}, home : Endpoint \cup {NoHome}, idx : Endpoint \cup {NoHome}]

\* What a caller has gone past is settled, and it took what everyone takes.
CallerOK(r, m) ==
  /\ Len(r.bases) = r.next - 1
  /\ \A e \in Endpoint : e < r.next => m[e] \in ResolvedEndpoints /\ r.bases[e] = m[e].base
  /\ r.at \in {"resolve", "home"} => r.series \in SeriesNums
  /\ r.at = "pick" => r.home \in Endpoint
  /\ r.at = "sent" => r.idx \in Endpoint

\* An endpoint is probed as it stops being new.
ProbeInv ==
  /\ caller \in [Callers -> CallerRecord]
  /\ memo \in [Endpoint -> {NotRun} \cup Callers \cup ResolvedEndpoints]
  /\ probed \in [Endpoint -> Nat]
  /\ \A e \in Endpoint : (memo[e] = NotRun => probed[e] = 0) /\ probed[e] <= 1
  /\ \A c \in Callers : CallerOK(caller[c], memo)

SentTo(e) == {c \in Callers : caller[c].at = "sent" /\ caller[c].idx = e}

FlightInv ==
  /\ inFlight \in [Endpoint -> Nat]
  /\ \A e \in Endpoint : inFlight[e] = Cardinality(SentTo(e)) /\ inFlight[e] <= OverloadLimit + 1

HomedAt(e) == {s \in SeriesNums : homes[s] = e}

SeriesInv ==
  /\ homes \in [SeriesNums -> Endpoint \cup {NoHome}]
  /\ assigned \in [Endpoint -> Nat]
  /\ \A e \in Endpoint : assigned[e] = Cardinality(HomedAt(e))
  /\ \A e, f \in Endpoint : assigned[e] <= assigned[f] + 1

EndpointsInv == ProbeInv /\ FlightInv /\ SeriesInv

\* The endpoints are the numbers from 1 to theirs.
LEMMA EndpointNumbers ==
  /\ Cardinality(Endpoint) \in Nat /\ Cardinality(Endpoint) > 1
  /\ Endpoint = 1..Cardinality(Endpoint)
  /\ Cardinality(Callers) \in Nat
BY EndpointsAssumption, FS_CardinalityType

\* The limit is one at least, and the endpoints together have room for every caller.
LEMMA RoomForAll ==
  /\ OverloadLimit \in Nat \ {0}
  /\ Cardinality(Endpoint) * (OverloadLimit + 1) > Cardinality(Callers)
<1> DEFINE n == Cardinality(Endpoint)
           k == Cardinality(Callers)
           w == WellBalanced
<1>1. n \in Nat /\ n > 1 /\ k \in Nat
  BY EndpointNumbers
<1> HIDE DEF n, k, w
<1>2. k \div n \in Nat /\ k < n * (k \div n) + n
  BY <1>1
<1>3. w \in Nat /\ w >= 1 /\ w >= k \div n
  <2>1. w = Max({1, k \div n})
    BY DEF WellBalanced, n, k, w
  <2> DEFINE q == k \div n
  <2>2. q \in Int /\ 1 \in Int
    BY <1>2
  <2> HIDE DEF q
  <2>3. Max({1, q}) \in {1, q} /\ Max({1, q}) >= 1 /\ Max({1, q}) >= q
    BY <2>2, MaxOfTwo
  <2>4. QED
    BY <1>2, <2>1, <2>3 DEF q
<1>4. (12 * w) \div 10 \in Nat /\ (12 * w) \div 10 >= w
  BY <1>3
<1>5. OverloadLimit = Max({1, (12 * w) \div 10})
  BY DEF OverloadLimit, w
<1>6. OverloadLimit \in Nat /\ OverloadLimit >= 1 /\ OverloadLimit >= w
  BY <1>3, <1>4, <1>5, MaxOfTwo
<1> DEFINE q == k \div n
           l == OverloadLimit
<1>7. q \in Nat /\ k < n * q + n /\ l \in Nat /\ l >= q /\ l >= 1
  BY <1>1, <1>2, <1>3, <1>6
<1> HIDE DEF q, l
<1>8. n * (l + 1) >= n * (q + 1) /\ n * (q + 1) = n * q + n
  BY <1>1, <1>7
<1>9. n * q + n \in Nat /\ n * (l + 1) \in Nat
  BY <1>1, <1>7
<1>10. n * (l + 1) > k
  BY <1>1, <1>7, <1>8, <1>9
<1>11. QED
  BY <1>7, <1>10 DEF n, k, l

\* A caller moves and the discoveries stand still, or a discovery makes progress.
LEMMA CallerMoves ==
  ASSUME ProbeInv, NEW c \in Callers, NEW r \in CallerRecord, caller' = [caller EXCEPT ![c] = r],
         memo' = memo, probed' = probed, CallerOK(r, memo)
  PROVE  ProbeInv'
<1>1. caller' \in [Callers -> CallerRecord]
  BY DEF ProbeInv
<1>2. \A d \in Callers : CallerOK(caller'[d], memo)
  BY DEF ProbeInv
<1>3. QED
  BY <1>1, <1>2 DEF ProbeInv

\* The requests under way to each endpoint as one caller is sent.
LEMMA SentMoves ==
  ASSUME ProbeInv, NEW e \in Endpoint
  PROVE  /\ IsFiniteSet(SentTo(e)) /\ Cardinality(SentTo(e)) \in Nat
         /\ SentTo(e) \subseteq Callers
<1>1. SentTo(e) \subseteq Callers /\ IsFiniteSet(Callers)
  BY EndpointsAssumption DEF SentTo
<1>2. QED
  BY <1>1, FS_Subset, FS_CardinalityType

\* Nobody is sent or comes back.
LEMMA FlightsSame ==
  ASSUME FlightInv, inFlight' = inFlight,
         \A d \in Callers : (caller'[d].at = "sent" <=> caller[d].at = "sent")
                            /\ (caller[d].at = "sent" => caller'[d].idx = caller[d].idx)
  PROVE  FlightInv'
<1>1. \A e \in Endpoint : SentTo(e)' = SentTo(e)
  BY DEF SentTo
<1>2. OverloadLimit' = OverloadLimit
  BY DEF OverloadLimit, WellBalanced
<1>3. QED
  BY <1>1, <1>2 DEF FlightInv

\* While a caller has not been sent, not every endpoint is overloaded.
LEMMA SomeRoom ==
  ASSUME ProbeInv, FlightInv, NEW c \in Callers, caller[c].at # "sent"
  PROVE  \E e \in Endpoint : ~Overloaded(e)
<1> SUFFICES ASSUME \A e \in Endpoint : Overloaded(e) PROVE FALSE
  OBVIOUS
<1> DEFINE n == Cardinality(Endpoint)
           k == OverloadLimit + 1
           part == [e \in 1..n |-> SentTo(e)]
<1>1. n \in Nat /\ Endpoint = 1..n /\ Cardinality(Callers) \in Nat /\ IsFiniteSet(Callers)
  BY EndpointNumbers, EndpointsAssumption
<1>2. k \in Nat /\ n * k > Cardinality(Callers)
  BY RoomForAll
<1>3. part \in [1..n -> SUBSET Callers]
  BY DEF SentTo
<1>4. \A e \in 1..n : Cardinality(part[e]) >= k
  <2> SUFFICES ASSUME NEW e \in 1..n PROVE Cardinality(SentTo(e)) >= k
    OBVIOUS
  <2>1. e \in Endpoint /\ inFlight[e] = Cardinality(SentTo(e)) /\ inFlight[e] \in Nat
    BY <1>1 DEF FlightInv
  <2>2. inFlight[e] > OverloadLimit /\ OverloadLimit \in Nat
    BY <2>1, RoomForAll DEF Overloaded
  <2>3. QED
    BY <2>1, <2>2
<1>5. \A e, f \in 1..n : \A x : x \in part[e] /\ x \in part[f] => e = f
  BY DEF SentTo
<1> HIDE DEF n, k, part
<1>6. n * k <= Cardinality(Callers)
  BY <1>1, <1>2, <1>3, <1>4, <1>5, Pigeons
<1>7. n * k \in Nat
  BY <1>1, <1>2
<1>8. QED
  BY <1>1, <1>2, <1>6, <1>7

\* pickLocked names an endpoint with room.
LEMMA PickedHasRoom ==
  ASSUME ProbeInv, FlightInv, NEW c \in Callers, caller[c].at = "pick",
         NEW e \in PickLocked(caller[c].home)
  PROVE  e \in Endpoint /\ inFlight[e] <= OverloadLimit
<1>1. \E x \in Endpoint : ~Overloaded(x)
  BY SomeRoom
<1>2. e \in Endpoint /\ ~Overloaded(e)
  BY <1>1 DEF PickLocked
<1>3. inFlight[e] \in Nat /\ OverloadLimit \in Nat
  BY <1>2, RoomForAll DEF FlightInv
<1>4. QED
  BY <1>2, <1>3 DEF Overloaded

\* A request is sent.
LEMMA AcquireFlight ==
  ASSUME ProbeInv, FlightInv, NEW c \in Callers, NEW e \in Endpoint, NEW r \in CallerRecord,
         inFlight[e] <= OverloadLimit, caller[c].at # "sent",
         inFlight' = [inFlight EXCEPT ![e] = @ + 1],
         caller' = [caller EXCEPT ![c] = r], r.at = "sent", r.idx = e
  PROVE  FlightInv'
<1>1. /\ inFlight \in [Endpoint -> Nat] /\ caller \in [Callers -> CallerRecord]
      /\ OverloadLimit' = OverloadLimit /\ OverloadLimit \in Nat
  BY RoomForAll DEF FlightInv, ProbeInv, OverloadLimit, WellBalanced
<1>2. caller'[c] = r /\ \A d \in Callers \ {c} : caller'[d] = caller[d]
  BY <1>1
<1>3. inFlight'[e] = inFlight[e] + 1 /\ \A f \in Endpoint \ {e} : inFlight'[f] = inFlight[f]
  BY <1>1
<1>4. inFlight' \in [Endpoint -> Nat]
  BY <1>1
<1>5. SentTo(e)' = SentTo(e) \cup {c} /\ c \notin SentTo(e)
  BY <1>2 DEF SentTo
<1>6. \A f \in Endpoint \ {e} : SentTo(f)' = SentTo(f)
  BY <1>2 DEF SentTo
<1>7. Cardinality(SentTo(e)') = Cardinality(SentTo(e)) + 1
  BY <1>5, SentMoves, FS_AddElement
<1>8. ASSUME NEW f \in Endpoint
      PROVE  inFlight'[f] = Cardinality(SentTo(f)') /\ inFlight'[f] <= OverloadLimit + 1
  <2>1. inFlight[f] = Cardinality(SentTo(f)) /\ inFlight[f] <= OverloadLimit + 1
    BY DEF FlightInv
  <2>2. CASE f = e
    BY <1>1, <1>3, <1>7, <2>1, <2>2
  <2>3. CASE f # e
    BY <1>3, <1>6, <2>1, <2>3
  <2>4. QED
    BY <2>2, <2>3
<1>9. QED
  BY <1>1, <1>4, <1>8 DEF FlightInv

\* A request has come back.
LEMMA ReleaseFlight ==
  ASSUME ProbeInv, FlightInv, NEW c \in Callers, NEW e \in Endpoint, NEW r \in CallerRecord,
         caller[c].at = "sent", caller[c].idx = e,
         inFlight' = [inFlight EXCEPT ![e] = @ - 1],
         caller' = [caller EXCEPT ![c] = r], r.at # "sent"
  PROVE  FlightInv'
<1>1. /\ inFlight \in [Endpoint -> Nat] /\ caller \in [Callers -> CallerRecord]
      /\ OverloadLimit' = OverloadLimit /\ OverloadLimit \in Nat
  BY RoomForAll DEF FlightInv, ProbeInv, OverloadLimit, WellBalanced
<1>2. caller'[c] = r /\ \A d \in Callers \ {c} : caller'[d] = caller[d]
  BY <1>1
<1>3. inFlight'[e] = inFlight[e] - 1 /\ \A f \in Endpoint \ {e} : inFlight'[f] = inFlight[f]
  BY <1>1
<1>4. SentTo(e)' = SentTo(e) \ {c} /\ c \in SentTo(e)
  BY <1>2 DEF SentTo
<1>5. \A f \in Endpoint \ {e} : SentTo(f)' = SentTo(f)
  BY <1>2 DEF SentTo
<1>6. /\ Cardinality(SentTo(e)') = Cardinality(SentTo(e)) - 1
      /\ IsFiniteSet(SentTo(e)) /\ Cardinality(SentTo(e)) \in Nat
  BY <1>4, SentMoves, FS_RemoveElement, ZenonT(40)
<1>7. Cardinality(SentTo(e)) # 0
  BY <1>4, <1>6, FS_EmptySet
<1>8. inFlight[e] = Cardinality(SentTo(e)) /\ inFlight[e] <= OverloadLimit + 1
  BY DEF FlightInv
<1>9. inFlight'[e] \in Nat
  BY <1>3, <1>6, <1>7, <1>8
<1>10. inFlight' \in [Endpoint -> Nat]
  BY <1>1, <1>3, <1>9
<1>11. ASSUME NEW f \in Endpoint
       PROVE  inFlight'[f] = Cardinality(SentTo(f)') /\ inFlight'[f] <= OverloadLimit + 1
  <2>1. inFlight[f] = Cardinality(SentTo(f)) /\ inFlight[f] <= OverloadLimit + 1
    BY DEF FlightInv
  <2>2. CASE f = e
    BY <1>1, <1>3, <1>6, <1>8, <2>2
  <2>3. CASE f # e
    BY <1>3, <1>5, <2>1, <2>3
  <2>4. QED
    BY <2>2, <2>3
<1>12. QED
  BY <1>1, <1>10, <1>11 DEF FlightInv

\* HomeIndexForSeries finds an endpoint with the fewest series.
LEMMA FewestIsLeast ==
  ASSUME SeriesInv
  PROVE  FewestSeries \in Endpoint /\ \A f \in Endpoint : assigned[FewestSeries] <= assigned[f]
<1>1. Endpoint \subseteq Nat /\ Endpoint # {}
  BY EndpointNumbers, SMTT(30)
<1>2. assigned \in [Endpoint -> Nat]
  BY DEF SeriesInv
<1> DEFINE counts == {assigned[e] : e \in Endpoint}
<1>3. counts \subseteq Nat /\ counts # {}
  BY <1>1, <1>2
<1>4. PICK x \in counts : \A y \in counts : x <= y
  BY <1>3, LeastNatural
<1> DEFINE least == {e \in Endpoint : assigned[e] = x}
<1>5. least \subseteq Nat /\ least # {}
  BY <1>1, <1>4
<1>6. PICK e \in least : \A f \in least : e <= f
  BY <1>5, LeastNatural
<1>7. e \in Endpoint /\ assigned[e] = x /\ x \in Nat
  BY <1>2, <1>6
<1>8. \A f \in Endpoint : assigned[e] < assigned[f] \/ (assigned[e] = assigned[f] /\ e <= f)
  <2> SUFFICES ASSUME NEW f \in Endpoint
               PROVE  assigned[e] < assigned[f] \/ (assigned[e] = assigned[f] /\ e <= f)
    OBVIOUS
  <2>1. x <= assigned[f] /\ assigned[f] \in Nat
    BY <1>2, <1>4
  <2>2. assigned[f] = x => e <= f
    BY <1>6
  <2>3. QED
    BY <1>7, <2>1, <2>2
<1>9. /\ FewestSeries \in Endpoint
      /\ \A f \in Endpoint : \/ assigned[FewestSeries] < assigned[f]
                             \/ assigned[FewestSeries] = assigned[f] /\ FewestSeries <= f
  BY <1>7, <1>8 DEF FewestSeries
<1> DEFINE h == FewestSeries
<1> HIDE DEF h
<1>10. h \in Endpoint /\ \A f \in Endpoint : assigned[h] < assigned[f] \/ assigned[h] = assigned[f]
  BY <1>9 DEF h
<1>11. \A f \in Endpoint : assigned[h] <= assigned[f]
  BY <1>2, <1>10
<1>12. QED
  BY <1>10, <1>11 DEF h

\* A new series goes to an endpoint with the fewest.
LEMMA SeriesSettles ==
  ASSUME SeriesInv, NEW s \in SeriesNums, homes[s] = NoHome,
         NEW h \in Endpoint, \A f \in Endpoint : assigned[h] <= assigned[f],
         homes' = [homes EXCEPT ![s] = h], assigned' = [assigned EXCEPT ![h] = @ + 1]
  PROVE  SeriesInv'
<1>1. homes \in [SeriesNums -> Endpoint \cup {NoHome}] /\ assigned \in [Endpoint -> Nat]
  BY DEF SeriesInv
<1>2. homes' \in [SeriesNums -> Endpoint \cup {NoHome}] /\ assigned' \in [Endpoint -> Nat]
  BY <1>1
<1>3. homes'[s] = h /\ \A x \in SeriesNums \ {s} : homes'[x] = homes[x]
  BY <1>1
<1>4. assigned'[h] = assigned[h] + 1 /\ \A f \in Endpoint \ {h} : assigned'[f] = assigned[f]
  BY <1>1
<1>5. h # NoHome /\ \A f \in Endpoint : f # NoHome
  BY MarksAssumption
<1>6. HomedAt(h)' = HomedAt(h) \cup {s} /\ s \notin HomedAt(h)
  BY <1>3, <1>5 DEF HomedAt
<1>7. \A f \in Endpoint \ {h} : HomedAt(f)' = HomedAt(f)
  BY <1>3, <1>5 DEF HomedAt
<1>8. IsFiniteSet(HomedAt(h))
  <2>1. HomedAt(h) \subseteq SeriesNums
    BY DEF HomedAt
  <2>2. QED
    BY <2>1, EndpointsAssumption, FS_Subset
<1>9. Cardinality(HomedAt(h)') = Cardinality(HomedAt(h)) + 1
  BY <1>6, <1>8, FS_AddElement
<1>10. \A f \in Endpoint : assigned'[f] = Cardinality(HomedAt(f)')
  <2> SUFFICES ASSUME NEW f \in Endpoint PROVE assigned'[f] = Cardinality(HomedAt(f)')
    OBVIOUS
  <2>1. assigned[f] = Cardinality(HomedAt(f)) /\ assigned[h] = Cardinality(HomedAt(h))
    BY DEF SeriesInv
  <2>2. CASE f = h
    BY <1>4, <1>9, <2>1, <2>2
  <2>3. CASE f # h
    BY <1>4, <1>7, <2>1, <2>3
  <2>4. QED
    BY <2>2, <2>3
<1>11. \A e, f \in Endpoint : assigned'[e] <= assigned'[f] + 1
  <2> SUFFICES ASSUME NEW e \in Endpoint, NEW f \in Endpoint PROVE assigned'[e] <= assigned'[f] + 1
    OBVIOUS
  <2>1. /\ assigned[e] \in Nat /\ assigned[f] \in Nat /\ assigned[h] \in Nat
        /\ assigned[e] <= assigned[f] + 1 /\ assigned[h] <= assigned[f] /\ assigned[h] <= assigned[e]
    BY <1>1 DEF SeriesInv
  <2>2. /\ e = h => assigned'[e] = assigned[h] + 1
        /\ e # h => assigned'[e] = assigned[e]
        /\ f = h => assigned'[f] = assigned[f] + 1
        /\ f # h => assigned'[f] = assigned[f]
    BY <1>4
  <2>3. QED
    BY <2>1, <2>2
<1>12. QED
  BY <1>2, <1>10, <1>11 DEF SeriesInv

\* Two of the three parts stay as they are.
LEMMA SeriesSame ==
  ASSUME SeriesInv, homes' = homes, assigned' = assigned
  PROVE  SeriesInv'
BY DEF SeriesInv, HomedAt

\* The record between requests.
LEMMA AwayType == /\ Away \in CallerRecord /\ Away.at = "away" /\ Away.next = 1
                  /\ Away.bases = << >> /\ \A m : CallerOK(Away, m)
<1>1. Away.at = "away" /\ Away.next = 1 /\ Away.bases = << >>
  BY DEF Away
<1>2. Away \in CallerRecord
  <2>1. 1 \in Nat /\ << >> \in Seq({"v1", "raw"})
    OBVIOUS
  <2>2. QED
    BY <2>1 DEF Away, CallerRecord
<1>3. \A e \in Endpoint : ~(e < 1)
  BY EndpointNumbers
<1>4. Len(<< >>) = 1 - 1
  OBVIOUS
<1>5. QED
  BY <1>1, <1>2, <1>3, <1>4 DEF CallerOK

\* A discovery begins or ends; those that ended are left alone.
LEMMA MemoMoves ==
  ASSUME ProbeInv, NEW e \in Endpoint, NEW v \in Callers \cup ResolvedEndpoints,
         memo[e] \notin ResolvedEndpoints, memo' = [memo EXCEPT ![e] = v], caller' = caller,
         probed' \in [Endpoint -> Nat], probed'[e] <= 1,
         \A f \in Endpoint \ {e} : probed'[f] = probed[f]
  PROVE  ProbeInv'
<1>1. memo \in [Endpoint -> {NotRun} \cup Callers \cup ResolvedEndpoints]
  BY DEF ProbeInv
<1>2. /\ memo' \in [Endpoint -> {NotRun} \cup Callers \cup ResolvedEndpoints]
      /\ memo'[e] = v /\ \A f \in Endpoint \ {e} : memo'[f] = memo[f]
  BY <1>1
<1>3. v # NotRun
  BY MarksAssumption
<1>4. \A f \in Endpoint : (memo'[f] = NotRun => probed'[f] = 0) /\ probed'[f] <= 1
  BY <1>2, <1>3 DEF ProbeInv
<1>5. \A f \in Endpoint : memo[f] \in ResolvedEndpoints => memo'[f] = memo[f]
  BY <1>2
<1>6. \A d \in Callers : CallerOK(caller[d], memo')
  BY <1>5 DEF ProbeInv, CallerOK
<1>7. QED
  BY <1>2, <1>4, <1>6 DEF ProbeInv

\* sync.Once.
LEMMA ProbingKeeps ==
  ASSUME ProbeInv, NEW c \in Callers, NEW e \in Endpoint, StartsProbe(c, e) \/ ProbeEnds(c, e)
  PROVE  ProbeInv'
<1>1. /\ probed \in [Endpoint -> Nat] /\ probed[e] <= 1
      /\ memo[e] = NotRun => probed[e] = 0
  BY DEF ProbeInv
<1>2. /\ NotRun \notin ResolvedEndpoints
      /\ \A x \in Callers : x \notin ResolvedEndpoints
  BY MarksAssumption
<1>3. CASE StartsProbe(c, e)
  <2>1. /\ memo[e] = NotRun /\ memo' = [memo EXCEPT ![e] = c] /\ caller' = caller
        /\ probed' = [probed EXCEPT ![e] = @ + 1]
    BY <1>3 DEF StartsProbe, Free
  <2>2. /\ probed' \in [Endpoint -> Nat] /\ probed'[e] = probed[e] + 1
        /\ \A f \in Endpoint \ {e} : probed'[f] = probed[f]
    BY <1>1, <2>1
  <2>3. probed'[e] <= 1
    BY <1>1, <2>1, <2>2
  <2>4. QED
    BY <1>2, <2>1, <2>2, <2>3, MemoMoves
<1>4. CASE ProbeEnds(c, e)
  <2>1. PICK r \in Discovered(e, caller[c].want) : memo' = [memo EXCEPT ![e] = r]
    BY <1>4 DEF ProbeEnds
  <2>2. r \in ResolvedEndpoints
    <3>1. CASE r \in [base : {"raw"}, model : IF caller[c].want /\ e = 1 THEN {"id", ""} ELSE {""}]
      <4>1. r = [base |-> r.base, model |-> r.model] /\ r.base = "raw" /\ r.model \in {"id", ""}
        BY <3>1
      <4>2. QED
        BY <4>1 DEF ResolvedEndpoints
    <3>2. CASE r = [base |-> "v1", model |-> "id"]
      BY <3>2 DEF ResolvedEndpoints
    <3>3. QED
      BY <3>1, <3>2 DEF Discovered
  <2>3. memo[e] = c /\ caller' = caller /\ probed' = probed
    BY <1>4 DEF ProbeEnds
  <2>4. QED
    BY <1>1, <1>2, <2>1, <2>2, <2>3, MemoMoves
<1>5. QED
  BY <1>3, <1>4

\* The memoised result is taken.
LEMMA TakingKeeps ==
  ASSUME ProbeInv, NEW c \in Callers, NEW e \in Endpoint, TakesResolved(c, e)
  PROVE  /\ ProbeInv'
         /\ \E r \in CallerRecord : r.at = caller[c].at /\ caller' = [caller EXCEPT ![c] = r]
<1>1. /\ caller \in [Callers -> CallerRecord] /\ caller[c] \in CallerRecord
      /\ CallerOK(caller[c], memo)
  BY DEF ProbeInv
<1>2. memo[e] \in ResolvedEndpoints
  BY DEF TakesResolved, Resolved, ProbeInv
<1>3. memo[e].base \in {"v1", "raw"} /\ memo[e].model \in {"id", ""}
  BY <1>2 DEF ResolvedEndpoints
<1> DEFINE b == Append(caller[c].bases, memo[e].base)
           m == IF e = 1 THEN memo[e].model ELSE caller[c].model
           r == [caller[c] EXCEPT !.bases = b, !.next = e + 1, !.model = m]
<1>4. /\ caller[c].at = "resolve" /\ caller[c].next = e
      /\ memo' = memo /\ probed' = probed /\ caller' = [caller EXCEPT ![c] = r]
  BY <1>1 DEF TakesResolved, Resolving
<1>5. e \in Nat /\ e + 1 \in Nat
  BY EndpointNumbers
<1>6. /\ caller[c].bases \in Seq({"v1", "raw"}) /\ Len(caller[c].bases) = e - 1
      /\ \A f \in Endpoint : f < e => memo[f] \in ResolvedEndpoints /\ caller[c].bases[f] = memo[f].base
  BY <1>1, <1>4 DEF CallerRecord, CallerOK
<1>7. /\ b \in Seq({"v1", "raw"}) /\ Len(b) = e /\ b[e] = memo[e].base
      /\ \A f \in 1..(e - 1) : b[f] = caller[c].bases[f]
  <2>1. ASSUME NEW q \in Seq({"v1", "raw"}), NEW x \in {"v1", "raw"}, NEW n \in Nat, Len(q) = n - 1
        PROVE  /\ Append(q, x) \in Seq({"v1", "raw"}) /\ Len(Append(q, x)) = n /\ Append(q, x)[n] = x
               /\ \A f \in 1..(n - 1) : Append(q, x)[f] = q[f]
    BY ONLY <2>1, q \in Seq({"v1", "raw"}), x \in {"v1", "raw"}, n \in Nat
  <2> DEFINE q == caller[c].bases
             x == memo[e].base
  <2>2. q \in Seq({"v1", "raw"}) /\ x \in {"v1", "raw"} /\ Len(q) = e - 1 /\ b = Append(q, x)
    BY <1>3, <1>6
  <2> HIDE DEF q, x, b
  <2>3. /\ Append(q, x) \in Seq({"v1", "raw"}) /\ Len(Append(q, x)) = e /\ Append(q, x)[e] = x
        /\ \A f \in 1..(e - 1) : Append(q, x)[f] = q[f]
    BY <1>5, <2>1, <2>2
  <2>4. QED
    BY <2>2, <2>3 DEF q, x
<1>8. m \in {"", "id", "given", "default"}
  BY <1>1, <1>3 DEF CallerRecord
<1> HIDE DEF b, m
<1>9. PICK k \in Nat : k = e + 1
  BY <1>5
<1>10. r = [caller[c] EXCEPT !.bases = b, !.next = k, !.model = m]
  BY <1>9
<1>11. /\ r \in CallerRecord /\ r.at = caller[c].at /\ r.next = k /\ r.bases = b
       /\ r.series = caller[c].series
  BY <1>1, <1>7, <1>8, <1>10 DEF CallerRecord
<1> HIDE DEF r
<1>12. CallerOK(r, memo)
  <2>1. Len(r.bases) = r.next - 1
    BY <1>5, <1>7, <1>9, <1>11
  <2>2. ASSUME NEW f \in Endpoint, f < r.next
        PROVE  memo[f] \in ResolvedEndpoints /\ r.bases[f] = memo[f].base
    <3>1. f \in Nat /\ f >= 1
      BY EndpointNumbers
    <3>2. f = e \/ (f < e /\ f \in 1..(e - 1))
      BY <1>5, <1>9, <1>11, <2>2, <3>1
    <3>3. QED
      BY <1>2, <1>6, <1>7, <1>11, <3>2
  <2>3. QED
    BY <1>1, <1>4, <1>11, <2>1, <2>2 DEF CallerOK
<1>13. QED
  BY <1>4, <1>11, <1>12, CallerMoves

\* A caller that goes on between requests, or to its home, with what it has resolved.
LEMMA CallerGoes ==
  ASSUME ProbeInv, FlightInv, NEW c \in Callers, NEW r \in CallerRecord,
         caller' = [caller EXCEPT ![c] = r], memo' = memo, probed' = probed, inFlight' = inFlight,
         caller[c].at # "sent", r.at # "sent", CallerOK(r, memo)
  PROVE  ProbeInv' /\ FlightInv'
<1>1. \A d \in Callers : caller'[d] = IF d = c THEN r ELSE caller[d]
  BY DEF ProbeInv
<1>2. ProbeInv'
  BY CallerMoves
<1>3. FlightInv'
  BY <1>1, FlightsSame
<1>4. QED
  BY <1>2, <1>3

\* The steps of one request that lead up to its home.
LEMMA LeadUpKeeps ==
  ASSUME EndpointsInv, NEW c \in Callers,
         \/ \E s \in SeriesNums, want \in BOOLEAN : AskFor(c, s, want)
         \/ ChoosesModel(c)
  PROVE  EndpointsInv'
<1>1. /\ ProbeInv /\ FlightInv /\ SeriesInv /\ caller \in [Callers -> CallerRecord]
      /\ caller[c] \in CallerRecord /\ CallerOK(caller[c], memo)
  BY DEF EndpointsInv, ProbeInv
<1>2. /\ memo' = memo /\ probed' = probed /\ homes' = homes
      /\ assigned' = assigned /\ inFlight' = inFlight
  BY DEF AskFor, ChoosesModel
<1>3. SeriesInv'
  BY <1>1, <1>2, SeriesSame
<1>4. ASSUME NEW s \in SeriesNums, NEW want \in BOOLEAN, AskFor(c, s, want)
      PROVE  ProbeInv' /\ FlightInv'
  <2> DEFINE r == [Away EXCEPT !.at = "resolve", !.want = want, !.series = s]
  <2>1. caller[c].at = "away" /\ caller' = [caller EXCEPT ![c] = r]
    BY <1>4 DEF AskFor
  <2>2. /\ r \in CallerRecord /\ r.at = "resolve" /\ r.series = s
        /\ r.bases = Away.bases /\ r.next = Away.next
    <3>1. ASSUME NEW a \in CallerRecord
          PROVE  LET q == [a EXCEPT !.at = "resolve", !.want = want, !.series = s]
                 IN  /\ q \in CallerRecord /\ q.at = "resolve" /\ q.series = s
                     /\ q.bases = a.bases /\ q.next = a.next
      BY DEF CallerRecord
    <3>2. QED
      BY <3>1, AwayType
  <2> HIDE DEF r
  <2>3. CallerOK(r, memo)
    BY <2>2, AwayType DEF CallerOK
  <2>4. QED
    BY <1>1, <1>2, <2>1, <2>2, <2>3, CallerGoes
<1>5. ASSUME ChoosesModel(c)
      PROVE  ProbeInv' /\ FlightInv'
  <2>1. PICK r \in CallerRecord :
          /\ caller' = [caller EXCEPT ![c] = r]
          /\ \/ r = Away
             \/ /\ r.at = "home" /\ r.series = caller[c].series
                /\ r.bases = caller[c].bases /\ r.next = caller[c].next
    <3> DEFINE a == caller[c]
               r1 == [a EXCEPT !.at = "home", !.model = "given"]
               r2 == [a EXCEPT !.at = "home"]
               r3 == [a EXCEPT !.at = "home", !.model = "default"]
    <3>1. /\ r1 \in CallerRecord /\ r2 \in CallerRecord /\ r3 \in CallerRecord
          /\ \A r \in {r1, r2, r3} : /\ r.at = "home" /\ r.series = a.series
                                     /\ r.bases = a.bases /\ r.next = a.next
      BY <1>1 DEF CallerRecord
    <3>2. \E r \in {Away, r1, r2, r3} : caller' = [caller EXCEPT ![c] = r]
      BY <1>1, <1>5 DEF ChoosesModel
    <3> HIDE DEF r1, r2, r3
    <3>3. QED
      BY <3>1, <3>2, AwayType
  <2>2. caller[c].at = "resolve"
    BY <1>5 DEF ChoosesModel
  <2>3. CallerOK(r, memo) /\ r.at # "sent"
    BY <1>1, <2>1, <2>2, AwayType DEF CallerOK
  <2>4. QED
    BY <1>1, <1>2, <2>1, <2>2, <2>3, CallerGoes
<1>6. QED
  BY <1>3, <1>4, <1>5 DEF EndpointsInv

\* HomeIndexForSeries.
LEMMA HomeKeeps ==
  ASSUME EndpointsInv, NEW c \in Callers, FindsHome(c)
  PROVE  EndpointsInv'
<1>1. /\ ProbeInv /\ FlightInv /\ SeriesInv /\ caller \in [Callers -> CallerRecord]
      /\ caller[c] \in CallerRecord /\ CallerOK(caller[c], memo)
  BY DEF EndpointsInv, ProbeInv
<1> DEFINE s == caller[c].series
           h == IF homes[s] # NoHome THEN homes[s] ELSE FewestSeries
           r == [caller[c] EXCEPT !.at = "pick", !.home = h]
<1>2. /\ caller[c].at = "home" /\ caller' = [caller EXCEPT ![c] = r]
      /\ memo' = memo /\ probed' = probed /\ inFlight' = inFlight
      /\ homes' = [homes EXCEPT ![s] = h]
      /\ assigned' = IF homes[s] # NoHome THEN assigned ELSE [assigned EXCEPT ![h] = @ + 1]
  BY <1>1 DEF FindsHome
<1>3. s \in SeriesNums
  BY <1>1, <1>2 DEF CallerOK
<1>4. homes[s] \in Endpoint \cup {NoHome} /\ homes \in [SeriesNums -> Endpoint \cup {NoHome}]
  BY <1>1, <1>3 DEF SeriesInv
<1>5. FewestSeries \in Endpoint /\ \A f \in Endpoint : assigned[FewestSeries] <= assigned[f]
  BY <1>1, FewestIsLeast
<1> HIDE DEF s
<1>6. h \in Endpoint
  BY <1>4, <1>5
<1>7. SeriesInv'
  <2>1. CASE homes[s] # NoHome
    <3>1. homes' = homes /\ assigned' = assigned
      BY <1>2, <1>3, <1>4, <2>1
    <3>2. QED
      BY <1>1, <3>1, SeriesSame
  <2>2. CASE homes[s] = NoHome
    <3>1. h = FewestSeries
      BY <2>2
    <3> HIDE DEF h
    <3>2. assigned' = [assigned EXCEPT ![h] = @ + 1] /\ \A f \in Endpoint : assigned[h] <= assigned[f]
      BY <1>2, <1>5, <2>2, <3>1
    <3>3. QED
      BY <1>1, <1>2, <1>3, <1>6, <2>2, <3>2, SeriesSettles
  <2>3. QED
    BY <2>1, <2>2
<1> HIDE DEF h
<1>8. /\ r \in CallerRecord /\ r.at = "pick" /\ r.home = h
      /\ r.bases = caller[c].bases /\ r.next = caller[c].next
  BY <1>1, <1>6 DEF CallerRecord
<1> HIDE DEF r
<1>9. CallerOK(r, memo)
  BY <1>1, <1>6, <1>8 DEF CallerOK
<1>10. ProbeInv' /\ FlightInv'
  BY <1>1, <1>2, <1>8, <1>9, CallerGoes
<1>11. QED
  BY <1>7, <1>10 DEF EndpointsInv

\* AcquireForRequest and ReleaseIndex.
LEMMA SendingKeeps ==
  ASSUME EndpointsInv, NEW c \in Callers, AcquireForRequest(c) \/ ReleaseIndex(c)
  PROVE  EndpointsInv'
<1>1. /\ ProbeInv /\ FlightInv /\ SeriesInv /\ caller \in [Callers -> CallerRecord]
      /\ caller[c] \in CallerRecord /\ CallerOK(caller[c], memo)
  BY DEF EndpointsInv, ProbeInv
<1>2. memo' = memo /\ probed' = probed /\ homes' = homes /\ assigned' = assigned
  BY DEF AcquireForRequest, ReleaseIndex
<1>3. SeriesInv'
  BY <1>1, <1>2, SeriesSame
<1>4. CASE AcquireForRequest(c)
  <2>1. PICK e \in PickLocked(caller[c].home) :
          /\ inFlight' = [inFlight EXCEPT ![e] = @ + 1]
          /\ caller' = [caller EXCEPT ![c].at = "sent", ![c].idx = e]
    BY <1>4 DEF AcquireForRequest
  <2>2. caller[c].at = "pick"
    BY <1>4 DEF AcquireForRequest
  <2>3. e \in Endpoint /\ inFlight[e] <= OverloadLimit
    BY <1>1, <2>2, PickedHasRoom
  <2> DEFINE r == [caller[c] EXCEPT !.at = "sent", !.idx = e]
  <2>4. /\ r \in CallerRecord /\ r.at = "sent" /\ r.idx = e
        /\ r.bases = caller[c].bases /\ r.next = caller[c].next
    BY <1>1, <2>3 DEF CallerRecord
  <2>5. caller' = [caller EXCEPT ![c] = r]
    BY <1>1, <2>1
  <2> HIDE DEF r
  <2>6. CallerOK(r, memo)
    BY <1>1, <2>3, <2>4 DEF CallerOK
  <2>7. ProbeInv'
    BY <1>1, <1>2, <2>4, <2>5, <2>6, CallerMoves
  <2>8. FlightInv'
    BY <1>1, <2>1, <2>2, <2>3, <2>4, <2>5, AcquireFlight
  <2>9. QED
    BY <1>3, <2>7, <2>8 DEF EndpointsInv
<1>5. CASE ReleaseIndex(c)
  <2>1. /\ caller[c].at = "sent" /\ caller' = [caller EXCEPT ![c] = Away]
        /\ inFlight' = [inFlight EXCEPT ![caller[c].idx] = @ - 1]
    BY <1>5 DEF ReleaseIndex
  <2>2. caller[c].idx \in Endpoint
    BY <1>1, <2>1 DEF CallerOK
  <2>3. Away \in CallerRecord /\ Away.at # "sent" /\ CallerOK(Away, memo)
    BY AwayType
  <2>4. ProbeInv'
    BY <1>1, <1>2, <2>1, <2>3, CallerMoves
  <2>5. FlightInv'
    BY <1>1, <2>1, <2>2, <2>3, ReleaseFlight
  <2>6. QED
    BY <1>3, <2>4, <2>5 DEF EndpointsInv
<1>6. QED
  BY <1>4, <1>5

\* The dynamic endpoints' promise for any number of callers, series and endpoints
\* (endpoint_discovery.go:106-113, endpoint_router.go:205-227): one discovery each, whose
\* result all share; exact in-flight counts that pass the limit by one request at most,
\* because the endpoints together have room for every caller; series spread evenly.
THEOREM EndpointsHold == EndpointsSpec => []EndpointsSound
<1>1. EndpointsInit => EndpointsInv
  <2> SUFFICES ASSUME EndpointsInit PROVE EndpointsInv
    OBVIOUS
  <2>1. caller \in [Callers -> CallerRecord] /\ \A c \in Callers : caller[c] = Away
    BY AwayType DEF EndpointsInit
  <2>2. ProbeInv
    BY <2>1, AwayType DEF EndpointsInit, ProbeInv
  <2>3. Cardinality({}) = 0
    BY FS_EmptySet
  <2>4. FlightInv
    <3>1. \A e \in Endpoint : SentTo(e) = {} /\ inFlight[e] = 0
      BY <2>1, AwayType DEF SentTo, EndpointsInit
    <3>2. inFlight \in [Endpoint -> Nat] /\ 0 <= OverloadLimit + 1
      BY RoomForAll DEF EndpointsInit
    <3>3. QED
      BY <2>3, <3>1, <3>2 DEF FlightInv
  <2>5. SeriesInv
    <3>1. \A e \in Endpoint : HomedAt(e) = {} /\ assigned[e] = 0
      BY MarksAssumption DEF HomedAt, EndpointsInit
    <3>2. assigned \in [Endpoint -> Nat] /\ homes \in [SeriesNums -> Endpoint \cup {NoHome}]
      BY DEF EndpointsInit
    <3>3. \A e, f \in Endpoint : assigned[e] <= assigned[f] + 1
      BY <3>1
    <3>4. \A e \in Endpoint : assigned[e] = Cardinality(HomedAt(e))
      BY <2>3, <3>1
    <3>5. QED
      BY <3>2, <3>3, <3>4 DEF SeriesInv
  <2>6. QED
    BY <2>2, <2>4, <2>5 DEF EndpointsInv
<1>2. EndpointsInv /\ [EndpointsNext]_endpointVars => EndpointsInv'
  <2> SUFFICES ASSUME EndpointsInv, [EndpointsNext]_endpointVars PROVE EndpointsInv'
    OBVIOUS
  <2>1. ProbeInv /\ FlightInv /\ SeriesInv /\ caller \in [Callers -> CallerRecord]
    BY DEF EndpointsInv, ProbeInv
  <2>2. CASE UNCHANGED endpointVars
    <3>1. UNCHANGED << caller, memo, probed, homes, assigned, inFlight >>
      BY <2>2 DEF endpointVars
    <3>2. ProbeInv'
      BY <2>1, <3>1 DEF ProbeInv
    <3>3. QED
      BY <2>1, <3>1, <3>2, FlightsSame, SeriesSame DEF EndpointsInv
  <2>3. ASSUME NEW c \in Callers, NEW e \in Endpoint,
               StartsProbe(c, e) \/ ProbeEnds(c, e) \/ TakesResolved(c, e)
        PROVE  EndpointsInv'
    <3>1. homes' = homes /\ assigned' = assigned /\ inFlight' = inFlight
      BY <2>3 DEF StartsProbe, ProbeEnds, TakesResolved
    <3>2. CASE StartsProbe(c, e) \/ ProbeEnds(c, e)
      <4>1. caller' = caller
        BY <3>2 DEF StartsProbe, ProbeEnds
      <4>2. QED
        BY <2>1, <3>1, <3>2, <4>1, ProbingKeeps, FlightsSame, SeriesSame DEF EndpointsInv
    <3>3. CASE TakesResolved(c, e)
      <4>1. PICK r \in CallerRecord : r.at = caller[c].at /\ caller' = [caller EXCEPT ![c] = r]
        BY <2>1, <3>3, TakingKeeps
      <4>2. caller[c].at = "resolve"
        BY <3>3 DEF TakesResolved, Resolving
      <4>3. \A d \in Callers : caller'[d] = IF d = c THEN r ELSE caller[d]
        BY <2>1, <4>1
      <4>4. FlightInv'
        BY <2>1, <3>1, <4>1, <4>2, <4>3, FlightsSame
      <4>5. ProbeInv'
        BY <2>1, <3>3, TakingKeeps
      <4>6. QED
        BY <2>1, <3>1, <4>4, <4>5, SeriesSame DEF EndpointsInv
    <3>4. QED
      BY <2>3, <3>2, <3>3
  <2>4. QED
    BY <2>2, <2>3, LeadUpKeeps, HomeKeeps, SendingKeeps DEF EndpointsNext
<1>3. EndpointsInv => EndpointsSound
  BY DEF EndpointsInv, ProbeInv, FlightInv, SeriesInv, CallerOK, SentTo, HomedAt, EndpointsSound
<1>4. QED
  BY <1>1, <1>2, <1>3, PTL DEF EndpointsSpec

----------------------------------------------------------------------------
(* The engines' counters. *)

\* A reading, or none.
Readings == Nat \cup {NotSeen}

CountersType ==
  /\ counter \in [Endpoints -> Nat] /\ work \in [Endpoints -> Nat]
  /\ inRegistry \subseteq Endpoints /\ asked \subseteq Endpoints
  /\ prev \in [Endpoints -> Readings]
  /\ results # NotSeen => results \in [asked -> Readings \cup {-1}]

\* Of the work w that a total does not yet hold, a counter last read as p can still
\* bring in what it has gone up by since, or, after a restart, all it shows.
Covers(w, p, k) ==
  /\ w \in Nat
  /\ w >= k \/ (p # NotSeen /\ p <= k /\ w >= k - p)

\* The cycle under way has a reading of the endpoint.
Reads(e) == results # NotSeen /\ e \in asked /\ results[e] \in Nat

\* What the total holds of an endpoint is work it did, and so is what the reading of
\* the cycle under way will add.
Credited(e, c) ==
  /\ c \in Nat /\ Covers(work[e] - c, prev[e], counter[e])
  /\ Reads(e) => Covers(work[e] - c - Adds(e), results[e], counter[e])

CreditInv ==
  forgotten = {} => \E c \in [Endpoints -> Nat] :
    total = SumOver(c, Endpoints) /\ \A e \in Endpoints : Credited(e, c[e])

\* A reading that is covered adds a number, and no more than the work there is.
LEMMA CoveredReading ==
  ASSUME NEW w \in Nat, NEW p \in Readings, NEW k \in Nat, Covers(w, p, k)
  PROVE  LET d == IF p = NotSeen \/ k < p THEN k ELSE k - p
         IN  d \in Nat /\ Covers(w - d, k, k)
<1>1. NotSeen \notin Nat /\ k # NotSeen
  BY EndpointsFinite
<1>2. CASE p = NotSeen \/ k < p
  BY <1>1, <1>2 DEF Covers, Readings
<1>3. CASE p # NotSeen /\ ~(k < p)
  BY <1>1, <1>3 DEF Covers, Readings
<1>4. QED
  BY <1>1, <1>2, <1>3 DEF Readings

\* One more unit of work on a counter that has one more.
LEMMA CoversMore ==
  ASSUME NEW w \in Int, NEW p \in Readings, NEW k \in Nat, Covers(w, p, k)
  PROVE  Covers(w + 1, p, k + 1)
<1>1. CASE p = NotSeen
  BY <1>1 DEF Covers
<1>2. CASE p \in Nat
  BY <1>2 DEF Covers
<1>3. QED
  BY <1>1, <1>2 DEF Readings

\* The books are empty at first.
LEMMA CountersInitOK == CountersInit => CountersType /\ CreditInv
<1> SUFFICES ASSUME CountersInit PROVE CountersType /\ CreditInv
  OBVIOUS
<1>1. CountersType
  BY DEF CountersInit, CountersType, Readings
<1> DEFINE c == [e \in Endpoints |-> 0]
<1>2. SumOver(c, Endpoints) = 0
  BY EndpointsFinite, SumOfZeros
<1>3. c \in [Endpoints -> Nat] /\ \A e \in Endpoints : Credited(e, c[e])
  BY DEF CountersInit, Credited, Covers, Reads
<1>4. CreditInv
  BY <1>2, <1>3 DEF CountersInit, CreditInv
<1>5. QED
  BY <1>1, <1>4

\* What a whole cycle adds is a sum of the readings' shares.
LEMMA AddsTotal ==
  ASSUME NEW S, IsFiniteSet(S)
  PROVE  MapThenSumSet(Adds, S) = SumOver([e \in S |-> Adds(e)], S)
<1> DEFINE f == [i \in S |-> Adds(i)]
           K(it) == [s \in SUBSET S |-> IF s = {} THEN 0 ELSE Adds(First(s)) + it[s \ {First(s)}]]
           h == [s \in SUBSET S |-> Iter(f, S)[s]]
           it0 == CHOOSE it : it = K(it)
<1>1. \A s \in SUBSET S : Iter(f, S)[s] = Folded(f, Iter(f, S), s)
  <2> HIDE DEF f
  <2>1. QED
    BY IterFolds
<1>2. \A s \in SUBSET S : s # {} => First(s) \in S /\ s \ {First(s)} \in SUBSET S
  BY DEF First
<1>3. h = K(h)
  BY <1>1, <1>2 DEF Folded
<1>4. it0 = K(it0)
  <2> HIDE DEF h, K
  <2>1. QED
    BY <1>3
<1>5. \A s \in SUBSET S : it0[s] = Folded(f, it0, s)
  <2> HIDE DEF it0
  <2>1. QED
    BY <1>2, <1>4 DEF Folded
<1>6. it0[S] = SumOver(f, S)
  <2> HIDE DEF it0, f
  <2>1. QED
    BY <1>5, FoldIsSum
<1>7. MapThenSumSet(Adds, S) = it0[S]
  BY DEF MapThenSumSet, MapThenFoldSet, First
<1>8. QED
  BY <1>6, <1>7

\* The types hold in every step.
LEMMA CountersTypeStep ==
  ASSUME CountersType, [CountersNext]_counterVars
  PROVE  CountersType'
<1> USE DEF CountersType, world, books
<1>1. CASE UNCHANGED counterVars
  BY <1>1 DEF counterVars
<1>2. ASSUME NEW e \in Endpoints, Count(e) \/ Restart(e) \/ JoinOrLeave(e) \/ Retire(e)
      PROVE  /\ counter' \in [Endpoints -> Nat] /\ work' \in [Endpoints -> Nat]
             /\ inRegistry' \subseteq Endpoints
             /\ UNCHANGED << asked, prev, results >>
  BY <1>2 DEF Count, Restart, JoinOrLeave, Retire
<1>3. CASE StartCycle
  BY <1>3 DEF StartCycle, Readings
<1>4. ASSUME NEW e \in Endpoints, NEW ok \in BOOLEAN, Scrape(e, ok)
      PROVE  results' \in [asked -> Readings \cup {-1}] /\ UNCHANGED << world, prev, asked >>
  BY <1>4 DEF Scrape, Readings
<1>5. CASE Fold
  <2>1. \A e \in Endpoints : Gave(e) => results[e] \in Readings
    BY <1>5 DEF Fold, Gave, Readings
  <2>2. prev' \in [Endpoints -> Readings]
    BY <1>5, <2>1 DEF Fold, Readings
  <2>3. QED
    BY <1>5, <2>2 DEF Fold
<1>6. QED
  BY <1>1, <1>2, <1>3, <1>4, <1>5 DEF CountersNext

\* The share of one endpoint, when the fleet moves.
LEMMA CreditMoves ==
  ASSUME CountersType, NEW e \in Endpoints, NEW c, Credited(e, c),
         UNCHANGED << prev, results, asked >>,
         \/ work'[e] = work[e] /\ counter'[e] = counter[e]
         \/ work'[e] = work[e] + 1 /\ counter'[e] = counter[e] + 1
         \/ work'[e] = work[e] /\ counter'[e] = 0
  PROVE  Credited(e, c)'
<1> DEFINE w == work[e] - c
           k == counter[e]
           d == Adds(e)
<1>1. c \in Nat /\ w \in Nat /\ k \in Nat /\ work[e] \in Nat /\ prev[e] \in Readings /\ c' = c
  BY DEF CountersType, Credited, Covers
<1>2. \A v \in Int, p \in Readings : Covers(v, p, k) => Covers(v, p, 0) /\ Covers(v + 1, p, k + 1)
  <2> SUFFICES ASSUME NEW v \in Int, NEW p \in Readings, Covers(v, p, k)
               PROVE  Covers(v, p, 0) /\ Covers(v + 1, p, k + 1)
    OBVIOUS
  <2>1. Covers(v, p, 0)
    BY DEF Covers
  <2> HIDE DEF k
  <2>2. QED
    BY <1>1, <2>1, CoversMore
<1>3. Adds(e)' = d
  BY DEF Adds, Delta
<1>4. Covers(work'[e] - c, prev[e], counter'[e])
  <2>1. Covers(w, prev[e], k)
    BY DEF Credited
  <2>2. work'[e] - c = w \/ work'[e] - c = w + 1
    BY <1>1
  <2>3. QED
    BY <1>1, <1>2, <2>1
<1>5. ASSUME Reads(e)
      PROVE  Covers(work'[e] - c - d, results[e], counter'[e])
  <2>1. Covers(w - d, results[e], k)
    BY <1>5 DEF Credited
  <2>2. results[e] \in Readings
    BY <1>5 DEF Reads, Readings
  <2>3. d \in Int
    BY <1>1, <1>5, <2>2 DEF Adds, Delta, Reads, Readings
  <2> HIDE DEF d
  <2>4. w - d \in Int /\ (w + 1) - d = (w - d) + 1
    BY <1>1, <2>3
  <2>5. Covers(w - d, results[e], 0) /\ Covers((w + 1) - d, results[e], k + 1)
    BY <1>2, <2>1, <2>2, <2>4
  <2>6. (work'[e] - c = w /\ counter'[e] \in {k, 0}) \/ (work'[e] - c = w + 1 /\ counter'[e] = k + 1)
    BY <1>1
  <2>7. QED
    BY <2>1, <2>5, <2>6
<1>6. results' = results /\ (Reads(e)' <=> Reads(e))
  BY DEF Reads
<1>7. QED
  BY <1>1, <1>3, <1>4, <1>5, <1>6 DEF Credited

\* The books stay covered in every step; a cycle that reads an endpoint moves its
\* share by what the reading adds.
LEMMA CreditStep ==
  ASSUME CountersType, CreditInv, [CountersNext]_counterVars
  PROVE  CreditInv'
<1> SUFFICES ASSUME forgotten' = {}
             PROVE  \E c \in [Endpoints -> Nat] :
                      total' = SumOver(c, Endpoints) /\ \A e \in Endpoints : Credited(e, c[e])'
  BY DEF CreditInv
<1>1. forgotten = {}
  <2>1. forgotten \subseteq forgotten'
    BY DEF CountersNext, counterVars, world, books, Count, Restart, JoinOrLeave, Retire, StartCycle,
           Scrape, Fold
  <2>2. QED
    BY <2>1
<1>2. PICK c \in [Endpoints -> Nat] :
        total = SumOver(c, Endpoints) /\ \A e \in Endpoints : Credited(e, c[e])
  BY <1>1 DEF CreditInv
<1>3. CASE /\ UNCHANGED << total, prev, results, asked >>
           /\ \A e \in Endpoints :
                \/ work'[e] = work[e] /\ counter'[e] = counter[e]
                \/ work'[e] = work[e] + 1 /\ counter'[e] = counter[e] + 1
                \/ work'[e] = work[e] /\ counter'[e] = 0
  <2>1. \A e \in Endpoints : Credited(e, c[e])'
    BY <1>2, <1>3, CreditMoves
  <2>2. QED
    BY <1>2, <1>3, <2>1
<1>4. CASE UNCHANGED counterVars
  BY <1>3, <1>4 DEF counterVars
<1>5. ASSUME NEW e \in Endpoints, Count(e) \/ Restart(e) \/ JoinOrLeave(e) \/ Retire(e)
      PROVE  /\ UNCHANGED << total, prev, results, asked >>
             /\ \A x \in Endpoints :
                  \/ work'[x] = work[x] /\ counter'[x] = counter[x]
                  \/ work'[x] = work[x] + 1 /\ counter'[x] = counter[x] + 1
                  \/ work'[x] = work[x] /\ counter'[x] = 0
  BY <1>5 DEF Count, Restart, JoinOrLeave, Retire, CountersType, world, books
<1>6. CASE StartCycle
  <2>1. UNCHANGED << total, prev, work, counter >>
        /\ \A e \in Endpoints : ~Reads(e)'
    BY <1>6, EndpointsFinite DEF StartCycle, Reads, world, books
  <2>2. \A e \in Endpoints : Credited(e, c[e])'
    BY <1>2, <2>1 DEF Credited
  <2>3. QED
    BY <1>2, <2>1, <2>2
<1>7. ASSUME NEW x \in Endpoints, NEW ok \in BOOLEAN, Scrape(x, ok)
      PROVE  \A e \in Endpoints : Credited(e, c[e])'
  <2> SUFFICES ASSUME NEW e \in Endpoints PROVE Credited(e, c[e])'
    OBVIOUS
  <2> DEFINE w == work[e] - c[e]
             k == counter[e]
  <2>1. /\ UNCHANGED << total, prev, work, counter, asked >>
        /\ results' = [results EXCEPT ![x] = IF ok THEN counter[x] ELSE -1]
        /\ results # NotSeen /\ x \in asked /\ results \in [asked -> Readings \cup {-1}]
    BY <1>7 DEF Scrape, world, books, CountersType
  <2>2. c[e] \in Nat /\ w \in Nat /\ k \in Nat /\ prev[e] \in Readings /\ Covers(w, prev[e], k)
    BY <1>2 DEF CountersType, Credited, Covers
  <2>3. ASSUME Reads(e)' PROVE Covers(w - Adds(e)', results'[e], k)
    <3>1. CASE e # x
      <4>1. results'[e] = results[e] /\ Reads(e)
        BY <2>1, <2>3, <3>1 DEF Reads
      <4>2. Adds(e)' = Adds(e)
        BY <2>1, <4>1 DEF Adds, Delta
      <4>3. QED
        BY <1>2, <4>1, <4>2 DEF Credited
    <3>2. CASE e = x
      <4>1. results'[e] = k
        BY <2>1, <2>3, <3>2 DEF Reads
      <4>2. Adds(e)' = IF prev[e] = NotSeen \/ k < prev[e] THEN k ELSE k - prev[e]
        BY <2>1, <4>1 DEF Adds, Delta
      <4> HIDE DEF w, k
      <4>3. Covers(w - Adds(e)', k, k)
        BY <2>2, <4>2, CoveredReading
      <4>4. QED
        BY <4>1, <4>3
    <3>3. QED
      BY <3>1, <3>2
  <2>4. QED
    BY <2>1, <2>2, <2>3 DEF Credited
<1>8. CASE Fold
  <2> DEFINE read == {e \in Endpoints : Gave(e)}
  <2>1. /\ total' = total + MapThenSumSet(Adds, read)
        /\ results # NotSeen /\ (\A e \in asked : results[e] # NotSeen)
        /\ results' = NotSeen /\ UNCHANGED << work, counter >>
        /\ prev' = [e \in Endpoints |->
                      IF e \in read THEN results[e] ELSE IF Aged(e) THEN NotSeen ELSE prev[e]]
        /\ forgotten' = forgotten \cup {e \in Endpoints : Aged(e)}
    BY <1>8 DEF Fold, world
  <2>2. results \in [asked -> Readings \cup {-1}] /\ asked \subseteq Endpoints
    BY <2>1 DEF CountersType
  <2>3. ASSUME NEW e \in Endpoints
        PROVE  /\ e \notin read => prev'[e] = prev[e]
               /\ e \in read => Reads(e) /\ prev'[e] = results[e]
    <3>1. ~Aged(e)
      BY <2>1
    <3>2. e \in read => results[e] \in Nat
      BY <2>1, <2>2 DEF Gave, Readings
    <3>3. QED
      BY <2>1, <3>1, <3>2 DEF Reads, Gave
  <2>4. \A e \in read : Adds(e) \in Nat
    BY <2>3 DEF Adds, Delta, Reads, CountersType, Readings
  <2>5. PICK adds \in [Endpoints -> Nat] :
          \A e \in Endpoints : adds[e] = IF e \in read THEN Adds(e) ELSE 0
    <3> DEFINE a == [e \in Endpoints |-> IF e \in read THEN Adds(e) ELSE 0]
    <3>1. a \in [Endpoints -> Nat]
      BY <2>4
    <3>2. QED
      BY <3>1
  <2> HIDE DEF read
  <2>6. PICK c1 \in [Endpoints -> Nat] : \A e \in Endpoints : c1[e] = c[e] + adds[e]
    <3> DEFINE a == [e \in Endpoints |-> c[e] + adds[e]]
    <3>1. a \in [Endpoints -> Nat]
      OBVIOUS
    <3>2. QED
      BY <3>1
  <2>7. ASSUME NEW e \in Endpoints PROVE Credited(e, c1[e])'
    <3>1. /\ Credited(e, c[e]) /\ adds[e] \in Nat /\ c[e] \in Nat /\ work[e] \in Nat
          /\ c1[e] \in Nat /\ work[e] - c1[e] = (work[e] - c[e]) - adds[e]
      BY <1>2, <2>6 DEF CountersType
    <3>2. Covers(work[e] - c1[e], prev'[e], counter[e])
      <4>1. CASE e \in read
        BY <2>3, <2>5, <3>1, <4>1 DEF Credited
      <4>2. CASE e \notin read
        <5>1. work[e] - c1[e] = work[e] - c[e]
          BY <2>5, <3>1, <4>2
        <5>2. QED
          BY <2>3, <3>1, <4>2, <5>1 DEF Credited
      <4>3. QED
        BY <4>1, <4>2
    <3>3. ~Reads(e)'
      BY <2>1 DEF Reads
    <3>4. QED
      BY <2>1, <3>1, <3>2, <3>3 DEF Credited
  <2>8. total' = SumOver(c1, Endpoints)
    <3>1. IsFiniteSet(read) /\ read \in SUBSET Endpoints
      BY EndpointsFinite, FS_Subset DEF read
    <3> DEFINE mine == [e \in read |-> Adds(e)]
    <3>2. MapThenSumSet(Adds, read) = SumOver(mine, read)
      BY <3>1, AddsTotal
    <3>3. \A e \in read : mine[e] = adds[e]
      BY <2>5, <3>1
    <3> HIDE DEF mine
    <3>4. \A e \in Endpoints : adds[e] \in Int /\ c[e] \in Int /\ c1[e] = c[e] + adds[e]
      BY <2>6
    <3>5. /\ \A e \in Endpoints : adds[e] \in Int
          /\ \A e \in Endpoints \ read : adds[e] = 0
      BY <2>5
    <3>6. SumOver(mine, read) = SumOver(adds, read)
      BY <3>1, <3>3, SumAgrees
    <3>7. SumOver(adds, Endpoints) = SumOver(adds, read)
      BY <3>1, <3>5, EndpointsFinite, SumSkips
    <3>8. \A e \in Endpoints : c[e] \in Int /\ adds[e] \in Int /\ c1[e] = c[e] + adds[e]
      BY <3>4
    <3>9. SumOver(c1, Endpoints) = SumOver(c, Endpoints) + SumOver(adds, Endpoints)
      BY <3>8, EndpointsFinite, SumAdds
    <3>10. QED
      BY <1>2, <2>1, <3>2, <3>6, <3>7, <3>9
  <2>9. QED
    BY <2>7, <2>8
<1>9. QED
  <2>1. ASSUME NEW x \in Endpoints, NEW ok \in BOOLEAN, Scrape(x, ok)
        PROVE  total' = total
    BY <2>1 DEF Scrape, books
  <2>2. QED
    BY <1>2, <1>3, <1>4, <1>5, <1>6, <1>7, <1>8, <2>1 DEF CountersNext

\* The totals never say more than the engines did, for any number of engines that
\* count, restart, leave and return while a cycle reads them one by one, as long as
\* none was forgotten and read again (vllmmetrics.go:275-324).
THEOREM NothingCountedTwice == CountersSpec => []NothingTwice
<1>1. CountersType /\ CreditInv /\ [CountersNext]_counterVars => CountersType' /\ CreditInv'
  BY CountersTypeStep, CreditStep
<1>2. CountersType /\ CreditInv => NothingTwice
  <2> SUFFICES ASSUME CountersType, CreditInv, forgotten = {} PROVE total <= Work
    BY DEF NothingTwice
  <2>1. PICK c \in [Endpoints -> Nat] :
          total = SumOver(c, Endpoints) /\ \A e \in Endpoints : Credited(e, c[e])
    BY DEF CreditInv
  <2>2. \A e \in Endpoints : c[e] \in Int /\ work[e] \in Int /\ c[e] <= work[e]
    BY <2>1 DEF Credited, Covers, CountersType
  <2>3. Work = SumOver(work, Endpoints)
    BY DEF Work, SumOver
  <2>4. QED
    BY <2>1, <2>2, <2>3, EndpointsFinite, SumGrows
<1>3. QED
  BY CountersInitOK, <1>1, <1>2, PTL DEF CountersSpec

----------------------------------------------------------------------------
(* The series of the backends. *)

Tracking == [n : 1..MaxObjects, since : Nat \cup {Nil}]

SeriesType ==
  /\ live \in [Keys -> 1..MaxObjects \cup {Nil}]
  /\ requests \in [Keys \X (1..MaxObjects) -> Nat \cup {Nil}]
  /\ tracked \in [Keys -> Tracking \cup {Nil}]

\* Objects that are registered or remembered have been counted for.
CountedInv ==
  \A k \in Keys : /\ live[k] # Nil => requests[<< k, live[k] >>] # Nil
                  /\ tracked[k] # Nil => requests[<< k, tracked[k].n >>] # Nil

\* What the remembered object of a key has been sent by now, and the keys of a label.
Tally(k) == IF tracked[k] = Nil THEN 0 ELSE requests[<< k, tracked[k].n >>]
KeysOf(l) == {k \in Keys : k[2] = l}
Tallies(l) == SumOver([k \in KeysOf(l) |-> Tally(k)], KeysOf(l))

\* What was exported is not more than that.
ExportedInv == \A l \in SeriesLabels : out[l] # Nil => out[l] \in Nat /\ out[l] <= Tallies(l)

ScrapeInv ==
  SeriesType /\ CountedInv /\ out \in [SeriesLabels -> Nat \cup {Nil}] /\ ExportedInv

\* Finitely many keys, of two parts each.
LEMMA KeysFinite ==
  /\ IsFiniteSet(Keys)
  /\ \A l \in SeriesLabels : IsFiniteSet(KeysOf(l)) /\ KeysOf(l) \in SUBSET Keys
<1>1. IsFiniteSet(Keys)
  BY SeriesAssumption, FS_Product DEF Keys
<1>2. QED
  BY <1>1, FS_Subset DEF KeysOf

\* A remembered object's count is a number.
LEMMA TallyType ==
  ASSUME SeriesType, CountedInv, NEW k \in Keys
  PROVE  Tally(k) \in Nat
<1>1. CASE tracked[k] # Nil
  <2>1. tracked[k] \in Tracking
    BY <1>1 DEF SeriesType
  <2>2. << k, tracked[k].n >> \in Keys \X (1..MaxObjects)
    BY <2>1 DEF Tracking
  <2>3. QED
    BY <1>1, <2>2 DEF SeriesType, CountedInv, Tally
<1>2. QED
  BY <1>1 DEF Tally

\* So is a label's total.
LEMMA TalliesType ==
  ASSUME SeriesType, CountedInv, NEW l \in SeriesLabels
  PROVE  Tallies(l) \in Nat
<1> DEFINE K == KeysOf(l)
           f == [k \in K |-> Tally(k)]
<1>1. IsFiniteSet(K) /\ \A k \in K : f[k] \in Nat
  BY KeysFinite, TallyType
<1> HIDE DEF f, K
<1>2. Iter(f, K)[K] \in Nat
  BY <1>1, IterType
<1>3. QED
  BY <1>2, SumIsIter DEF Tallies, f, K

\* Tallies that do not fall, of a label.
LEMMA TalliesGrow ==
  ASSUME SeriesType, CountedInv, SeriesType', CountedInv', NEW l \in SeriesLabels,
         \A k \in Keys : Tally(k) <= Tally(k)'
  PROVE  Tallies(l) <= Tallies(l)' /\ Tallies(l) \in Nat /\ Tallies(l)' \in Nat
<1> DEFINE K == KeysOf(l)
           f == [k \in K |-> Tally(k)]
           g == [k \in K |-> Tally(k)']
<1>1. IsFiniteSet(K) /\ K \in SUBSET Keys
  BY KeysFinite
<1>2. \A k \in Keys : Tally(k) \in Nat
  BY TallyType
<1>3. \A k \in Keys : Tally(k)' \in Nat
  <2> SUFFICES ASSUME NEW k \in Keys PROVE Tally(k)' \in Nat
    OBVIOUS
  <2>1. CASE tracked'[k] # Nil
    <3>1. tracked'[k] \in Tracking
      BY <2>1 DEF SeriesType
    <3>2. << k, tracked'[k].n >> \in Keys \X (1..MaxObjects)
      BY <3>1 DEF Tracking
    <3>3. QED
      BY <2>1, <3>2 DEF SeriesType, CountedInv, Tally
  <2>2. QED
    BY <2>1 DEF Tally
<1>4. \A k \in K : f[k] \in Nat /\ g[k] \in Nat /\ f[k] <= g[k]
  BY <1>1, <1>2, <1>3
<1>5. Tallies(l) = SumOver(f, K) /\ Tallies(l)' = SumOver(g, K)
  BY DEF Tallies, KeysOf, Keys
<1> HIDE DEF f, g, K
<1>6. SumOver(f, K) <= SumOver(g, K) /\ SumOver(f, K) \in Nat /\ SumOver(g, K) \in Nat
  <2>1. K \in SUBSET K
    OBVIOUS
  <2>2. QED
    BY <1>1, <1>4, <2>1, SumAtMost
<1>7. QED
  BY <1>5, <1>6

\* What a scrape adds up for a label is a sum of the entries' shares.
LEMMA AddingTotal ==
  ASSUME NEW S, IsFiniteSet(S)
  PROVE  MapThenSumSet(Adding, S) = SumOver([k \in S |-> Adding(k)], S)
<1> DEFINE f == [k \in S |-> Adding(k)]
           K(it) == [s \in SUBSET S |-> IF s = {} THEN 0 ELSE Adding(First(s)) + it[s \ {First(s)}]]
           h == [s \in SUBSET S |-> Iter(f, S)[s]]
           it0 == CHOOSE it : it = K(it)
<1>1. \A s \in SUBSET S : Iter(f, S)[s] = Folded(f, Iter(f, S), s)
  <2> HIDE DEF f
  <2>1. QED
    BY IterFolds
<1>2. \A s \in SUBSET S : s # {} => First(s) \in S /\ s \ {First(s)} \in SUBSET S
  BY DEF First
<1>3. h = K(h)
  BY <1>1, <1>2 DEF Folded
<1>4. it0 = K(it0)
  <2> HIDE DEF h, K
  <2>1. QED
    BY <1>3
<1>5. \A s \in SUBSET S : it0[s] = Folded(f, it0, s)
  <2> HIDE DEF it0
  <2>1. QED
    BY <1>2, <1>4 DEF Folded
<1>6. it0[S] = SumOver(f, S)
  <2> HIDE DEF it0, f
  <2>1. QED
    BY <1>5, FoldIsSum
<1>7. MapThenSumSet(Adding, S) = it0[S]
  BY DEF MapThenSumSet, MapThenFoldSet, First
<1>8. QED
  BY <1>6, <1>7

\* The entry a scrape leaves is of an object that has been counted for.
LEMMA EntryCounted ==
  ASSUME SeriesType, CountedInv, NEW k \in Keys
  PROVE  /\ Entry(k) \in Tracking \cup {Nil}
         /\ Entry(k) # Nil => requests[<< k, Entry(k).n >>] \in Nat
<1> DEFINE t == IF live[k] # Nil /\ (tracked[k] = Nil \/ tracked[k].n # live[k])
                THEN [n |-> live[k], since |-> Nil] ELSE tracked[k]
<1>1. t \in Tracking \cup {Nil} /\ (t # Nil => requests[<< k, t.n >>] # Nil)
  BY DEF SeriesType, CountedInv, Tracking
<1>2. Entry(k) \in {Nil, t} \/ (t # Nil /\ \E d \in {Nil, 0} : Entry(k) = [t EXCEPT !.since = d])
  BY DEF Entry
<1> HIDE DEF t
<1>3. Entry(k) \in Tracking \cup {Nil} /\ (Entry(k) # Nil => t # Nil /\ Entry(k).n = t.n)
  BY <1>1, <1>2 DEF Tracking
<1>4. Entry(k) # Nil => << k, t.n >> \in Keys \X (1..MaxObjects)
  BY <1>1, <1>3 DEF Tracking
<1>5. QED
  BY <1>1, <1>3, <1>4 DEF SeriesType

\* A scrape writes down no more than the tallies, and no less than what is reported.
LEMMA ScrapeAddsUp ==
  ASSUME SeriesType, CountedInv, Collect, NEW l \in SeriesLabels, out'[l] # Nil
  PROVE  /\ out'[l] \in Nat /\ out'[l] <= Tallies(l)'
         /\ (\A k \in KeysOf(l) : tracked[k] # Nil =>
               Reported(tracked'[k]) /\ tracked'[k].n = tracked[k].n) => Tallies(l) <= out'[l]
<1> DEFINE K == KeysOf(l)
           ks == {k \in K : Reported(Entry(k))}
           a == [k \in ks |-> Adding(k)]
           f == [k \in K |-> Tally(k)]
           g == [k \in K |-> Tally(k)']
<1>1. IsFiniteSet(K) /\ K \in SUBSET Keys /\ ks \in SUBSET K /\ IsFiniteSet(ks)
  BY KeysFinite, FS_Subset
<1>2. \A k \in Keys : tracked'[k] = Entry(k) /\ requests' = requests
  BY DEF Collect
<1>3. \A k \in K : f[k] \in Nat /\ g[k] \in Nat
  <2>1. \A k \in K : Tally(k) \in Nat
    BY <1>1, TallyType
  <2>2. \A k \in K : Tally(k)' \in Nat
    BY <1>1, <1>2, EntryCounted DEF Tally
  <2>3. QED
    BY <2>1, <2>2
<1>4. \A k \in ks : a[k] = g[k]
  BY <1>1, <1>2 DEF Tally, Adding, RoutedTo, Reported
<1>5. out'[l] = SumOver(a, ks)
  <2>1. ks = {k \in Keys : k[2] = l /\ Reported(Entry(k))}
    BY DEF KeysOf
  <2>2. out'[l] = Exported(l)
    BY DEF Collect
  <2>3. out'[l] = MapThenSumSet(Adding, ks)
    BY <2>1, <2>2 DEF Exported
  <2>4. QED
    BY <1>1, <2>3, AddingTotal
<1>6. Tallies(l) = SumOver(f, K) /\ Tallies(l)' = SumOver(g, K)
  BY DEF Tallies, KeysOf, Keys
<1> DEFINE holds == \A k \in KeysOf(l) : tracked[k] # Nil =>
                      Reported(tracked'[k]) /\ tracked'[k].n = tracked[k].n
<1>7. holds => \A k \in K : f[k] = 0 \/ (k \in ks /\ f[k] <= g[k])
  <2> SUFFICES ASSUME holds, NEW k \in K, tracked[k] # Nil
               PROVE  k \in ks /\ f[k] <= g[k]
    BY DEF Tally
  <2>1. Reported(Entry(k)) /\ Entry(k).n = tracked[k].n
    BY <1>1, <1>2
  <2>2. Tally(k)' = Tally(k)
    BY <1>1, <1>2, <2>1 DEF Tally, Reported
  <2>3. QED
    BY <1>3, <2>1, <2>2
<1> HIDE DEF K, ks, a, f, g, holds
<1>8. SumOver(a, ks) = SumOver(g, ks)
  BY <1>1, <1>4, SumAgrees
<1>9. SumOver(g, ks) <= SumOver(g, K) /\ SumOver(g, ks) \in Nat
  <2>1. \A k \in ks : g[k] = 0 \/ (k \in K /\ g[k] <= g[k])
    BY <1>1, <1>3
  <2>2. K \in SUBSET K
    OBVIOUS
  <2>3. QED
    BY <1>1, <1>3, <2>1, <2>2, SumAtMost
<1>10. holds => SumOver(f, K) <= SumOver(g, ks)
  <2>1. K \in SUBSET K
    OBVIOUS
  <2>2. QED
    BY <1>1, <1>3, <1>7, <2>1, SumAtMost
<1>11. QED
  BY <1>5, <1>6, <1>8, <1>9, <1>10 DEF holds

\* Between scrapes nothing is exported and no tally falls.
LEMMA BetweenScrapes ==
  ASSUME ScrapeInv, SeriesNext \/ UNCHANGED seriesVars, ~Collect
  PROVE  ScrapeInv' /\ out' = out
<1>1. SeriesType /\ CountedInv /\ out \in [SeriesLabels -> Nat \cup {Nil}] /\ ExportedInv
  BY DEF ScrapeInv
<1>2. /\ SeriesType' /\ CountedInv' /\ out' = out
      /\ \A j \in Keys : Tally(j) <= Tally(j)'
  <2>1. ASSUME NEW k \in Keys, NEW n \in 1..MaxObjects, Appear(k, n)
        PROVE  /\ SeriesType' /\ CountedInv' /\ out' = out
               /\ \A j \in Keys : Tally(j) <= Tally(j)'
    <3>1. n \in Nat /\ requests[<< k, n >>] = Nil /\ << k, n >> \in Keys \X (1..MaxObjects)
      BY <2>1 DEF Appear
    <3>2. /\ requests' = [requests EXCEPT ![<< k, n >>] = 0] /\ out' = out
          /\ live' = [live EXCEPT ![k] = n] /\ tracked' = tracked
      BY <2>1 DEF Appear
    <3>3. SeriesType'
      BY <1>1, <3>1, <3>2 DEF SeriesType
    <3>4. \A x \in Keys \X (1..MaxObjects) :
            requests'[x] = IF x = << k, n >> THEN 0 ELSE requests[x]
      BY <1>1, <3>2 DEF SeriesType
    <3>5. \A j \in Keys : /\ live[j] # Nil => << j, live[j] >> \in Keys \X (1..MaxObjects)
                          /\ tracked[j] # Nil => << j, tracked[j].n >> \in Keys \X (1..MaxObjects)
      BY <1>1 DEF SeriesType, Tracking
    <3>6. CountedInv'
      <4> SUFFICES ASSUME NEW j \in Keys
                   PROVE  /\ live'[j] # Nil => requests'[<< j, live'[j] >>] # Nil
                          /\ tracked'[j] # Nil => requests'[<< j, tracked'[j].n >>] # Nil
        BY DEF CountedInv
      <4>1. tracked'[j] # Nil => requests'[<< j, tracked'[j].n >>] # Nil
        <5> SUFFICES ASSUME tracked[j] # Nil
                     PROVE  requests'[<< j, tracked[j].n >>] # Nil
          BY <3>2
        <5> DEFINE x == << j, tracked[j].n >>
        <5>1. x \in Keys \X (1..MaxObjects) /\ requests[x] # Nil
          BY <1>1, <3>5 DEF CountedInv
        <5>2. requests'[x] \in {0, requests[x]}
          BY <3>4, <5>1
        <5>3. 0 # Nil
          BY SeriesAssumption
        <5>4. QED
          BY <5>1, <5>2, <5>3
      <4>2. CASE j = k
        <5>1. live'[j] = n
          BY <1>1, <3>2, <4>2 DEF SeriesType
        <5>2. QED
          BY <3>1, <3>4, <4>1, <4>2, <5>1, SeriesAssumption
      <4>3. CASE j # k
        <5>1. live'[j] = live[j]
          BY <1>1, <3>2, <4>3 DEF SeriesType
        <5>2. live[j] # Nil => requests'[<< j, live[j] >>] = requests[<< j, live[j] >>]
          BY <3>4, <3>5, <4>3
        <5>3. QED
          BY <1>1, <4>1, <5>1, <5>2 DEF CountedInv
      <4>4. QED
        BY <4>2, <4>3
    <3>7. ASSUME NEW j \in Keys PROVE Tally(j) <= Tally(j)'
      <4>1. Tally(j)' = Tally(j)
        BY <1>1, <3>1, <3>2, <3>4, <3>5 DEF CountedInv, Tally
      <4>2. QED
        BY <1>1, <4>1, TallyType
    <3>8. QED
      BY <3>2, <3>3, <3>6, <3>7
  <2>2. ASSUME NEW k \in Keys, Routed(k)
        PROVE  /\ SeriesType' /\ CountedInv' /\ out' = out
               /\ \A j \in Keys : Tally(j) <= Tally(j)'
    <3> DEFINE x == << k, live[k] >>
    <3>1. /\ x \in Keys \X (1..MaxObjects) /\ requests[x] \in Nat
      BY <1>1, <2>2 DEF Routed, SeriesType, CountedInv
    <3>2. /\ requests' = [requests EXCEPT ![x] = @ + 1] /\ out' = out
          /\ live' = live /\ tracked' = tracked
      BY <2>2 DEF Routed
    <3>3. \A y \in Keys \X (1..MaxObjects) :
            requests'[y] = IF y = x THEN requests[x] + 1 ELSE requests[y]
      BY <1>1, <3>2 DEF SeriesType
    <3> HIDE DEF x
    <3>4. requests' \in [Keys \X (1..MaxObjects) -> Nat \cup {Nil}]
      BY <1>1, <3>1, <3>2, <3>3 DEF SeriesType
    <3>5. SeriesType'
      BY <1>1, <3>2, <3>4 DEF SeriesType
    <3>6. \A j \in Keys : /\ live[j] # Nil => << j, live[j] >> \in Keys \X (1..MaxObjects)
                          /\ tracked[j] # Nil => << j, tracked[j].n >> \in Keys \X (1..MaxObjects)
      BY <1>1 DEF SeriesType, Tracking
    <3>7. CountedInv'
      BY <1>1, <3>1, <3>2, <3>3, <3>6, SeriesAssumption DEF CountedInv
    <3>8. \A j \in Keys : Tally(j) <= Tally(j)'
      <4> SUFFICES ASSUME NEW j \in Keys PROVE Tally(j) <= Tally(j)'
        OBVIOUS
      <4>1. Tally(j) \in Nat
        BY <1>1, TallyType
      <4>2. Tally(j)' = Tally(j) \/ Tally(j)' = Tally(j) + 1
        BY <3>2, <3>3, <3>6 DEF Tally
      <4>3. QED
        BY <4>1, <4>2
    <3>9. QED
      BY <3>2, <3>5, <3>7, <3>8
  <2>3. ASSUME UNCHANGED << requests, tracked, out >>, live' \in [Keys -> 1..MaxObjects \cup {Nil}],
               \A k \in Keys : live'[k] \in {live[k], Nil}
        PROVE  /\ SeriesType' /\ CountedInv' /\ out' = out
               /\ \A j \in Keys : Tally(j) <= Tally(j)'
    <3>1. SeriesType' /\ CountedInv'
      BY <1>1, <2>3 DEF SeriesType, CountedInv
    <3>2. \A j \in Keys : Tally(j)' = Tally(j) /\ Tally(j) \in Nat
      BY <1>1, <2>3, TallyType DEF Tally
    <3>3. QED
      BY <2>3, <3>1, <3>2
  <2>4. ASSUME SeriesTick
        PROVE  /\ SeriesType' /\ CountedInv' /\ out' = out
               /\ \A j \in Keys : Tally(j) <= Tally(j)'
    <3>1. ASSUME NEW k \in Keys
          PROVE  /\ tracked'[k] \in Tracking \cup {Nil}
                 /\ tracked[k] = Nil => tracked'[k] = Nil
                 /\ tracked[k] # Nil => tracked[k] \in Tracking /\ tracked'[k].n = tracked[k].n
      <4>1. tracked[k] \in Tracking \cup {Nil}
        BY <1>1 DEF SeriesType
      <4>2. \/ tracked'[k] = tracked[k]
            \/ /\ tracked[k] # Nil /\ tracked[k].since # Nil
               /\ tracked'[k] = [tracked[k] EXCEPT !.since = @ + 1]
        BY <2>4 DEF SeriesTick
      <4>3. QED
        BY <4>1, <4>2 DEF Tracking
    <3>2. UNCHANGED << live, requests, out >> /\ tracked' \in [Keys -> Tracking \cup {Nil}]
      BY <2>4, <3>1 DEF SeriesTick
    <3>3. SeriesType'
      BY <1>1, <3>2 DEF SeriesType
    <3>4. ASSUME NEW k \in Keys
          PROVE  /\ tracked'[k] # Nil => requests'[<< k, tracked'[k].n >>] # Nil
                 /\ Tally(k) <= Tally(k)'
      <4>1. CASE tracked[k] = Nil
        <5>1. tracked'[k] = Nil
          BY <3>1, <4>1
        <5>2. QED
          BY <4>1, <5>1 DEF Tally
      <4>2. CASE tracked[k] # Nil
        <5>1. requests[<< k, tracked[k].n >>] # Nil
          BY <1>1, <4>2 DEF CountedInv
        <5>2. tracked'[k].n = tracked[k].n /\ requests' = requests
          BY <3>1, <3>2, <4>2
        <5>3. Tally(k) \in Nat /\ Tally(k) = requests[<< k, tracked[k].n >>]
          BY <1>1, <4>2, TallyType DEF Tally
        <5>4. Tally(k)' \in {0, Tally(k)} /\ (tracked'[k] # Nil => Tally(k)' = Tally(k))
          BY <5>2, <5>3 DEF Tally
        <5>5. tracked'[k] # Nil
          <6> DEFINE t == tracked[k]
          <6>1. t \in Tracking
            BY <3>1, <4>2
          <6>2. \/ tracked'[k] = t
                \/ t.since # Nil /\ tracked'[k] = [t EXCEPT !.since = @ + 1]
            BY <2>4 DEF SeriesTick
          <6> HIDE DEF t
          <6>3. CASE t.since # Nil /\ tracked'[k] = [t EXCEPT !.since = @ + 1]
            <7>1. t.n \in Nat /\ t.since \in Nat
              BY <6>1, <6>3 DEF Tracking
            <7>2. tracked'[k] = [n |-> t.n, since |-> t.since + 1]
              BY <6>1, <6>3 DEF Tracking
            <7>3. tracked'[k] \in [n : Nat, since : Nat \cup {Nil}]
              BY <7>1, <7>2
            <7>4. QED
              BY <7>3, SeriesAssumption
          <6>4. QED
            BY <4>2, <6>2, <6>3 DEF t
        <5>6. QED
          BY <5>1, <5>2, <5>3, <5>4, <5>5
      <4>3. QED
        BY <4>1, <4>2
    <3>5. CountedInv'
      BY <1>1, <3>2, <3>4 DEF CountedInv
    <3>6. QED
      BY <3>2, <3>3, <3>4, <3>5
  <2>5. ASSUME NEW k \in Keys, Vanish(k) \/ Toggle(k)
        PROVE  /\ SeriesType' /\ CountedInv' /\ out' = out
               /\ \A j \in Keys : Tally(j) <= Tally(j)'
    <3>1. UNCHANGED << requests, tracked, out >> /\ (live' = live \/ live' = [live EXCEPT ![k] = Nil])
      BY <2>5 DEF Vanish, Toggle
    <3>2. live' \in [Keys -> 1..MaxObjects \cup {Nil}] /\ \A j \in Keys : live'[j] \in {live[j], Nil}
      BY <1>1, <3>1 DEF SeriesType
    <3>3. QED
      BY <2>3, <3>1, <3>2
  <2>6. CASE UNCHANGED seriesVars
    <3>1. UNCHANGED << requests, tracked, out, live >>
      BY <2>6 DEF seriesVars
    <3>2. QED
      BY <1>1, <2>3, <3>1 DEF SeriesType
  <2>7. QED
    BY <2>1, <2>2, <2>4, <2>5, <2>6 DEF SeriesNext
<1>3. \A l \in SeriesLabels : Tallies(l) <= Tallies(l)' /\ Tallies(l)' \in Int /\ Tallies(l) \in Int
  <2> SUFFICES ASSUME NEW l \in SeriesLabels
               PROVE  Tallies(l) <= Tallies(l)' /\ Tallies(l)' \in Int /\ Tallies(l) \in Int
    OBVIOUS
  <2>1. QED
    BY <1>1, <1>2, TalliesGrow
<1>4. QED
  BY <1>1, <1>2, <1>3 DEF ScrapeInv, ExportedInv

\* CountKept: from one scrape to the next a label's count falls only where an object
\* behind it was replaced, or was down for the whole retention (backend_series.go:47-58).
THEOREM CountsNeverFall == SeriesSpec => CountKept
<1> DEFINE Lost(k, l) == /\ k[2] = l /\ tracked[k] # Nil
                         /\ \/ tracked'[k] = Nil \/ tracked'[k].n # tracked[k].n
                            \/ tracked'[k].since = Retention
           Fall(l) == out[l] # Nil /\ out'[l] # Nil /\ out'[l] < out[l] =>
                        \E k \in Keys : Lost(k, l)
<1>1. SeriesInit => ScrapeInv
  <2> SUFFICES ASSUME SeriesInit PROVE ScrapeInv
    OBVIOUS
  <2>1. SeriesType
    BY DEF SeriesInit, SeriesType
  <2>2. CountedInv /\ ExportedInv
    BY DEF SeriesInit, CountedInv, ExportedInv
  <2>3. out \in [SeriesLabels -> Nat \cup {Nil}]
    BY DEF SeriesInit
  <2>4. QED
    BY <2>1, <2>2, <2>3 DEF ScrapeInv
<1>2. ScrapeInv /\ [SeriesNext]_seriesVars =>
        ScrapeInv' /\ (UNCHANGED seriesVars \/ \A l \in SeriesLabels : Fall(l))
  <2> SUFFICES ASSUME ScrapeInv, SeriesNext \/ UNCHANGED seriesVars
               PROVE  ScrapeInv' /\ (UNCHANGED seriesVars \/ \A l \in SeriesLabels : Fall(l))
    OBVIOUS
  <2>1. SeriesType /\ CountedInv /\ out \in [SeriesLabels -> Nat \cup {Nil}] /\ ExportedInv
    BY DEF ScrapeInv
  <2>2. CASE ~Collect
    <3>1. ScrapeInv' /\ out' = out
      BY <2>2, BetweenScrapes
    <3>2. \A l \in SeriesLabels : out[l] # Nil => ~(out[l] < out[l])
      BY <2>1
    <3>3. QED
      BY <3>1, <3>2
  <2>3. CASE Collect
    <3>1. /\ tracked' = [k \in Keys |-> Entry(k)] /\ UNCHANGED << live, requests >>
          /\ out' = [l \in SeriesLabels |-> Exported(l)]
      BY <2>3 DEF Collect
    <3>2. SeriesType' /\ CountedInv'
      <4>1. tracked' \in [Keys -> Tracking \cup {Nil}]
        BY <2>1, <3>1, EntryCounted
      <4>2. \A k \in Keys : Entry(k) # Nil => requests[<< k, Entry(k).n >>] # Nil
        BY <2>1, EntryCounted, SeriesAssumption
      <4>3. QED
        BY <2>1, <3>1, <4>1, <4>2 DEF SeriesType, CountedInv
    <3>3. \A l \in SeriesLabels : out'[l] # Nil => out'[l] \in Nat /\ out'[l] <= Tallies(l)'
      BY <2>1, <2>3, ScrapeAddsUp
    <3>4. out' \in [SeriesLabels -> Nat \cup {Nil}] /\ ExportedInv'
      BY <3>1, <3>3 DEF ExportedInv
    <3>5. ASSUME NEW l \in SeriesLabels, out[l] # Nil, out'[l] # Nil,
                 \A k \in Keys : ~Lost(k, l)
          PROVE  ~(out'[l] < out[l])
      <4>1. \A k \in KeysOf(l) : tracked[k] # Nil =>
              Reported(tracked'[k]) /\ tracked'[k].n = tracked[k].n
        BY <3>5 DEF KeysOf, Reported
      <4>2. Tallies(l) <= out'[l] /\ out'[l] \in Nat
        BY <2>1, <2>3, <3>5, <4>1, ScrapeAddsUp
      <4>3. out[l] \in Nat /\ out[l] <= Tallies(l)
        BY <2>1, <3>5 DEF ExportedInv
      <4>4. Tallies(l) \in Int
        BY <2>1, TalliesType
      <4>5. QED
        BY <4>2, <4>3, <4>4
    <3>6. QED
      BY <3>2, <3>4, <3>5 DEF ScrapeInv
  <2>4. QED
    BY <2>2, <2>3
<1>3. ScrapeInv /\ [SeriesNext]_seriesVars =>
        [\A l \in SeriesLabels :
           out[l] # Nil /\ out'[l] # Nil /\ out'[l] < out[l] =>
             \E k \in Keys : /\ k[2] = l /\ tracked[k] # Nil
                            /\ \/ tracked'[k] = Nil \/ tracked'[k].n # tracked[k].n
                               \/ tracked'[k].since = Retention]_seriesVars
  BY <1>2
<1>4. QED
  BY <1>1, <1>2, <1>3, PTL DEF SeriesSpec, CountKept

----------------------------------------------------------------------------
(* The prefill split. *)

\* A queue without repetition.
Queue(q) == q \in Seq(Jobs) /\ \A a, b \in 1..Len(q) : q[a] = q[b] => a = b

\* As many jobs as places.
LEMMA QueueCount ==
  ASSUME NEW q, Queue(q)
  PROVE  /\ IsFiniteSet(ToSet(q)) /\ Cardinality(ToSet(q)) = Len(q) /\ Len(q) \in Nat
         /\ ToSet(q) = {q[a] : a \in 1..Len(q)} /\ ToSet(q) \subseteq Jobs
<1>1. q \in Seq(Jobs) /\ Len(q) \in Nat /\ DOMAIN q = 1..Len(q) /\ \A a \in 1..Len(q) : q[a] \in Jobs
  BY DEF Queue
<1>2. ToSet(q) = {q[a] : a \in 1..Len(q)} /\ ToSet(q) \subseteq Jobs
  BY <1>1 DEF ToSet
<1> DEFINE f == [a \in 1..Len(q) |-> q[a]]
<1>3. f \in Bijection(1..Len(q), ToSet(q))
  <2>1. f \in [1..Len(q) -> ToSet(q)] /\ \A x \in ToSet(q) : \E a \in 1..Len(q) : f[a] = x
    BY <1>2
  <2>2. \A a, b \in 1..Len(q) : f[a] = f[b] => a = b
    BY DEF Queue
  <2> HIDE DEF f
  <2>3. QED
    BY <2>1, <2>2, Fun_IsInj, Fun_IsSurj DEF Bijection
<1>4. ExistsBijection(1..Len(q), ToSet(q))
  BY <1>3 DEF ExistsBijection
<1>5. QED
  BY <1>1, <1>2, <1>4, FS_NatBijection, FS_CountingElements

\* A queue cut in two.
LEMMA QueueCut ==
  ASSUME NEW q, Queue(q), NEW k \in 0..Len(q)
  PROVE  LET g == SubSeq(q, 1, k)
             r == SubSeq(q, k + 1, Len(q))
         IN  /\ Queue(g) /\ Queue(r) /\ Len(g) = k
             /\ ToSet(g) \cap ToSet(r) = {} /\ ToSet(g) \cup ToSet(r) = ToSet(q)
<1> DEFINE n == Len(q)
           g == SubSeq(q, 1, k)
           r == SubSeq(q, k + 1, n)
<1>1. q \in Seq(Jobs) /\ n \in Nat /\ k \in Nat /\ k <= n
  BY DEF Queue
<1>2. g \in Seq(Jobs) /\ Len(g) = k /\ \A a \in 1..k : g[a] = q[a]
  BY <1>1
<1>3. r \in Seq(Jobs) /\ Len(r) = n - k /\ \A a \in 1..(n - k) : r[a] = q[k + a]
  BY <1>1
<1>4. \A a, b \in 1..n : q[a] = q[b] => a = b
  BY DEF Queue
<1> HIDE DEF g, r
<1>5. Queue(g)
  BY <1>1, <1>2, <1>4 DEF Queue
<1>6. Queue(r)
  <2> SUFFICES ASSUME NEW a \in 1..(n - k), NEW b \in 1..(n - k), r[a] = r[b] PROVE a = b
    BY <1>3 DEF Queue
  <2>1. k + a \in 1..n /\ k + b \in 1..n /\ q[k + a] = q[k + b]
    BY <1>1, <1>3
  <2>2. k + a = k + b
    BY <1>4, <2>1
  <2>3. QED
    BY <1>1, <2>2
<1>7. /\ ToSet(g) = {g[a] : a \in 1..k} /\ ToSet(r) = {r[a] : a \in 1..(n - k)}
      /\ ToSet(q) = {q[a] : a \in 1..n}
  BY <1>2, <1>3, <1>5, <1>6, QueueCount, ZenonT(40)
<1>8. ToSet(g) \cap ToSet(r) = {}
  <2> SUFFICES ASSUME NEW a \in 1..k, NEW b \in 1..(n - k), g[a] = r[b] PROVE FALSE
    BY <1>7
  <2>1. a \in 1..n /\ k + b \in 1..n /\ q[a] = q[k + b]
    BY <1>1, <1>2, <1>3
  <2>2. QED
    BY <1>1, <1>4, <2>1
<1>9. ToSet(g) \cup ToSet(r) = ToSet(q)
  <2>1. \A a \in 1..k : g[a] \in ToSet(q)
    BY <1>1, <1>2, <1>7
  <2>2. \A a \in 1..(n - k) : k + a \in 1..n /\ r[a] = q[k + a]
    BY <1>1, <1>3
  <2>3. \A a \in 1..(n - k) : r[a] \in ToSet(q)
    BY <1>7, <2>2
  <2>4. ASSUME NEW a \in 1..n PROVE q[a] \in ToSet(g) \cup ToSet(r)
    <3>1. CASE a <= k
      BY <1>1, <1>2, <1>7, <3>1
    <3>2. CASE ~(a <= k)
      <4>1. a - k \in 1..(n - k) /\ k + (a - k) = a
        BY <1>1, <3>2
      <4>2. r[a - k] = q[a]
        BY <1>3, <4>1
      <4>3. QED
        BY <1>7, <4>1, <4>2
    <3>3. QED
      BY <3>1, <3>2
  <2>5. QED
    BY <1>7, <2>1, <2>3, <2>4
<1>10. QED
  BY <1>2, <1>5, <1>6, <1>8, <1>9 DEF g, r

\* A queue that a job has joined.
LEMMA QueueJoined ==
  ASSUME NEW q, Queue(q), NEW j \in Jobs, j \notin ToSet(q)
  PROVE  Queue(Append(q, j)) /\ ToSet(Append(q, j)) = ToSet(q) \cup {j}
<1> DEFINE n == Len(q)
           r == Append(q, j)
<1>1. q \in Seq(Jobs) /\ n \in Nat /\ ToSet(q) = {q[a] : a \in 1..n}
  BY QueueCount DEF Queue
<1>2. r \in Seq(Jobs) /\ Len(r) = n + 1 /\ r[n + 1] = j /\ \A a \in 1..n : r[a] = q[a]
  BY <1>1
<1> HIDE DEF r
<1>3. \A a \in 1..(n + 1) : a \in 1..n \/ a = n + 1
  BY <1>1
<1>4. \A a \in 1..n : r[a] # j
  BY <1>1, <1>2
<1>5. Queue(r)
  BY <1>2, <1>3, <1>4 DEF Queue
<1>6. ToSet(r) = {r[a] : a \in 1..(n + 1)}
  BY <1>2, <1>5, QueueCount
<1>7. 1..(n + 1) = 1..n \cup {n + 1}
  BY <1>1
<1>8. QED
  BY <1>1, <1>2, <1>5, <1>6, <1>7 DEF r

\* A node: its mode and its books.
NodeRecord ==
  [mode : {"decode", "draining", "prefill"}, pending : Nat, running : Nat, queue : Seq(Jobs),
   over : Nat \cup {Off}, idle : Nat \cup {Off}]

\* A queue that a job has left.
LEMMA QueueLeft ==
  ASSUME NEW j, NEW n \in NodeRecord, Queue(n.queue)
  PROVE  \E r : /\ Queue(r) /\ ToSet(r) = ToSet(n.queue) \ {j}
                /\ Dequeued(j, n) = [n EXCEPT !.queue = r]
<1> DEFINE q == n.queue
           at == {i \in DOMAIN q : q[i] = j}
           m == Len(q)
<1>1. /\ q \in Seq(Jobs) /\ m \in Nat /\ DOMAIN q = 1..m
      /\ ToSet(q) = {q[a] : a \in 1..m}
      /\ \A a, b \in 1..m : q[a] = q[b] => a = b
  BY QueueCount DEF Queue
<1>2. CASE at = {}
  <2>1. ToSet(q) = ToSet(q) \ {j}
    BY <1>1, <1>2
  <2>2. Dequeued(j, n) = [n EXCEPT !.queue = q]
    BY <1>2 DEF Dequeued, NodeRecord
  <2>3. QED
    BY <2>1, <2>2
<1>3. CASE at # {}
  <2>1. PICK i \in 1..m : q[i] = j
    BY <1>1, <1>3
  <2>2. at = {i}
    BY <1>1, <2>1
  <2>3. Min(at) = i
    BY <1>1, <2>2 DEF Min
  <2> DEFINE a == SubSeq(q, 1, i - 1)
             b == SubSeq(q, i + 1, m)
             r == a \o b
  <2>4. Dequeued(j, n) = [n EXCEPT !.queue = r]
    BY <1>3, <2>3 DEF Dequeued, RemoveAt
  <2>5. a \in Seq(Jobs) /\ Len(a) = i - 1 /\ \A x \in 1..(i - 1) : a[x] = q[x]
    BY <1>1
  <2>6. b \in Seq(Jobs) /\ Len(b) = m - i /\ \A x \in 1..(m - i) : b[x] = q[i + x]
    BY <1>1
  <2> HIDE DEF a, b
  <2>7. /\ r \in Seq(Jobs) /\ Len(r) = m - 1
        /\ \A x \in 1..(m - 1) : r[x] = IF x < i THEN q[x] ELSE q[x + 1]
    <3>0. r \in Seq(Jobs) /\ Len(r) = Len(a) + Len(b)
      BY <2>5, <2>6, ConcatProperties
    <3>1. r \in Seq(Jobs) /\ Len(r) = (i - 1) + (m - i)
      BY <2>5, <2>6, <3>0
    <3>2. ASSUME NEW x \in 1..(m - 1)
          PROVE  r[x] = IF x < i THEN q[x] ELSE q[x + 1]
      <4>1. r[x] = IF x <= Len(a) THEN a[x] ELSE b[x - Len(a)]
        BY <1>1, <2>5, <2>6, <3>1
      <4>2. CASE x < i
        BY <1>1, <2>5, <4>1, <4>2
      <4>3. CASE ~(x < i)
        <5>1. x - (i - 1) \in 1..(m - i) /\ i + (x - (i - 1)) = x + 1 /\ ~(x <= i - 1)
          BY <1>1, <4>3
        <5>2. b[x - (i - 1)] = q[x + 1]
          BY <2>6, <5>1
        <5>3. QED
          BY <2>5, <4>1, <4>3, <5>1, <5>2
      <4>4. QED
        BY <4>2, <4>3
    <3>3. QED
      BY <1>1, <3>1, <3>2
  <2> HIDE DEF r
  <2> DEFINE past(x) == IF x < i THEN x ELSE x + 1
  <2>8. \A x \in 1..(m - 1) : past(x) \in 1..m /\ past(x) # i /\ r[x] = q[past(x)]
    BY <1>1, <2>7
  <2>9. Queue(r)
    <3> SUFFICES ASSUME NEW x \in 1..(m - 1), NEW y \in 1..(m - 1), r[x] = r[y] PROVE x = y
      BY <2>7 DEF Queue
    <3>1. past(x) = past(y)
      <4> HIDE DEF past
      <4>1. QED
        BY <1>1, <2>8
    <3>2. QED
      BY <1>1, <3>1
  <2>10. ToSet(r) = {r[x] : x \in 1..(m - 1)}
    BY <2>7, <2>9, QueueCount
  <2>11. \A x \in 1..(m - 1) : r[x] \in ToSet(q) /\ r[x] # j
    <3> HIDE DEF past
    <3>1. QED
      BY <1>1, <2>1, <2>8
  <2>12. ASSUME NEW x \in 1..m, q[x] # j PROVE q[x] \in ToSet(r)
    <3>1. x # i
      BY <2>1, <2>12
    <3>2. PICK y \in 1..(m - 1) : past(y) = x
      <4>1. CASE x < i
        <5>1. x \in 1..(m - 1) /\ past(x) = x
          BY <1>1, <4>1
        <5>2. QED
          BY <5>1
      <4>2. CASE ~(x < i)
        <5>1. x - 1 \in 1..(m - 1) /\ past(x - 1) = x
          BY <1>1, <3>1, <4>2
        <5>2. QED
          BY <5>1
      <4>3. QED
        BY <4>1, <4>2
    <3> HIDE DEF past
    <3>3. r[y] = q[x]
      BY <2>8, <3>2
    <3>4. QED
      BY <2>10, <3>3
  <2>13. ToSet(r) = ToSet(q) \ {j}
    <3>1. \A z \in ToSet(r) : z \in ToSet(q) /\ z # j
      BY <2>10, <2>11
    <3>2. \A z \in ToSet(q) : z # j => z \in ToSet(r)
      BY <1>1, <2>12
    <3>3. QED
      BY <3>1, <3>2
  <2>14. QED
    BY <2>4, <2>9, <2>13
<1>4. QED
  BY <1>2, <1>3

\* A job's record: what it is charged for while it is unfinished.
JobRecord ==
  [at : {"rejected", "draining", "waiting", "running", "backoff", "leaving", "over"},
   obj : Objs \cup {Off}, held : BOOLEAN, tokens : Nat]

Unfinished(r) == r.at \notin {"rejected", "over"}

RequestOK(r) ==
  /\ r \in JobRecord
  /\ Unfinished(r) => r.obj \in Objs /\ r.tokens > 0
  /\ ~Unfinished(r) => r.held = FALSE

\* The unfinished jobs of a node, their charges, and those that hold a slot.
On(f, o) == {j \in Jobs : f[j].obj = o /\ Unfinished(f[j])}
Charge(f, o) == [j \in Jobs |-> IF j \in On(f, o) THEN f[j].tokens ELSE 0]
Holders(f, o) == {j \in On(f, o) : f[j].held = TRUE}

\* The books of a node agree with its jobs.
Books(o, n, f) ==
  /\ n \in NodeRecord /\ Queue(n.queue)
  /\ n.pending = SumOver(Charge(f, o), Jobs)
  /\ n.running = Cardinality(Holders(f, o))
  /\ \A j \in ToSet(n.queue) : j \in On(f, o) /\ f[j].held = FALSE
  /\ \A j \in On(f, o) : f[j].at \in InWaitReady => f[j].held = TRUE \/ j \in ToSet(n.queue)

\* Its mode too: a node with jobs is out of decode, and idles only without.
ModeFits(o, n, f) ==
  /\ On(f, o) # {} => n.mode # "decode"
  /\ Holders(f, o) # {} => n.mode = "prefill"
  /\ n.idle # Off => On(f, o) = {}

NodeOK(o, n, f) == Books(o, n, f) /\ ModeFits(o, n, f)

\* Steps of jobs that a node's books do not tell apart.
LEMMA SameBooks ==
  ASSUME NEW f, NEW g, NEW o, NEW n, NodeOK(o, n, f),
         \A j \in Jobs : j \in On(f, o) <=> j \in On(g, o),
         \A j \in On(f, o) : /\ g[j].tokens = f[j].tokens /\ g[j].held = f[j].held
                             /\ g[j].at \in InWaitReady => f[j].at \in InWaitReady \/ f[j].held = TRUE
  PROVE  NodeOK(o, n, g)
<1>1. On(g, o) = On(f, o)
  BY DEF On
<1>2. Charge(g, o) = Charge(f, o)
  BY <1>1 DEF Charge
<1>3. Holders(g, o) = Holders(f, o)
  BY <1>1 DEF Holders
<1>4. ModeFits(o, n, g)
  BY <1>1, <1>3 DEF NodeOK, ModeFits
<1>5. Books(o, n, g)
  BY <1>1, <1>2, <1>3 DEF NodeOK, Books
<1>6. QED
  BY <1>4, <1>5 DEF NodeOK

\* What is granted is the beginning of the queue, and nothing while the node drains.
LEMMA GrantedPrefix ==
  ASSUME NEW o, NEW n \in NodeRecord, Queue(n.queue)
  PROVE  \E k \in 0..Len(n.queue) :
           Granted(o, n) = SubSeq(n.queue, 1, k) /\ (n.mode = "draining" => k = 0)
<1> DEFINE m == Len(n.queue)
           free == IF Slots = 0 THEN m
                   ELSE IF Inflight(o[1]) >= Slots THEN 0 ELSE Max({0, Slots - n.running})
<1>1. m \in Nat /\ n.queue \in Seq(Jobs)
  BY DEF Queue
<1>2. CASE n.mode = "draining"
  <2>1. Granted(o, n) = << >>
    BY <1>2 DEF Granted
  <2>2. SubSeq(n.queue, 1, 0) = << >>
    BY <1>1
  <2>3. QED
    BY <1>1, <2>1, <2>2
<1>3. CASE n.mode # "draining"
  <2>1. n.running \in Int /\ Slots \in Int
    BY SplitAssumption DEF NodeRecord
  <2>2. Max({0, Slots - n.running}) \in Nat
    <3>1. 0 \in Int /\ Slots - n.running \in Int
      BY <2>1
    <3>2. Max({0, Slots - n.running}) \in {0, Slots - n.running}
          /\ Max({0, Slots - n.running}) >= 0
      BY ONLY <3>1, MaxOfTwo
    <3>3. QED
      BY <3>1, <3>2
  <2>3. free \in Nat
    BY <1>1, <2>2
  <2> DEFINE k == Min({free, m})
  <2>4. Granted(o, n) = SubSeq(n.queue, 1, k)
    BY <1>3 DEF Granted
  <2> HIDE DEF free
  <2>5. k \in {free, m} /\ k <= m
    <3>1. \E x \in {free, m} : \A y \in {free, m} : x <= y
      BY <1>1, <2>3
    <3>2. QED
      BY <3>1 DEF Min
  <2>6. k \in 0..m
    BY <1>1, <2>3, <2>5
  <2>7. QED
    BY <1>3, <2>4, <2>6
<1>4. QED
  BY <1>2, <1>3

\* Granting slots keeps the books.
LEMMA GrantKeeps ==
  ASSUME NEW o, NEW n, NEW f \in [Jobs -> JobRecord], NodeOK(o, n, f)
  PROVE  LET g == Holding(o, n, f)
         IN  /\ NodeOK(o, Grant(o, n), g) /\ Grant(o, n).mode = n.mode
             /\ Grant(o, n).pending = n.pending /\ Grant(o, n).idle = n.idle
             /\ g \in [Jobs -> JobRecord]
             /\ ToSet(Grant(o, n).queue) \subseteq ToSet(n.queue)
             /\ \A j \in Jobs : g[j] # f[j] =>
                  j \in ToSet(n.queue) /\ g[j] = [f[j] EXCEPT !.held = TRUE]
<1> DEFINE q == n.queue
           G == Granted(o, n)
           g == Holding(o, n, f)
<1>1. n \in NodeRecord /\ Queue(q)
  BY DEF NodeOK, Books
<1>2. PICK k \in 0..Len(q) : G = SubSeq(q, 1, k) /\ (n.mode = "draining" => k = 0)
  BY <1>1, GrantedPrefix
<1> DEFINE R == SubSeq(q, k + 1, Len(q))
           m == [n EXCEPT !.running = @ + k, !.queue = R]
<1>3. /\ Queue(G) /\ Queue(R) /\ Len(G) = k
      /\ ToSet(G) \cap ToSet(R) = {} /\ ToSet(G) \cup ToSet(R) = ToSet(q)
  BY <1>1, <1>2, QueueCut
<1>4. Grant(o, n) = m
  BY <1>3 DEF Grant
<1>5. /\ m \in NodeRecord /\ m.mode = n.mode /\ m.pending = n.pending /\ m.idle = n.idle
      /\ m.running = n.running + k /\ m.queue = R
  <2>1. k \in Nat /\ R \in Seq(Jobs)
    BY <1>3 DEF Queue
  <2> HIDE DEF R
  <2>2. n.running + k \in Nat
    BY <1>1, <2>1 DEF NodeRecord
  <2> DEFINE s == n.running + k
  <2> HIDE DEF s
  <2>3. m = [n EXCEPT !.running = s, !.queue = R]
    BY <1>1 DEF NodeRecord, s
  <2>4. s \in Nat
    BY <2>2 DEF s
  <2> HIDE DEF m
  <2>5. /\ m \in NodeRecord /\ m.mode = n.mode /\ m.pending = n.pending /\ m.idle = n.idle
        /\ m.running = s /\ m.queue = R
    BY <1>1, <2>1, <2>3, <2>4 DEF NodeRecord
  <2>6. QED
    BY <2>5 DEF s
<1>6. \A j \in Jobs : g[j] = IF j \in ToSet(G) THEN [f[j] EXCEPT !.held = TRUE] ELSE f[j]
  BY DEF Holding
<1>7. \A j \in ToSet(q) : j \in Jobs /\ j \in On(f, o) /\ f[j].held = FALSE
  BY DEF NodeOK, Books, On
<1>8. ASSUME NEW j \in Jobs
      PROVE  /\ g[j] \in JobRecord /\ g[j].at = f[j].at /\ g[j].obj = f[j].obj
             /\ g[j].tokens = f[j].tokens
             /\ g[j].held = IF j \in ToSet(G) THEN TRUE ELSE f[j].held
  BY <1>6 DEF JobRecord
<1>9. g \in [Jobs -> JobRecord]
  <2>1. g = [j \in Jobs |-> g[j]]
    BY DEF Holding
  <2> HIDE DEF g
  <2>2. QED
    BY <1>8, <2>1
<1> HIDE DEF G, R, g, m
<1>10. On(g, o) = On(f, o)
  BY <1>8 DEF On, Unfinished
<1>11. Charge(g, o) = Charge(f, o)
  BY <1>8, <1>10 DEF Charge
<1>12. Holders(g, o) = Holders(f, o) \cup ToSet(G) /\ Holders(f, o) \cap ToSet(G) = {}
  <2>1. \A j \in ToSet(G) : j \in ToSet(q)
    BY <1>3
  <2>2. \A j \in On(f, o) : j \in Jobs
    BY DEF On
  <2>3. QED
    BY <1>7, <1>8, <1>10, <2>1, <2>2 DEF Holders
<1>13. Cardinality(Holders(g, o)) = Cardinality(Holders(f, o)) + k
  <2>1. IsFiniteSet(Holders(f, o))
    BY SplitAssumption, FS_Subset DEF Holders, On
  <2>2. IsFiniteSet(ToSet(G)) /\ Cardinality(ToSet(G)) = k
    BY <1>3, QueueCount
  <2>3. Cardinality(Holders(f, o)) \in Nat /\ Cardinality({}) = 0
    BY <2>1, FS_CardinalityType, FS_EmptySet
  <2> DEFINE A == Holders(f, o)
             B == ToSet(G)
  <2> HIDE DEF A, B
  <2>4. Cardinality(A \cup B) = Cardinality(A) + Cardinality(B) - Cardinality(A \cap B)
    BY <2>1, <2>2, FS_Union DEF A, B
  <2>5. A \cap B = {} /\ Holders(g, o) = A \cup B
    BY <1>12 DEF A, B
  <2>6. Cardinality(A) \in Nat /\ Cardinality(B) = k /\ Cardinality(A) = Cardinality(Holders(f, o))
    BY <2>2, <2>3 DEF A, B
  <2>7. Cardinality(A \cap B) = 0
    BY <2>3, <2>5
  <2>8. k \in Int
    OBVIOUS
  <2>9. Cardinality(A \cup B) = Cardinality(A) + k
    BY <2>4, <2>6, <2>7, <2>8
  <2>10. QED
    BY <2>5, <2>6, <2>9
<1>14. Books(o, m, g)
  <2>1. m.pending = SumOver(Charge(g, o), Jobs) /\ m.running = Cardinality(Holders(g, o))
    BY <1>5, <1>11, <1>13 DEF NodeOK, Books
  <2>2. \A j \in ToSet(R) : j \in On(g, o) /\ g[j].held = FALSE
    BY <1>3, <1>7, <1>8, <1>10
  <2>3. ASSUME NEW j \in On(g, o), g[j].at \in InWaitReady
        PROVE  g[j].held = TRUE \/ j \in ToSet(R)
    <3>1. j \in Jobs /\ j \in On(f, o) /\ f[j].at \in InWaitReady
      BY <1>8, <1>10, <2>3 DEF On
    <3>2. f[j].held = TRUE \/ j \in ToSet(q)
      BY <3>1 DEF NodeOK, Books
    <3>3. QED
      BY <1>3, <1>8, <3>1, <3>2
  <2>4. QED
    BY <1>3, <1>5, <2>1, <2>2, <2>3 DEF Books
<1>15. ModeFits(o, m, g)
  <2>1. ToSet(G) # {} => n.mode = "prefill"
    <3> SUFFICES ASSUME ToSet(G) # {} PROVE n.mode = "prefill"
      OBVIOUS
    <3>1. k # 0
      BY <1>3, QueueCount, FS_EmptySet
    <3>2. On(f, o) # {}
      BY <1>3, <1>7
    <3>3. n.mode # "decode" /\ n.mode # "draining"
      BY <1>2, <3>1, <3>2 DEF NodeOK, ModeFits
    <3>4. QED
      BY <1>1, <3>3 DEF NodeRecord
  <2>2. QED
    BY <1>5, <1>10, <1>12, <2>1 DEF NodeOK, ModeFits
<1>16. \A j \in Jobs : g[j] # f[j] => j \in ToSet(q) /\ g[j] = [f[j] EXCEPT !.held = TRUE]
  BY <1>3, <1>6
<1>17. QED
  BY <1>3, <1>4, <1>5, <1>9, <1>14, <1>15, <1>16 DEF NodeOK, g
----------------------------------------------------------------------------
JobsOK(f) == f \in [Jobs -> JobRecord] /\ \A j \in Jobs : RequestOK(f[j])

\* A node out of decode is one that its URL has, or had; a departed backend may depart.
PlacesOK ==
  /\ epoch \in [Urls -> Nat] /\ \A u \in Urls : Cur(u) \in Objs
  /\ known \subseteq Urls /\ up \subseteq known /\ Urls \ known \subseteq Flaky
  /\ \A o \in Objs : node[o].mode # "decode" => o[2] <= epoch[o[1]]

SplitInv ==
  /\ JobsOK(job)
  /\ node \in [Objs -> NodeRecord] /\ \A o \in Objs : NodeOK(o, node[o], job)
  /\ PlacesOK
  /\ DecodeRemains
\* No jobs, no charge; and the other way round, for a job is charged something.
LEMMA ChargeOfNone ==
  ASSUME NEW f, JobsOK(f), NEW o
  PROVE  /\ SumOver(Charge(f, o), Jobs) \in Nat
         /\ SumOver(Charge(f, o), Jobs) = 0 => On(f, o) = {}
         /\ \A j \in Jobs : Charge(f, o)[j] \in Nat
<1> DEFINE c == Charge(f, o)
<1>0. IsFiniteSet(Jobs)
  BY SplitAssumption
<1>1. \A j \in Jobs : f[j] \in JobRecord /\ (Unfinished(f[j]) => f[j].tokens > 0)
  BY DEF JobsOK, RequestOK
<1>2. \A j \in Jobs : /\ c[j] \in Nat
                      /\ j \in On(f, o) => c[j] > 0
  BY <1>1 DEF Charge, JobRecord, On
<1> HIDE DEF c
<1>3. Jobs \in SUBSET Jobs /\ \A j \in Jobs : c[j] = 0 \/ (j \in Jobs /\ c[j] <= c[j])
  BY <1>2
<1>4. SumOver(c, Jobs) \in Nat
  BY <1>0, <1>2, <1>3, SumAtMost
<1>5. ASSUME NEW j \in On(f, o) PROVE SumOver(c, Jobs) # 0
  <2>1. j \in Jobs /\ \A x \in Jobs : c[x] \in Int
    BY <1>2 DEF On
  <2>2. SumOver(c, Jobs) = c[j] + SumOver(c, Jobs \ {j})
    BY <1>0, <2>1, SumRemoves
  <2>3. Jobs \ {j} \in SUBSET Jobs /\ \A x \in Jobs \ {j} : c[x] = 0 \/ (x \in Jobs \ {j} /\ c[x] <= c[x])
    BY <1>2
  <2>4. SumOver(c, Jobs \ {j}) \in Nat
    BY <1>0, <1>2, <2>3, SumAtMost
  <2>5. c[j] \in Nat /\ c[j] > 0
    BY <1>2, <2>1
  <2>6. QED
    BY <2>2, <2>4, <2>5
<1>6. QED
  BY <1>2, <1>4, <1>5 DEF c

\* A job's charge moves the sum by as much.
LEMMA ChargeMoves ==
  ASSUME NEW c, NEW d, NEW j \in Jobs, \A x \in Jobs : c[x] \in Nat,
         \A x \in Jobs : d[x] \in Nat, \A x \in Jobs \ {j} : d[x] = c[x]
  PROVE  SumOver(d, Jobs) = SumOver(c, Jobs) + d[j] - c[j] /\ SumOver(c, Jobs) \in Int
<1>1. \A x \in Jobs : c[x] \in Int /\ d[x] \in Int
  OBVIOUS
<1>2. QED
  BY <1>1, SplitAssumption, SumMoves

\* What a job of another node does is nothing to this one.
LEMMA Elsewhere ==
  ASSUME NEW f, NEW g, NEW o, NEW p, p # o, NEW n, NodeOK(p, n, f),
         \A j \in Jobs : \/ g[j] = f[j]
                         \/ /\ Unfinished(f[j]) => f[j].obj = o
                            /\ Unfinished(g[j]) => g[j].obj = o
  PROVE  NodeOK(p, n, g)
<1>1. \A j \in Jobs : j \in On(f, p) <=> j \in On(g, p)
  BY DEF On
<1>2. \A j \in On(f, p) : g[j] = f[j]
  BY DEF On
<1>3. QED
  BY <1>1, <1>2, SameBooks

\* A step that changes one node and its jobs.
LEMMA OneNode ==
  ASSUME SplitInv, NEW o \in Objs, NEW n, NodeOK(o, n, job'),
         node' = [node EXCEPT ![o] = n], JobsOK(job'),
         UNCHANGED << epoch, known, up >>,
         n.mode # "decode" => o[2] <= epoch[o[1]], DecodeRemains',
         \A j \in Jobs : \/ job'[j] = job[j]
                         \/ /\ Unfinished(job[j]) => job[j].obj = o
                            /\ Unfinished(job'[j]) => job'[j].obj = o
  PROVE  SplitInv'
<1>1. n \in NodeRecord
  BY DEF NodeOK, Books
<1>2. node' \in [Objs -> NodeRecord] /\ node'[o] = n /\ \A p \in Objs \ {o} : node'[p] = node[p]
  BY <1>1 DEF SplitInv
<1>3. ASSUME NEW p \in Objs PROVE NodeOK(p, node'[p], job')
  <2>1. CASE p = o
    BY <1>2, <2>1
  <2>2. CASE p # o
    <3>1. NodeOK(p, node[p], job) /\ node'[p] = node[p]
      BY <1>2, <2>2 DEF SplitInv
    <3>2. QED
      BY <2>2, <3>1, Elsewhere
  <2>3. QED
    BY <2>1, <2>2
<1>4. \A p \in Objs : NodeOK(p, node[p], job)'
  BY <1>3
<1>5. PlacesOK'
  <2>1. \A u \in Urls : Cur(u)' = Cur(u)
    BY DEF Cur
  <2>2. QED
    BY <1>2, <2>1 DEF SplitInv, PlacesOK
<1>6. JobsOK(job)'
  OBVIOUS
<1>7. QED
  BY <1>2, <1>4, <1>5, <1>6 DEF SplitInv

\* The same, where the node leaves nothing undone in decode.
LEMMA SameOrDecode ==
  ASSUME SplitInv, NEW o \in Objs, NEW n, NodeOK(o, n, job'),
         node' = [node EXCEPT ![o] = n], JobsOK(job'),
         UNCHANGED << epoch, known, up >>,
         n.mode # "decode" => node[o].mode # "decode",
         \A j \in Jobs : \/ job'[j] = job[j]
                         \/ /\ Unfinished(job[j]) => job[j].obj = o
                            /\ Unfinished(job'[j]) => job'[j].obj = o
  PROVE  SplitInv'
<1>1. n.mode # "decode" => o[2] <= epoch[o[1]]
  BY DEF SplitInv, PlacesOK
<1>2. DecodeRemains'
  <2>1. PICK u \in Urls : node[Cur(u)].mode = "decode"
    BY DEF SplitInv, DecodeRemains, Mode
  <2>2. Cur(u) \in Objs /\ Cur(u)' = Cur(u)
    BY DEF SplitInv, PlacesOK, Cur
  <2>3. node'[Cur(u)].mode = "decode"
    BY <2>1, <2>2 DEF SplitInv
  <2>4. QED
    BY <2>2, <2>3 DEF DecodeRemains, Mode
<1>3. QED
  BY <1>1, <1>2, OneNode

\* A step of jobs alone.
LEMMA JobsOnly ==
  ASSUME SplitInv, UNCHANGED << node, epoch, known, up >>, JobsOK(job'),
         \A o \in Objs : NodeOK(o, node[o], job')
  PROVE  SplitInv'
<1>1. \A o \in Objs : NodeOK(o, node[o], job)'
  OBVIOUS
<1>2. PlacesOK' /\ DecodeRemains'
  BY DEF SplitInv, PlacesOK, DecodeRemains, Mode, Cur
<1>3. JobsOK(job)' /\ node' \in [Objs -> NodeRecord]
  BY DEF SplitInv
<1>4. QED
  BY <1>1, <1>2, <1>3 DEF SplitInv
\* A step of the nodes alone, none of which leaves decode.
LEMMA NodesOnly ==
  ASSUME SplitInv, UNCHANGED << job, epoch, known, up >>, node' \in [Objs -> NodeRecord],
         \A o \in Objs : /\ NodeOK(o, node'[o], job)
                         /\ node'[o].mode # "decode" => node[o].mode # "decode"
  PROVE  SplitInv'
<1>1. JobsOK(job)' /\ \A o \in Objs : NodeOK(o, node[o], job)'
  BY DEF SplitInv
<1>2. \A u \in Urls : Cur(u) \in Objs /\ Cur(u)' = Cur(u)
  BY DEF SplitInv, PlacesOK, Cur
<1>3. PlacesOK'
  BY <1>2 DEF SplitInv, PlacesOK
<1>4. DecodeRemains'
  <2>1. PICK u \in Urls : node[Cur(u)].mode = "decode"
    BY DEF SplitInv, DecodeRemains, Mode
  <2>2. node'[Cur(u)].mode = "decode"
    BY <1>2, <2>1 DEF SplitInv
  <2>3. QED
    BY <1>2, <2>2 DEF DecodeRemains, Mode
<1>5. QED
  BY <1>1, <1>3, <1>4 DEF SplitInv

\* A node that changes its clocks, or its mode once it has no job.
LEMMA SameFields ==
  ASSUME NEW f, NEW o, NEW n, NodeOK(o, n, f), NEW m \in NodeRecord,
         m.pending = n.pending, m.running = n.running, m.queue = n.queue,
         m.mode = n.mode \/ On(f, o) = {}, m.idle = n.idle \/ On(f, o) = {}
  PROVE  NodeOK(o, m, f)
<1>1. Holders(f, o) \subseteq On(f, o)
  BY DEF Holders
<1>2. ModeFits(o, m, f)
  BY <1>1 DEF NodeOK, ModeFits
<1>3. Books(o, m, f)
  BY DEF NodeOK, Books
<1>4. QED
  BY <1>2, <1>3 DEF NodeOK

\* The overflow clock is no book.
LEMMA TrackedKeeps ==
  ASSUME NEW f, NEW o, NEW n, NodeOK(o, n, f)
  PROVE  /\ NodeOK(o, Tracked(n), f) /\ Tracked(n).mode = n.mode
         /\ Tracked(n).pending = n.pending
<1>1. n \in NodeRecord
  BY DEF NodeOK, Books
<1> DEFINE e == IF n.pending <= Budget THEN Off ELSE IF n.over = Off THEN 0 ELSE n.over
<1>2. e \in Nat \cup {Off} /\ Tracked(n) = [n EXCEPT !.over = e]
  BY <1>1 DEF Tracked, NodeRecord
<1> HIDE DEF e
<1>3. /\ Tracked(n) \in NodeRecord /\ Tracked(n).mode = n.mode /\ Tracked(n).idle = n.idle
      /\ Tracked(n).pending = n.pending /\ Tracked(n).running = n.running
      /\ Tracked(n).queue = n.queue
  BY <1>1, <1>2 DEF NodeRecord
<1>4. QED
  BY <1>3, SameFields

\* A node goes back to decode, or begins to idle, only once no job is left.
LEMMA ReleasedKeeps ==
  ASSUME NEW f, JobsOK(f), NEW o, NEW n, NodeOK(o, n, f)
  PROVE  /\ NodeOK(o, Released(n), f)
         /\ Released(n).mode # "decode" => n.mode # "decode"
<1>1. n \in NodeRecord
  BY DEF NodeOK, Books
<1>2. CASE n.mode = "decode" \/ ~Idle(n)
  BY <1>2 DEF Released
<1>3. CASE ~(n.mode = "decode" \/ ~Idle(n))
  <2>1. On(f, o) = {}
    BY <1>3, ChargeOfNone DEF Idle, NodeOK, Books
  <2> DEFINE e == IF n.idle = Off THEN 0 ELSE n.idle
  <2>2. CASE n.mode = "prefill" /\ ReleaseIdle > 0
    <3>1. e \in Nat \cup {Off} /\ Released(n) = [n EXCEPT !.idle = e]
      BY <1>1, <1>3, <2>2 DEF Released, NodeRecord
    <3> HIDE DEF e
    <3>2. /\ Released(n) \in NodeRecord /\ Released(n).mode = n.mode
          /\ Released(n).pending = n.pending /\ Released(n).running = n.running
          /\ Released(n).queue = n.queue
      BY <1>1, <3>1 DEF NodeRecord
    <3>3. QED
      BY <2>1, <3>2, SameFields
  <2>3. CASE ~(n.mode = "prefill" /\ ReleaseIdle > 0)
    <3>1. Released(n) = [n EXCEPT !.mode = "decode", !.idle = Off]
      BY <1>3, <2>3 DEF Released
    <3>2. /\ Released(n) \in NodeRecord /\ Released(n).mode = "decode"
          /\ Released(n).pending = n.pending /\ Released(n).running = n.running
          /\ Released(n).queue = n.queue
      BY <1>1, <3>1 DEF NodeRecord
    <3>3. QED
      BY <2>1, <3>2, SameFields
  <2>4. QED
    BY <2>2, <2>3
<1>4. QED
  BY <1>2, <1>3

\* A job's status changes while it is charged and in no queue's interest.
LEMMA StatusKeeps ==
  ASSUME SplitInv, NEW j \in Jobs, Unfinished(job[j]), NEW s \in {"running", "backoff", "leaving"},
         job' = [job EXCEPT ![j].at = s], UNCHANGED << node, epoch, known, up >>
  PROVE  SplitInv'
<1>1. \A i \in Jobs : job[i] \in JobRecord /\ RequestOK(job[i])
  BY DEF SplitInv, JobsOK, RequestOK
<1>2. job'[j] = [job[j] EXCEPT !.at = s] /\ \A i \in Jobs \ {j} : job'[i] = job[i]
  BY DEF SplitInv, JobsOK
<1>3. /\ job'[j] \in JobRecord /\ job'[j].at = s /\ job'[j].obj = job[j].obj
      /\ job'[j].held = job[j].held /\ job'[j].tokens = job[j].tokens
  BY <1>1, <1>2 DEF JobRecord
<1>4. Unfinished(job'[j]) /\ s \notin InWaitReady
  BY <1>3 DEF Unfinished, InWaitReady
<1>5. JobsOK(job')
  <2>1. job' \in [Jobs -> JobRecord]
    BY <1>1, <1>3 DEF SplitInv, JobsOK
  <2>2. \A i \in Jobs : RequestOK(job'[i])
    BY <1>1, <1>2, <1>3, <1>4 DEF RequestOK
  <2>3. QED
    BY <2>1, <2>2 DEF JobsOK
<1>6. ASSUME NEW o \in Objs PROVE NodeOK(o, node[o], job')
  <2>1. \A i \in Jobs : i \in On(job, o) <=> i \in On(job', o)
    BY <1>2, <1>3, <1>4 DEF On
  <2>2. \A i \in On(job, o) : /\ job'[i].tokens = job[i].tokens /\ job'[i].held = job[i].held
                              /\ job'[i].at \in InWaitReady => job[i].at \in InWaitReady
    BY <1>2, <1>3, <1>4 DEF On
  <2>3. NodeOK(o, node[o], job)
    BY DEF SplitInv
  <2>4. QED
    BY <2>1, <2>2, <2>3, SameBooks
<1>7. QED
  BY <1>5, <1>6, JobsOnly

\* A request that is charged nowhere.
LEMMA IdleRequest ==
  ASSUME SplitInv, NEW j \in Jobs, ~Unfinished(job[j]), NEW r, RequestOK(r), ~Unfinished(r),
         job' = [job EXCEPT ![j] = r], UNCHANGED << node, epoch, known, up >>
  PROVE  SplitInv'
<1>1. job'[j] = r /\ \A i \in Jobs \ {j} : job'[i] = job[i]
  BY DEF SplitInv, JobsOK
<1>2. JobsOK(job')
  <2>1. job' \in [Jobs -> JobRecord]
    BY DEF SplitInv, JobsOK, RequestOK
  <2>2. QED
    BY <1>1, <2>1 DEF SplitInv, JobsOK
<1>3. ASSUME NEW o \in Objs PROVE NodeOK(o, node[o], job')
  <2>1. \A i \in Jobs : i \in On(job, o) <=> i \in On(job', o)
    BY <1>1 DEF On
  <2>2. \A i \in On(job, o) : job'[i] = job[i]
    BY <1>1 DEF On
  <2>3. NodeOK(o, node[o], job)
    BY DEF SplitInv
  <2>4. QED
    BY <2>1, <2>2, <2>3, SameBooks
<1>4. QED
  BY <1>2, <1>3, JobsOnly
\* A job goes to a node that is out of decode, or to one of two that are in.
LEMMA PlacedWell ==
  ASSUME NEW t, up \subseteq Urls, NEW q \in Placements(up, t)
  PROVE  /\ q.to \in up
         /\ IF q.drain THEN /\ Mode(q.to) = "decode"
                            /\ \E v \in up \ {q.to} : Mode(v) = "decode"
            ELSE Mode(q.to) # "decode"
<1> DEFINE fit == Eligible(up, t)
           spare == Spare(up)
           plain == up \ spare
<1>1. spare = {u \in up : Mode(u) # "decode"} /\ fit \subseteq spare
  BY DEF Spare, Eligible
<1>2. CASE fit # {}
  <2>1. q.to \in fit /\ q.drain = FALSE
    BY <1>2 DEF Placements
  <2>2. QED
    BY <1>1, <2>1
<1>3. CASE fit = {} /\ CanConvert(Cardinality(up), Cardinality(spare), Cardinality(plain))
                    /\ OverflowedLongEnough(spare)
  <2>1. q.to \in plain /\ q.drain = TRUE
    BY <1>3 DEF Placements
  <2>2. Cardinality(plain) > 1
    BY <1>3 DEF CanConvert
  <2>3. plain # {q.to}
    <3> HIDE DEF plain
    <3>1. Cardinality({q.to}) = 1
      BY FS_Singleton
    <3>2. QED
      BY <2>2, <3>1
  <2>4. PICK v \in plain : v # q.to
    BY <2>1, <2>3
  <2>5. QED
    BY <1>1, <2>1, <2>4
<1>4. CASE fit = {} /\ ~(/\ CanConvert(Cardinality(up), Cardinality(spare), Cardinality(plain))
                         /\ OverflowedLongEnough(spare))
  <2>1. q.to \in spare /\ q.drain = FALSE
    BY <1>4 DEF Placements
  <2>2. QED
    BY <1>1, <2>1
<1>5. QED
  BY <1>2, <1>3, <1>4

\* A node that a job joins.
LEMMA JoinKeepsBooks ==
  ASSUME NEW f, JobsOK(f), NEW o \in Objs, NEW n, NodeOK(o, n, f), NEW j \in Jobs,
         ~Unfinished(f[j]), NEW t \in Nat, t > 0, NEW m \in {"draining", "prefill"},
         m = n.mode \/ n.mode = "decode"
  PROVE  LET g == [f EXCEPT ![j] = [at |-> "draining", obj |-> o, held |-> FALSE, tokens |-> t]]
         IN  /\ NodeOK(o, [n EXCEPT !.mode = m, !.pending = @ + t, !.idle = Off,
                                    !.queue = Append(@, j)], g)
             /\ JobsOK(g)
<1> DEFINE r == [at |-> "draining", obj |-> o, held |-> FALSE, tokens |-> t]
           g == [f EXCEPT ![j] = r]
           N == [n EXCEPT !.mode = m, !.pending = @ + t, !.idle = Off, !.queue = Append(@, j)]
<1>1. n \in NodeRecord /\ Queue(n.queue)
  BY DEF NodeOK, Books
<1>2. r \in JobRecord /\ RequestOK(r) /\ Unfinished(r) /\ r.obj = o /\ r.tokens = t /\ r.held = FALSE
      /\ r.at \in InWaitReady
  BY DEF JobRecord, RequestOK, Unfinished, InWaitReady
<1> HIDE DEF r
<1>3. g[j] = r /\ \A i \in Jobs \ {j} : g[i] = f[i]
  BY DEF JobsOK
<1>4. JobsOK(g)
  <2>1. g \in [Jobs -> JobRecord]
    BY <1>2 DEF JobsOK
  <2>2. QED
    BY <1>2, <1>3, <2>1 DEF JobsOK
<1> HIDE DEF g
<1>5. On(g, o) = On(f, o) \cup {j} /\ j \notin On(f, o)
  BY <1>2, <1>3 DEF On
<1>6. Holders(g, o) = Holders(f, o)
  <2>1. \A i \in On(f, o) : g[i] = f[i]
    BY <1>3, <1>5 DEF On
  <2>2. g[j].held # TRUE
    BY <1>2, <1>3
  <2>3. QED
    BY <1>5, <2>1, <2>2 DEF Holders
<1>7. SumOver(Charge(g, o), Jobs) = SumOver(Charge(f, o), Jobs) + t
  <2> DEFINE cf == Charge(f, o)
             cg == Charge(g, o)
  <2>1. \A x \in Jobs : cf[x] \in Nat
    BY ChargeOfNone
  <2>2. \A x \in Jobs : cg[x] \in Nat
    BY <1>4, ChargeOfNone
  <2>3. \A x \in Jobs \ {j} : cg[x] = cf[x]
    BY <1>3, <1>5 DEF Charge
  <2>4. cg[j] = t /\ cf[j] = 0
    BY <1>2, <1>3, <1>5 DEF Charge
  <2> HIDE DEF cf, cg
  <2>5. SumOver(cg, Jobs) = SumOver(cf, Jobs) + cg[j] - cf[j] /\ SumOver(cf, Jobs) \in Int
    BY <2>1, <2>2, <2>3, ChargeMoves
  <2>6. QED
    BY <2>4, <2>5 DEF cf, cg
<1>8. j \notin ToSet(n.queue)
  BY <1>5 DEF NodeOK, Books
<1>9. Queue(Append(n.queue, j)) /\ ToSet(Append(n.queue, j)) = ToSet(n.queue) \cup {j}
  BY <1>1, <1>8, QueueJoined
<1> DEFINE Q == Append(n.queue, j)
           P == n.pending + t
<1>10. P \in Nat /\ Q \in Seq(Jobs)
  BY <1>1, <1>9 DEF NodeRecord, Queue
<1> HIDE DEF Q
<1>11. N = [n EXCEPT !.mode = m, !.pending = P, !.idle = Off, !.queue = Q]
  BY DEF Q
<1> HIDE DEF N, P
<1>12. /\ N \in NodeRecord /\ N.mode = m /\ N.pending = P /\ N.idle = Off /\ N.queue = Q
       /\ N.running = n.running
  BY <1>1, <1>10, <1>11 DEF NodeRecord
<1>13. ModeFits(o, N, g)
  <2>1. n.mode = "decode" => Holders(f, o) = {}
    BY DEF NodeOK, ModeFits, Holders
  <2>2. Holders(f, o) # {} => m = "prefill"
    BY <2>1 DEF NodeOK, ModeFits
  <2>3. QED
    BY <1>6, <1>12, <2>2 DEF ModeFits
<1>14. Books(o, N, g)
  <2>1. N.pending = SumOver(Charge(g, o), Jobs) /\ N.running = Cardinality(Holders(g, o))
    BY <1>6, <1>7, <1>12 DEF NodeOK, Books, P
  <2>2. Queue(N.queue) /\ ToSet(N.queue) = ToSet(n.queue) \cup {j}
    BY <1>9, <1>12 DEF Q
  <2>3. \A i \in ToSet(n.queue) : i \in On(g, o) /\ g[i].held = FALSE
    <3>1. \A i \in ToSet(n.queue) : i \in On(f, o) /\ f[i].held = FALSE /\ i \in Jobs \ {j}
      BY <1>5 DEF NodeOK, Books, On
    <3>2. QED
      BY <1>3, <1>5, <3>1
  <2>4. ASSUME NEW i \in On(g, o), g[i].at \in InWaitReady
        PROVE  g[i].held = TRUE \/ i \in ToSet(N.queue)
    <3>1. CASE i = j
      BY <2>2, <3>1
    <3>2. CASE i # j
      <4>1. i \in On(f, o) /\ g[i] = f[i]
        BY <1>3, <1>5, <3>2 DEF On
      <4>2. f[i].held = TRUE \/ i \in ToSet(n.queue)
        BY <2>4, <4>1 DEF NodeOK, Books
      <4>3. QED
        BY <2>2, <4>1, <4>2
    <3>3. QED
      BY <3>1, <3>2
  <2>5. QED
    BY <1>2, <1>3, <1>5, <1>12, <2>1, <2>2, <2>3, <2>4 DEF Books
<1>15. QED
  BY <1>4, <1>13, <1>14 DEF NodeOK, N, g, r

\* A job is placed, on a node that is drained for it or is out of decode already.
LEMMA ReserveKeeps ==
  ASSUME SplitInv, NEW j \in Jobs, NEW size \in Nat, Reserve(j, size)
  PROVE  SplitInv'
<1> DEFINE t == Max({1, size})
<1>1. t \in Nat /\ t > 0
  <2>1. 1 \in Int /\ size \in Int
    OBVIOUS
  <2>2. t \in {1, size} /\ t >= 1
    BY ONLY <2>1, MaxOfTwo
  <2>3. QED
    BY <2>2
<1> HIDE DEF t
<1>2. PICK q \in Placements(up, t) :
        LET o == Cur(q.to) IN
        /\ node' = [node EXCEPT ![o] =
             Tracked(Joined(node[o], j, t, q.drain))]
        /\ job' = [job EXCEPT ![j] = [at |-> "draining", obj |-> o, held |-> FALSE, tokens |-> t]]
  BY DEF Reserve, t
<1> DEFINE o == Cur(q.to)
           n == node[o]
           m == IF q.drain THEN "draining" ELSE n.mode
           N == [n EXCEPT !.mode = m, !.pending = @ + t, !.idle = Off, !.queue = Append(@, j)]
<1>3. /\ job[j].at = "rejected" /\ UNCHANGED << epoch, known, up >>
      /\ ~Unfinished(job[j]) /\ JobsOK(job)
  BY DEF Reserve, Unfinished, SplitInv
<1>4. up \subseteq Urls /\ q.to \in Urls /\ o \in Objs /\ NodeOK(o, n, job)
  <2>1. up \subseteq Urls
    BY DEF SplitInv, PlacesOK
  <2>2. q.to \in Urls
    BY <2>1, PlacedWell
  <2>3. QED
    BY <2>1, <2>2 DEF SplitInv, PlacesOK
<1>5. n \in NodeRecord /\ n.mode \in {"decode", "draining", "prefill"}
  BY <1>4 DEF NodeOK, Books, NodeRecord
<1>6. /\ n.mode = "decode" => q.drain
      /\ q.drain => n.mode = "decode" /\ \E v \in up \ {q.to} : Mode(v) = "decode"
  BY <1>4, PlacedWell DEF Mode
<1>7. m \in {"draining", "prefill"} /\ (m = n.mode \/ n.mode = "decode")
  BY <1>5, <1>6
<1>8. node' = [node EXCEPT ![o] = Tracked(N)]
  BY <1>2 DEF Joined
<1>9. job' = [job EXCEPT ![j] = [at |-> "draining", obj |-> o, held |-> FALSE, tokens |-> t]]
  BY <1>2
<1> HIDE DEF m
<1>10. NodeOK(o, N, job') /\ JobsOK(job')
  BY <1>1, <1>3, <1>4, <1>7, <1>9, JoinKeepsBooks
<1> HIDE DEF N
<1>11. NodeOK(o, Tracked(N), job')
  BY <1>10, TrackedKeeps
<1>12. o[2] <= epoch[o[1]]
  <2>1. q.to \in Urls /\ epoch[q.to] \in Nat
    BY <1>4 DEF SplitInv, PlacesOK
  <2>2. QED
    BY <2>1 DEF Cur
<1>13. DecodeRemains'
  <2>1. PICK v \in Urls : Mode(v) = "decode" /\ Cur(v) # o
    <3>1. CASE q.drain
      BY <1>4, <1>6, <3>1 DEF Cur
    <3>2. CASE ~q.drain
      <4>1. PICK u \in Urls : Mode(u) = "decode"
        BY DEF SplitInv, DecodeRemains
      <4>2. n.mode # "decode"
        BY <1>6, <3>2
      <4>3. QED
        BY <4>1, <4>2 DEF Mode
    <3>3. QED
      BY <3>1, <3>2
  <2>2. Cur(v) \in Objs /\ Cur(v)' = Cur(v)
    BY <1>3 DEF SplitInv, PlacesOK, Cur
  <2>3. node'[Cur(v)].mode = "decode"
    BY <1>8, <2>1, <2>2 DEF SplitInv, Mode
  <2>4. QED
    BY <2>2, <2>3 DEF DecodeRemains, Mode
<1>14. \A i \in Jobs : \/ job'[i] = job[i]
                       \/ /\ Unfinished(job[i]) => job[i].obj = o
                          /\ Unfinished(job'[i]) => job'[i].obj = o
  BY <1>3, <1>9 DEF SplitInv, JobsOK
<1> HIDE DEF o
<1>15. QED
  BY <1>3, <1>4, <1>8, <1>10, <1>11, <1>12, <1>13, <1>14, OneNode
\* What a grant does to the jobs.
LEMMA GrantedJobsOK ==
  ASSUME NEW o, NEW n, NEW f, JobsOK(f), NodeOK(o, n, f)
  PROVE  LET g == Holding(o, n, f)
         IN  /\ JobsOK(g) /\ NodeOK(o, Grant(o, n), g)
             /\ \A j \in Jobs :
                  g[j] = f[j] \/ (j \in ToSet(n.queue) /\ j \in On(f, o))
             /\ \A j \in Jobs : /\ g[j].at = f[j].at /\ g[j].obj = f[j].obj
                                /\ g[j].tokens = f[j].tokens
<1> DEFINE g == Holding(o, n, f)
<1>1. f \in [Jobs -> JobRecord] /\ \A j \in Jobs : f[j] \in JobRecord /\ RequestOK(f[j])
  BY DEF JobsOK, RequestOK
<1>2. /\ NodeOK(o, Grant(o, n), g) /\ g \in [Jobs -> JobRecord]
      /\ \A j \in Jobs : g[j] # f[j] => j \in ToSet(n.queue) /\ g[j] = [f[j] EXCEPT !.held = TRUE]
  BY <1>1, GrantKeeps
<1> HIDE DEF g
<1>3. \A j \in ToSet(n.queue) : j \in On(f, o) /\ f[j].held = FALSE
  BY DEF NodeOK, Books
<1>4. ASSUME NEW j \in Jobs
      PROVE  /\ RequestOK(g[j]) /\ g[j].at = f[j].at /\ g[j].obj = f[j].obj
             /\ g[j].tokens = f[j].tokens
  <2>1. CASE g[j] = f[j]
    BY <1>1, <2>1
  <2>2. CASE g[j] # f[j]
    <3>1. j \in On(f, o) /\ g[j] = [f[j] EXCEPT !.held = TRUE]
      BY <1>2, <1>3, <2>2
    <3>2. /\ g[j] \in JobRecord /\ g[j].at = f[j].at /\ g[j].obj = f[j].obj
          /\ g[j].tokens = f[j].tokens
      BY <1>1, <3>1 DEF JobRecord
    <3>3. Unfinished(f[j])
      BY <3>1 DEF On
    <3>4. QED
      BY <1>1, <3>2, <3>3 DEF RequestOK, Unfinished
  <2>3. QED
    BY <2>1, <2>2
<1>5. JobsOK(g)
  BY <1>2, <1>4 DEF JobsOK
<1>6. QED
  BY <1>2, <1>3, <1>4, <1>5 DEF g

\* A pass of WaitReady.
LEMMA PollKeeps ==
  ASSUME SplitInv, NEW j \in Jobs, Poll(j)
  PROVE  SplitInv'
<1> DEFINE o == job[j].obj
           n == IF node[o].mode = "draining" /\ Inflight(o[1]) = 0
                THEN [node[o] EXCEPT !.mode = "prefill"] ELSE node[o]
           g == Holding(o, n, job)
           s == IF n.mode = "draining" THEN "draining" ELSE "waiting"
<1>1. /\ job[j].at \in InWaitReady /\ node' = [node EXCEPT ![o] = Grant(o, n)]
      /\ job' = [g EXCEPT ![j].at = s] /\ UNCHANGED << epoch, known, up >>
  BY DEF Poll
<1>2. JobsOK(job) /\ Unfinished(job[j]) /\ o \in Objs /\ NodeOK(o, node[o], job)
  <2>1. JobsOK(job) /\ RequestOK(job[j])
    BY DEF SplitInv, JobsOK
  <2>2. Unfinished(job[j])
    BY <1>1 DEF Unfinished, InWaitReady
  <2>3. QED
    BY <2>1, <2>2 DEF SplitInv, RequestOK
<1>3. node[o] \in NodeRecord
  BY <1>2 DEF NodeOK, Books
<1>4. NodeOK(o, n, job) /\ (n.mode # "decode" => node[o].mode # "decode")
  <2>1. CASE node[o].mode = "draining" /\ Inflight(o[1]) = 0
    <3>1. n = [node[o] EXCEPT !.mode = "prefill"]
      BY <2>1
    <3> HIDE DEF n
    <3>2. /\ n \in NodeRecord /\ n.mode = "prefill" /\ n.idle = node[o].idle
          /\ n.pending = node[o].pending /\ n.running = node[o].running /\ n.queue = node[o].queue
      BY <1>3, <3>1 DEF NodeRecord
    <3>3. QED
      BY <1>2, <2>1, <3>2 DEF NodeOK, Books, ModeFits
  <2>2. CASE ~(node[o].mode = "draining" /\ Inflight(o[1]) = 0)
    BY <1>2, <2>2
  <2>3. QED
    BY <2>1, <2>2
<1> HIDE DEF n, o
<1>5. /\ JobsOK(g) /\ NodeOK(o, Grant(o, n), g) /\ Grant(o, n).mode = n.mode
      /\ \A i \in Jobs : g[i] = job[i] \/ i \in On(job, o)
      /\ \A i \in Jobs : /\ g[i].at = job[i].at /\ g[i].obj = job[i].obj
                         /\ g[i].tokens = job[i].tokens
  <2>1. job \in [Jobs -> JobRecord]
    BY <1>2 DEF JobsOK
  <2>2. Grant(o, n).mode = n.mode
    <3> HIDE DEF g
    <3>1. NodeOK(o, n, job)
      BY <1>4
    <3>2. QED
      BY <2>1, <3>1, GrantKeeps
  <2>3. QED
    BY <1>2, <1>4, <2>2, GrantedJobsOK
<1>6. s \in InWaitReady
  BY DEF InWaitReady
<1> HIDE DEF g, s
<1>7. job'[j] = [g[j] EXCEPT !.at = s] /\ \A i \in Jobs \ {j} : job'[i] = g[i]
  BY <1>1, <1>5 DEF JobsOK
<1>8. g[j] \in JobRecord /\ RequestOK(g[j])
  BY <1>5 DEF JobsOK, RequestOK
<1>9. /\ job'[j] \in JobRecord /\ job'[j].at = s /\ job'[j].obj = g[j].obj
      /\ job'[j].held = g[j].held /\ job'[j].tokens = g[j].tokens
      /\ Unfinished(job'[j]) /\ Unfinished(g[j])
  BY <1>2, <1>5, <1>6, <1>7, <1>8 DEF JobRecord, Unfinished, InWaitReady
<1>10. JobsOK(job')
  <2>1. job' \in [Jobs -> JobRecord]
    BY <1>1, <1>5, <1>9 DEF JobsOK
  <2>2. \A i \in Jobs : RequestOK(job'[i])
    BY <1>5, <1>7, <1>8, <1>9 DEF RequestOK, JobsOK
  <2>3. QED
    BY <2>1, <2>2 DEF JobsOK
<1>11. NodeOK(o, Grant(o, n), job')
  <2>1. \A i \in Jobs : i \in On(g, o) <=> i \in On(job', o)
    BY <1>7, <1>9 DEF On
  <2>2. g[j].at \in InWaitReady
    BY <1>1, <1>5
  <2>3. \A i \in On(g, o) : /\ job'[i].tokens = g[i].tokens /\ job'[i].held = g[i].held
                            /\ job'[i].at \in InWaitReady => g[i].at \in InWaitReady
    BY <1>7, <1>9, <2>2 DEF On
  <2>4. QED
    BY <1>5, <2>1, <2>3, SameBooks
<1>12. \A i \in Jobs : \/ job'[i] = job[i]
                       \/ /\ Unfinished(job[i]) => job[i].obj = o
                          /\ Unfinished(job'[i]) => job'[i].obj = o
  <2>1. job[j].obj = o /\ job'[j].obj = o
    BY <1>5, <1>9 DEF o
  <2>2. \A i \in Jobs \ {j} : job'[i] = job[i] \/ (job[i].obj = o /\ job'[i].obj = o)
    BY <1>5, <1>7 DEF On
  <2>3. QED
    BY <2>1, <2>2
<1>13. QED
  BY <1>1, <1>2, <1>4, <1>5, <1>10, <1>11, <1>12, SameOrDecode

\* A request is its four fields.
LEMMA SameRecord ==
  ASSUME NEW r \in JobRecord, NEW s \in JobRecord,
         r.at = s.at, r.obj = s.obj, r.held = s.held, r.tokens = s.tokens
  PROVE  r = s
BY DEF JobRecord

\* What leaving and giving a slot back do to a job, and to its node.
Leaving(f, j) == [f EXCEPT ![j].at = "leaving"]
SlotFree(f, j) == [f EXCEPT ![j].held = FALSE]
Less(n) == [n EXCEPT !.running = @ - 1]
Held(r) == [r EXCEPT !.held = TRUE]

\* A job that has left the queue, and the node it has left.
LEMMA LeftQueue ==
  ASSUME NEW f, JobsOK(f), NEW o, NEW n, NodeOK(o, n, f), NEW j \in Jobs, Unfinished(f[j])
  PROVE  LET m == Dequeued(j, n)
             g == Leaving(f, j)
         IN  /\ NodeOK(o, m, g) /\ JobsOK(g) /\ j \notin ToSet(m.queue)
             /\ m.mode = n.mode /\ g[j] \in JobRecord
             /\ g[j].at = "leaving" /\ g[j].obj = f[j].obj /\ g[j].held = f[j].held
             /\ g[j].tokens = f[j].tokens /\ \A i \in Jobs \ {j} : g[i] = f[i]
<1> DEFINE m == Dequeued(j, n)
           g == Leaving(f, j)
<1>1. n \in NodeRecord /\ Queue(n.queue)
  BY DEF NodeOK, Books
<1>2. PICK r : /\ Queue(r) /\ ToSet(r) = ToSet(n.queue) \ {j}
               /\ m = [n EXCEPT !.queue = r]
  BY <1>1, QueueLeft
<1> HIDE DEF m
<1>3. /\ m \in NodeRecord /\ m.queue = r /\ m.mode = n.mode /\ m.pending = n.pending
      /\ m.running = n.running /\ m.idle = n.idle
  BY <1>1, <1>2 DEF NodeRecord, Queue
<1>4. f[j] \in JobRecord /\ RequestOK(f[j])
  BY DEF JobsOK, RequestOK
<1>5. g[j] = [f[j] EXCEPT !.at = "leaving"] /\ \A i \in Jobs \ {j} : g[i] = f[i]
  BY DEF JobsOK, Leaving
<1>6. g = [i \in Jobs |-> g[i]]
  BY DEF JobsOK, Leaving
<1> HIDE DEF g
<1>7. /\ g[j] \in JobRecord /\ g[j].at = "leaving" /\ g[j].obj = f[j].obj
      /\ g[j].held = f[j].held /\ g[j].tokens = f[j].tokens /\ Unfinished(g[j])
      /\ g[j].at \notin InWaitReady
  BY <1>4, <1>5 DEF JobRecord, Unfinished, InWaitReady
<1>8. JobsOK(g)
  <2>1. \A i \in Jobs : g[i] \in JobRecord /\ RequestOK(g[i])
    BY <1>4, <1>5, <1>7 DEF RequestOK, JobsOK
  <2>2. QED
    BY <1>6, <2>1 DEF JobsOK
<1>9. On(g, o) = On(f, o) /\ \A i \in On(f, o) : g[i].tokens = f[i].tokens /\ g[i].held = f[i].held
  BY <1>5, <1>7 DEF On
<1>10. Charge(g, o) = Charge(f, o)
  BY <1>9 DEF Charge
<1>11. Holders(g, o) = Holders(f, o)
  BY <1>9 DEF Holders
<1>12. ModeFits(o, m, g)
  BY <1>3, <1>9, <1>11 DEF NodeOK, ModeFits
<1>13. Books(o, m, g)
  <2>1. \A i \in ToSet(r) : i \in On(g, o) /\ g[i].held = FALSE
    BY <1>2, <1>9 DEF NodeOK, Books
  <2>2. ASSUME NEW i \in On(g, o), g[i].at \in InWaitReady
        PROVE  g[i].held = TRUE \/ i \in ToSet(r)
    <3>1. i \in On(f, o) /\ i \in Jobs /\ i # j
      BY <1>7, <1>9, <2>2 DEF On
    <3>2. g[i] = f[i]
      BY <1>5, <3>1
    <3>3. f[i].held = TRUE \/ i \in ToSet(n.queue)
      BY <2>2, <3>1, <3>2 DEF NodeOK, Books
    <3>4. QED
      BY <1>2, <3>1, <3>2, <3>3
  <2>3. m.pending = SumOver(Charge(g, o), Jobs) /\ m.running = Cardinality(Holders(g, o))
    BY <1>3, <1>10, <1>11 DEF NodeOK, Books
  <2>4. QED
    BY <1>2, <1>3, <2>1, <2>2, <2>3 DEF Books
<1>14. QED
  BY <1>2, <1>3, <1>5, <1>7, <1>8, <1>12, <1>13 DEF NodeOK, m, g

\* One slot fewer, and nothing else.
LEMMA LessFields ==
  ASSUME NEW n \in NodeRecord
  PROVE  Less(n).mode = n.mode /\ Less(n).queue = n.queue
BY DEF Less, NodeRecord

\* A job that gives its slot back, before the slot is handed on.
LEMMA SlotBack ==
  ASSUME NEW f, JobsOK(f), NEW o, NEW n, NodeOK(o, n, f), NEW j \in Jobs,
         j \in On(f, o), f[j].held = TRUE, f[j].at \notin InWaitReady
  PROVE  LET m == Less(n)
             g == SlotFree(f, j)
         IN  /\ NodeOK(o, m, g) /\ JobsOK(g)
             /\ g[j] \in JobRecord /\ \A i \in Jobs \ {j} : g[i] = f[i]
             /\ g[j].at = f[j].at /\ g[j].obj = f[j].obj /\ g[j].held = FALSE
             /\ g[j].tokens = f[j].tokens
<1> DEFINE g == SlotFree(f, j)
           k == n.running - 1
           m == [n EXCEPT !.running = k]
<1>1. n \in NodeRecord /\ Queue(n.queue)
  BY DEF NodeOK, Books
<1>2. g[j] = [f[j] EXCEPT !.held = FALSE] /\ \A i \in Jobs \ {j} : g[i] = f[i]
  BY DEF JobsOK, SlotFree
<1>3. g = [i \in Jobs |-> g[i]]
  BY DEF JobsOK, SlotFree
<1> HIDE DEF g
<1>4. f[j] \in JobRecord /\ RequestOK(f[j]) /\ Unfinished(f[j])
  BY DEF JobsOK, RequestOK, On
<1>5. /\ g[j] \in JobRecord /\ g[j].at = f[j].at /\ g[j].obj = f[j].obj
      /\ g[j].held = FALSE /\ g[j].tokens = f[j].tokens /\ Unfinished(g[j])
  BY <1>2, <1>4, ZenonT(40) DEF JobRecord, Unfinished
<1>6. JobsOK(g)
  <2>1. \A i \in Jobs : g[i] \in JobRecord /\ RequestOK(g[i])
    BY <1>2, <1>4, <1>5 DEF RequestOK, JobsOK
  <2>2. QED
    BY <1>3, <2>1 DEF JobsOK
<1>7. On(g, o) = On(f, o) /\ \A i \in On(f, o) : g[i].tokens = f[i].tokens /\ g[i].at = f[i].at
  BY <1>2, <1>4, <1>5, ZenonT(40) DEF On
<1>8. Charge(g, o) = Charge(f, o)
  BY <1>7 DEF Charge
<1>9. Holders(g, o) = Holders(f, o) \ {j} /\ j \in Holders(f, o)
  <2>1. \A i \in On(f, o) : i = j \/ g[i] = f[i]
    BY <1>2 DEF On
  <2>2. QED
    BY <1>5, <1>7, <2>1 DEF Holders
<1>10. Cardinality(Holders(g, o)) = k /\ k \in Nat
  <2>1. IsFiniteSet(Holders(f, o))
    BY SplitAssumption, FS_Subset DEF Holders, On
  <2>2. Cardinality(Holders(f, o) \ {j}) = Cardinality(Holders(f, o)) - 1
    BY <1>9, <2>1, FS_RemoveElement
  <2>3. IsFiniteSet(Holders(g, o))
    BY <1>9, <2>1, FS_Subset
  <2>4. n.running = Cardinality(Holders(f, o)) /\ Cardinality(Holders(g, o)) \in Nat
    BY <2>3, FS_CardinalityType DEF NodeOK, Books
  <2>5. QED
    BY <1>9, <2>2, <2>4
<1> HIDE DEF k
<1>11. /\ m \in NodeRecord /\ m.mode = n.mode /\ m.queue = n.queue /\ m.running = k
       /\ m.pending = n.pending /\ m.idle = n.idle
  BY <1>1, <1>10 DEF NodeRecord
<1> HIDE DEF m
<1>12. ModeFits(o, m, g)
  BY <1>7, <1>9, <1>11 DEF NodeOK, ModeFits
<1>13. Books(o, m, g)
  <2>1. \A i \in ToSet(n.queue) : i \in On(g, o) /\ g[i].held = FALSE
    <3>1. \A i \in ToSet(n.queue) : i \in On(f, o) /\ f[i].held = FALSE /\ i \in Jobs \ {j}
      BY DEF NodeOK, Books, On
    <3>2. QED
      BY <1>2, <1>7, <3>1
  <2>2. ASSUME NEW i \in On(g, o), g[i].at \in InWaitReady
        PROVE  g[i].held = TRUE \/ i \in ToSet(n.queue)
    <3>1. i \in On(f, o) /\ i \in Jobs /\ i # j
      BY <1>5, <1>7, <2>2 DEF On
    <3>2. g[i] = f[i]
      BY <1>2, <3>1
    <3>3. QED
      BY <2>2, <3>1, <3>2 DEF NodeOK, Books
  <2>3. m.pending = SumOver(Charge(g, o), Jobs) /\ m.running = Cardinality(Holders(g, o))
    BY <1>8, <1>10, <1>11 DEF NodeOK, Books
  <2>4. QED
    BY <1>1, <1>11, <2>1, <2>2, <2>3 DEF Books
<1>14. QED
  BY <1>2, <1>5, <1>6, <1>11, <1>12, <1>13 DEF NodeOK, Less, m, g, k

\* The model's step in these names.
LEMMA ReturnedIs ==
  ASSUME NEW j, NEW o, NEW n
  PROVE  /\ Returned(j, o, n) = IF job[j].held THEN Grant(o, Less(n)) ELSE n
         /\ ReturnedJobs(j, o, n) =
              IF job[j].held THEN Holding(o, Less(n), SlotFree(job, j)) ELSE SlotFree(job, j)
BY DEF Returned, ReturnedJobs, Less, SlotFree

\* The slot of a job that leaves, handed on.
LEMMA ReturnKeeps ==
  ASSUME SplitInv, NEW j \in Jobs, Unfinished(job[j])
  PROVE  LET o == job[j].obj
             n == Dequeued(j, node[o])
             N == Returned(j, o, n)
             R == ReturnedJobs(j, o, n)
             F == [R EXCEPT ![j].at = "leaving"]
         IN  /\ o \in Objs /\ NodeOK(o, N, F) /\ JobsOK(F) /\ j \notin ToSet(N.queue)
             /\ N.mode = node[o].mode /\ R = [i \in Jobs |-> R[i]]
             /\ F[j].held = FALSE /\ F[j].obj = o /\ F[j].tokens = job[j].tokens
             /\ F[j].at = "leaving"
             /\ \A i \in Jobs \ {j} : F[i] = job[i] \/ (job[i].obj = o /\ F[i].obj = o)
<1> DEFINE o == job[j].obj
           n == Dequeued(j, node[o])
           N == Returned(j, o, n)
           R == ReturnedJobs(j, o, n)
           F == [R EXCEPT ![j].at = "leaving"]
           f0 == Leaving(job, j)
<1>1. /\ JobsOK(job) /\ o \in Objs /\ NodeOK(o, node[o], job)
      /\ job \in [Jobs -> JobRecord] /\ job[j] \in JobRecord
  <2>1. JobsOK(job) /\ RequestOK(job[j])
    BY DEF SplitInv, JobsOK
  <2>2. QED
    BY <2>1 DEF SplitInv, RequestOK, JobsOK
<1>2. j \in On(job, o)
  BY DEF On
<1> DEFINE x == node[o]
<1> HIDE DEF o
<1>3. /\ NodeOK(o, n, f0) /\ JobsOK(f0) /\ j \notin ToSet(n.queue) /\ n.mode = x.mode
      /\ f0[j] \in JobRecord /\ f0[j].at = "leaving" /\ f0[j].obj = job[j].obj
      /\ f0[j].held = job[j].held /\ f0[j].tokens = job[j].tokens
      /\ \A i \in Jobs \ {j} : f0[i] = job[i]
  BY <1>1, LeftQueue
<1>4. f0[j].obj = o /\ Unfinished(f0[j]) /\ f0[j].at \notin InWaitReady
  BY <1>3 DEF Unfinished, InWaitReady, o
<1> DEFINE f1 == SlotFree(job, j)
<1>5. /\ f1[j] \in JobRecord /\ f1[j].held = FALSE /\ f1[j].obj = o
      /\ f1[j].tokens = job[j].tokens /\ \A i \in Jobs \ {j} : f1[i] = job[i]
      /\ f1 = [i \in Jobs |-> f1[i]]
  <2>1. f1[j] = [job[j] EXCEPT !.held = FALSE] /\ \A i \in Jobs \ {j} : f1[i] = job[i]
    BY <1>1 DEF SlotFree
  <2>2. f1 = [i \in Jobs |-> f1[i]]
    BY <1>1 DEF SlotFree
  <2> HIDE DEF f1
  <2>3. QED
    BY <1>1, <2>1, <2>2 DEF JobRecord, o
<1>6. CASE ~job[j].held
  <2>1. N = n /\ R = f1
    <3> HIDE DEF n
    <3>1. QED
      BY <1>6, ReturnedIs
  <2>2. job[j].held = FALSE
    BY <1>1, <1>6 DEF JobRecord
  <2> HIDE DEF N, R, n, f0, f1
  <2>3. F[j] = [f1[j] EXCEPT !.at = "leaving"] /\ \A i \in Jobs \ {j} : F[i] = f1[i]
    BY <1>5, <2>1
  <2>4. /\ F[j] \in JobRecord /\ F[j].at = "leaving" /\ F[j].obj = o /\ F[j].held = FALSE
        /\ F[j].tokens = job[j].tokens
    BY <1>5, <2>3 DEF JobRecord
  <2>5. R = [i \in Jobs |-> R[i]] /\ F = [i \in Jobs |-> F[i]]
    BY <1>5, <2>1
  <2> HIDE DEF F
  <2>6. F[j] = f0[j] /\ \A i \in Jobs \ {j} : F[i] = f0[i]
    <3>1. f0[j] \in JobRecord /\ f0[j].at = F[j].at /\ f0[j].obj = F[j].obj
          /\ f0[j].held = F[j].held /\ f0[j].tokens = F[j].tokens
      BY <1>3, <1>4, <2>2, <2>4
    <3>2. F[j] = f0[j]
      BY <2>4, <3>1, SameRecord
    <3>3. QED
      BY <1>3, <1>5, <2>3, <3>2
  <2>7. f0 = [i \in Jobs |-> f0[i]]
    BY <1>3 DEF JobsOK
  <2>8. F = f0
    BY <2>5, <2>6, <2>7, SMTT(30)
  <2>9. QED
    BY <1>1, <1>3, <2>1, <2>4, <2>5, <2>8 DEF N, R, F, n, o
<1>7. CASE job[j].held
  <2> DEFINE m == Less(n)
             f2 == SlotFree(f0, j)
             g == Holding(o, m, f2)
  <2>1. f0[j].held = TRUE /\ j \in On(f0, o)
    BY <1>1, <1>3, <1>4, <1>7 DEF JobRecord, On
  <2> HIDE DEF f0, n
  <2>2. /\ NodeOK(o, m, f2) /\ JobsOK(f2) /\ m.mode = n.mode /\ m.queue = n.queue
        /\ f2[j] \in JobRecord /\ f2[j].at = f0[j].at /\ f2[j].obj = f0[j].obj
        /\ f2[j].held = FALSE /\ f2[j].tokens = f0[j].tokens
        /\ \A i \in Jobs \ {j} : f2[i] = f0[i]
    <3> HIDE DEF N, R, F, g
    <3>1. NodeOK(o, n, f0) /\ JobsOK(f0) /\ f0[j].at \notin InWaitReady
      BY <1>3, <1>4
    <3>2. NodeOK(o, m, f2) /\ JobsOK(f2)
      BY <2>1, <3>1, SlotBack
    <3>3. m.mode = n.mode /\ m.queue = n.queue
      BY <3>1, LessFields DEF NodeOK, Books
    <3>4. /\ f2[j] \in JobRecord /\ f2[j].at = f0[j].at /\ f2[j].obj = f0[j].obj
          /\ f2[j].held = FALSE /\ f2[j].tokens = f0[j].tokens
      BY <2>1, <3>1, SlotBack
    <3>5. \A i \in Jobs \ {j} : f2[i] = f0[i]
      BY <2>1, <3>1, SlotBack
    <3>6. QED
      BY <3>2, <3>3, <3>4, <3>5
  <2>3. /\ f2[j].at = "leaving" /\ f2[j].obj = o /\ f2[j].held = FALSE
        /\ f2[j].tokens = job[j].tokens
    BY <1>3, <1>4, <2>2
  <2>4. N = Grant(o, m) /\ R = Holding(o, m, f1)
    BY <1>7, ReturnedIs
  <2> HIDE DEF m, f2
  <2>5. /\ JobsOK(g) /\ NodeOK(o, Grant(o, m), g)
        /\ \A i \in Jobs : g[i] = f2[i] \/ (i \in ToSet(m.queue) /\ i \in On(f2, o))
        /\ \A i \in Jobs : g[i].obj = f2[i].obj
    BY <2>2, GrantedJobsOK
  <2>6. f2 \in [Jobs -> JobRecord]
    BY <2>2 DEF JobsOK
  <2>7. Grant(o, m).mode = m.mode /\ ToSet(Grant(o, m).queue) \subseteq ToSet(m.queue)
    <3> HIDE DEF N, R, F, g
    <3>1. NodeOK(o, m, f2)
      BY <2>2
    <3>2. QED
      BY <2>6, <3>1, GrantKeeps
  <2>8. j \notin ToSet(Granted(o, m))
    <3>1. m \in NodeRecord /\ Queue(m.queue)
      BY <2>2 DEF NodeOK, Books
    <3>2. PICK k \in 0..Len(m.queue) : Granted(o, m) = SubSeq(m.queue, 1, k)
      BY <3>1, GrantedPrefix
    <3>3. ToSet(Granted(o, m)) \subseteq ToSet(m.queue)
      BY <3>1, <3>2, QueueCut
    <3>4. QED
      BY <1>3, <2>2, <3>3
  <2> HIDE DEF f1
  <2>11. /\ R = [i \in Jobs |-> IF i \in ToSet(Granted(o, m)) THEN Held(f1[i]) ELSE f1[i]]
         /\ g = [i \in Jobs |-> IF i \in ToSet(Granted(o, m)) THEN Held(f2[i]) ELSE f2[i]]
    BY <2>4 DEF Holding, Held
  <2>12. R[j] = f1[j] /\ g[j] = f2[j] /\ \A i \in Jobs \ {j} : R[i] = g[i]
    <3>1. \A i \in Jobs \ {j} : f1[i] = f2[i]
      BY <1>3, <1>5, <2>2
    <3> HIDE DEF R, g
    <3>2. QED
      BY <2>8, <2>11, <3>1
  <2>13. R = [i \in Jobs |-> R[i]]
    BY <2>11
  <2> HIDE DEF R, g
  <2>14. F[j] = [f1[j] EXCEPT !.at = "leaving"] /\ \A i \in Jobs \ {j} : F[i] = g[i]
    BY <2>12, <2>13
  <2>15. F[j] = f2[j]
    <3>1. /\ F[j] \in JobRecord /\ F[j].at = "leaving" /\ F[j].obj = o /\ F[j].held = FALSE
          /\ F[j].tokens = job[j].tokens
      BY <1>5, <2>14 DEF JobRecord
    <3>2. QED
      BY <2>2, <2>3, <3>1, SameRecord
  <2>16. F = [i \in Jobs |-> F[i]]
    BY <2>13
  <2>17. g = [i \in Jobs |-> g[i]]
    BY <2>5 DEF JobsOK
  <2> HIDE DEF F, N
  <2>18. F = g
    BY <2>12, <2>14, <2>15, <2>16, <2>17
  <2>19. \A i \in Jobs \ {j} : F[i] = job[i] \/ (job[i].obj = o /\ F[i].obj = o)
    <3> SUFFICES ASSUME NEW i \in Jobs \ {j}, F[i] # job[i]
                 PROVE  job[i].obj = o /\ F[i].obj = o
      OBVIOUS
    <3>1. f2[i] = job[i]
      BY <1>3, <2>2
    <3>2. i \in On(f2, o) /\ g[i].obj = f2[i].obj
      BY <2>5, <2>18, <3>1
    <3>3. QED
      BY <2>18, <3>1, <3>2 DEF On
  <2>20. j \notin ToSet(N.queue) /\ N.mode = x.mode
    BY <1>3, <2>2, <2>4, <2>7
  <2>21. NodeOK(o, N, F) /\ JobsOK(F)
    BY <2>4, <2>5, <2>18
  <2>22. QED
    BY <1>1, <2>3, <2>13, <2>15, <2>19, <2>20, <2>21 DEF F, N, R, n, o
<1>8. QED
  BY <1>6, <1>7

\* A job whose charge is given back.
LEMMA FinishKeeps ==
  ASSUME NEW f, JobsOK(f), NEW o, NEW n, NodeOK(o, n, f), NEW j \in Jobs, Unfinished(f[j]),
         f[j].obj = o, f[j].held = FALSE, j \notin ToSet(n.queue)
  PROVE  LET g == [f EXCEPT ![j] = [NoJob EXCEPT !.at = "over"]]
         IN  /\ NodeOK(o, [n EXCEPT !.pending = @ - f[j].tokens], g) /\ JobsOK(g)
             /\ ~Unfinished(g[j]) /\ \A i \in Jobs \ {j} : g[i] = f[i]
<1> DEFINE r == [NoJob EXCEPT !.at = "over"]
           g == [f EXCEPT ![j] = r]
           k == n.pending - f[j].tokens
           m == [n EXCEPT !.pending = k]
<1>1. n \in NodeRecord /\ Queue(n.queue)
  BY DEF NodeOK, Books
<1>2. r \in JobRecord /\ RequestOK(r) /\ ~Unfinished(r)
  BY DEF NoJob, JobRecord, RequestOK, Unfinished
<1> HIDE DEF r
<1>3. g[j] = r /\ \A i \in Jobs \ {j} : g[i] = f[i]
  BY DEF JobsOK
<1>4. JobsOK(g)
  <2>1. g \in [Jobs -> JobRecord]
    BY <1>2 DEF JobsOK
  <2>2. QED
    BY <1>2, <1>3, <2>1 DEF JobsOK
<1> HIDE DEF g
<1>5. On(g, o) = On(f, o) \ {j} /\ j \in On(f, o)
  BY <1>2, <1>3 DEF On
<1>6. Holders(g, o) = Holders(f, o)
  <2>1. \A i \in On(f, o) \ {j} : g[i] = f[i]
    BY <1>3 DEF On
  <2>2. QED
    BY <1>5, <2>1 DEF Holders
<1>7. SumOver(Charge(g, o), Jobs) = k /\ k \in Nat
  <2> DEFINE cf == Charge(f, o)
             cg == Charge(g, o)
  <2>1. \A i \in Jobs : cf[i] \in Nat
    BY ChargeOfNone
  <2>2. \A i \in Jobs : cg[i] \in Nat
    BY <1>4, ChargeOfNone
  <2>3. \A i \in Jobs \ {j} : cg[i] = cf[i]
    BY <1>3, <1>5 DEF Charge
  <2>4. cg[j] = 0 /\ cf[j] = f[j].tokens
    BY <1>5 DEF Charge
  <2>5. SumOver(cg, Jobs) \in Nat
    BY <1>4, ChargeOfNone
  <2> HIDE DEF cf, cg
  <2>6. SumOver(cg, Jobs) = SumOver(cf, Jobs) + cg[j] - cf[j] /\ SumOver(cf, Jobs) \in Int
    BY <2>1, <2>2, <2>3, ChargeMoves
  <2>7. n.pending = SumOver(cf, Jobs)
    BY DEF cf, NodeOK, Books
  <2>8. cf[j] \in Int
    BY <2>1
  <2>9. SumOver(cg, Jobs) = k
    BY <2>4, <2>6, <2>7, <2>8
  <2>10. QED
    BY <2>5, <2>9 DEF cg
<1> HIDE DEF k
<1>8. /\ m \in NodeRecord /\ m.mode = n.mode /\ m.queue = n.queue /\ m.running = n.running
      /\ m.pending = k /\ m.idle = n.idle
  BY <1>1, <1>7 DEF NodeRecord
<1> HIDE DEF m
<1>9. ModeFits(o, m, g)
  BY <1>5, <1>6, <1>8 DEF NodeOK, ModeFits
<1>10. Books(o, m, g)
  <2>1. \A i \in ToSet(n.queue) : i \in On(g, o) /\ g[i].held = FALSE
    <3>1. \A i \in ToSet(n.queue) : i \in On(f, o) /\ f[i].held = FALSE /\ i \in Jobs \ {j}
      BY DEF NodeOK, Books, On
    <3>2. QED
      BY <1>3, <1>5, <3>1
  <2>2. ASSUME NEW i \in On(g, o), g[i].at \in InWaitReady
        PROVE  g[i].held = TRUE \/ i \in ToSet(n.queue)
    <3>1. i \in On(f, o) /\ i \in Jobs /\ i # j
      BY <1>5, <2>2 DEF On
    <3>2. g[i] = f[i]
      BY <1>3, <3>1
    <3>3. QED
      BY <2>2, <3>1, <3>2 DEF NodeOK, Books
  <2>3. m.pending = SumOver(Charge(g, o), Jobs) /\ m.running = Cardinality(Holders(g, o))
    BY <1>6, <1>7, <1>8 DEF NodeOK, Books
  <2>4. QED
    BY <1>1, <1>8, <2>1, <2>2, <2>3 DEF Books
<1>11. QED
  BY <1>2, <1>3, <1>4, <1>9, <1>10 DEF NodeOK, m, g, k, r

\* The caller leaves a wait (manager.go:380-399).
LEMMA CallerLeavesKeeps ==
  ASSUME SplitInv, NEW j \in Jobs, Leave(j)
  PROVE  SplitInv'
<1>1. UNCHANGED << epoch, known, up >>
  BY DEF Leave
<1>2. CASE job[j].at = "draining" /\ job' = [job EXCEPT ![j].at = "leaving"] /\ UNCHANGED node
  <2>1. Unfinished(job[j])
    BY <1>2 DEF Unfinished
  <2>2. QED
    BY <1>1, <1>2, <2>1, StatusKeeps
<1> DEFINE o == job[j].obj
           N == Returned(j, o, Dequeued(j, node[o]))
           F == [ReturnedJobs(j, o, Dequeued(j, node[o])) EXCEPT ![j].at = "leaving"]
<1>3. CASE job[j].at = "waiting" /\ node' = [node EXCEPT ![o] = N] /\ job' = F
  <2>1. Unfinished(job[j])
    BY <1>3 DEF Unfinished
  <2>2. /\ o \in Objs /\ NodeOK(o, N, F) /\ JobsOK(F) /\ N.mode = node[o].mode
        /\ F[j].obj = o
        /\ \A i \in Jobs \ {j} : F[i] = job[i] \/ (job[i].obj = o /\ F[i].obj = o)
    BY <2>1, ReturnKeeps
  <2> HIDE DEF F, N
  <2>3. \A i \in Jobs : \/ job'[i] = job[i]
                        \/ /\ Unfinished(job[i]) => job[i].obj = o
                           /\ Unfinished(job'[i]) => job'[i].obj = o
    BY <1>3, <2>2
  <2> HIDE DEF o
  <2>4. QED
    BY <1>1, <1>3, <2>2, <2>3, SameOrDecode
<1>4. QED
  BY <1>2, <1>3 DEF Leave

\* A job is done (manager.go:155-171): slot, charge and mode at once.
LEMMA DoneKeeps ==
  ASSUME SplitInv, NEW j \in Jobs, Done(j)
  PROVE  SplitInv'
<1> DEFINE o == job[j].obj
           n == Dequeued(j, node[o])
           N == Returned(j, o, n)
           R == ReturnedJobs(j, o, n)
           F == [R EXCEPT ![j].at = "leaving"]
           M == [N EXCEPT !.pending = @ - Tokens(j)]
           over == [NoJob EXCEPT !.at = "over"]
           G == [F EXCEPT ![j] = over]
<1>1. /\ UNCHANGED << epoch, known, up >> /\ Unfinished(job[j])
      /\ node' = [node EXCEPT ![o] = Released(Tracked(M))]
      /\ job' = [R EXCEPT ![j] = over]
  BY SMTT(30) DEF Done, Unfinished
<1>2. /\ o \in Objs /\ NodeOK(o, N, F) /\ JobsOK(F) /\ j \notin ToSet(N.queue)
      /\ N.mode = node[o].mode /\ R = [i \in Jobs |-> R[i]]
      /\ F[j].held = FALSE /\ F[j].obj = o /\ F[j].tokens = job[j].tokens
      /\ F[j].at = "leaving"
      /\ \A i \in Jobs \ {j} : F[i] = job[i] \/ (job[i].obj = o /\ F[i].obj = o)
  BY <1>1, ReturnKeeps
<1>4. Unfinished(F[j])
  <2> HIDE DEF F
  <2>1. QED
    BY <1>2 DEF Unfinished
<1>5. job' = G
  <2> HIDE DEF R, over
  <2>1. QED
    BY <1>1, <1>2
<1>6. NodeOK(o, M, G) /\ JobsOK(G) /\ ~Unfinished(G[j]) /\ \A i \in Jobs \ {j} : G[i] = F[i]
  <2>1. M = [N EXCEPT !.pending = @ - F[j].tokens]
    BY <1>2 DEF Tokens
  <2> HIDE DEF F, N, M
  <2>2. QED
    BY <1>2, <1>4, <2>1, FinishKeeps
<1> HIDE DEF G, F, N
<1>7. M.mode = N.mode
  BY <1>2 DEF NodeOK, Books, NodeRecord
<1> HIDE DEF M
<1> DEFINE T == Tracked(M)
<1>8. NodeOK(o, T, G) /\ T.mode = M.mode
  BY <1>6, TrackedKeeps
<1> HIDE DEF T
<1>9. NodeOK(o, Released(T), G) /\ (Released(T).mode # "decode" => T.mode # "decode")
  BY <1>6, <1>8, ReleasedKeeps
<1>10. \A i \in Jobs : \/ job'[i] = job[i]
                       \/ /\ Unfinished(job[i]) => job[i].obj = o
                          /\ Unfinished(job'[i]) => job'[i].obj = o
  BY <1>2, <1>5, <1>6
<1>11. node' = [node EXCEPT ![o] = Released(T)]
  BY <1>1 DEF T
<1> HIDE DEF o
<1>12. Released(T).mode # "decode" => node[o].mode # "decode"
  BY <1>2, <1>7, <1>8, <1>9, SMTT(30)
<1>13. QED
  <2>1. NodeOK(o, Released(T), job') /\ JobsOK(job')
    BY <1>5, <1>6, <1>9
  <2>2. o \in Objs
    BY <1>2
  <2>3. UNCHANGED << epoch, known, up >>
    BY <1>1
  <2>4. QED
    BY <1>10, <1>11, <1>12, <2>1, <2>2, <2>3, SameOrDecode

\* Nodes idle for long go back to decode: they have no jobs.
LEMMA ExpiryKeeps ==
  ASSUME SplitInv, ReleaseExpired
  PROVE  SplitInv'
<1> DEFINE late == {o \in Objs : /\ o = Cur(o[1]) /\ node[o].mode = "prefill"
                                 /\ node[o].idle # Off /\ node[o].idle >= ReleaseIdle}
<1>1. /\ node' = [o \in Objs |->
           IF o \in late THEN [node[o] EXCEPT !.mode = "decode", !.idle = Off] ELSE node[o]]
      /\ UNCHANGED << job, epoch, known, up >>
  BY DEF ReleaseExpired
<1>2. ASSUME NEW o \in Objs
      PROVE  /\ NodeOK(o, node'[o], job) /\ node'[o] \in NodeRecord
             /\ node'[o].mode # "decode" => node[o].mode # "decode"
  <2>1. NodeOK(o, node[o], job) /\ node[o] \in NodeRecord
    BY DEF SplitInv
  <2>2. CASE o \in late
    <3>1. node'[o] = [node[o] EXCEPT !.mode = "decode", !.idle = Off] /\ node[o].idle # Off
      BY <1>1, <2>2
    <3>2. On(job, o) = {}
      BY <2>1, <3>1 DEF NodeOK, ModeFits
    <3>3. /\ node'[o] \in NodeRecord /\ node'[o].mode = "decode"
          /\ node'[o].pending = node[o].pending /\ node'[o].running = node[o].running
          /\ node'[o].queue = node[o].queue
      BY <2>1, <3>1 DEF NodeRecord
    <3>4. QED
      BY <2>1, <3>2, <3>3, SameFields
  <2>3. CASE o \notin late
    <3>1. node'[o] = node[o]
      BY <1>1, <2>3
    <3>2. QED
      BY <2>1, <3>1
  <2>4. QED
    BY <2>2, <2>3
<1>3. node' \in [Objs -> NodeRecord]
  <2>1. node' = [o \in Objs |-> node'[o]]
    BY <1>1
  <2>2. QED
    BY <1>2, <2>1
<1>4. QED
  BY <1>1, <1>2, <1>3, NodesOnly

\* Clocks that are set stay set.
LEMMA TimeKeeps ==
  ASSUME SplitInv, SplitTick
  PROVE  SplitInv'
<1> DEFINE Later(t, max) == IF t = Off \/ t >= max THEN t ELSE t + 1
<1>1. /\ node' = [o \in Objs |-> [node[o] EXCEPT !.over = Later(@, ConvertAfter),
                                                !.idle = Later(@, ReleaseIdle)]]
      /\ UNCHANGED << job, epoch, known, up >>
  BY DEF SplitTick
<1>2. \A t \in Nat \cup {Off}, max \in Nat :
        Later(t, max) \in Nat \cup {Off} /\ (Later(t, max) = Off <=> t = Off)
  BY SplitAssumption
<1>3. ASSUME NEW o \in Objs
      PROVE  /\ NodeOK(o, node'[o], job) /\ node'[o] \in NodeRecord
             /\ node'[o].mode = node[o].mode
  <2>1. NodeOK(o, node[o], job) /\ node[o] \in NodeRecord
    BY DEF SplitInv
  <2> DEFINE a == Later(node[o].over, ConvertAfter)
             b == Later(node[o].idle, ReleaseIdle)
  <2>2. a \in Nat \cup {Off} /\ b \in Nat \cup {Off} /\ (b = Off <=> node[o].idle = Off)
    <3>1. node[o].over \in Nat \cup {Off} /\ node[o].idle \in Nat \cup {Off}
      BY <2>1 DEF NodeRecord
    <3> HIDE DEF Later
    <3>2. QED
      BY <1>2, <3>1, SplitAssumption
  <2>3. node'[o] = [node[o] EXCEPT !.over = a, !.idle = b]
    BY <1>1
  <2> HIDE DEF a, b
  <2>4. /\ node'[o] \in NodeRecord /\ node'[o].mode = node[o].mode /\ node'[o].idle = b
        /\ node'[o].pending = node[o].pending /\ node'[o].running = node[o].running
        /\ node'[o].queue = node[o].queue
    BY <2>1, <2>2, <2>3 DEF NodeRecord
  <2>5. node'[o].idle = node[o].idle \/ On(job, o) = {}
    BY <2>1, <2>2, <2>4 DEF NodeOK, ModeFits
  <2>6. QED
    BY <2>1, <2>4, <2>5, SameFields
<1>4. node' \in [Objs -> NodeRecord]
  <2>1. node' = [o \in Objs |-> node'[o]]
    BY <1>1
  <2>2. QED
    BY <1>3, <2>1
<1>5. QED
  BY <1>1, <1>3, <1>4, NodesOnly

\* Forgetting the departed: a fresh object in decode for each.
LEMMA PruneKeeps ==
  ASSUME SplitInv, Prune
  PROVE  SplitInv'
<1> DEFINE gone == {u \in Urls \ known : node[Cur(u)] # Fresh}
<1>1. /\ gone # {} /\ MapThenSumSet(LAMBDA u : epoch[u], Urls) + Cardinality(gone) <= MaxEpoch
      /\ epoch' = [u \in Urls |-> IF u \in gone THEN epoch[u] + 1 ELSE epoch[u]]
      /\ UNCHANGED << node, job, known, up >>
  BY DEF Prune
<1>2. epoch \in [Urls -> Nat] /\ \A u \in Urls : Cur(u) \in Objs
  BY DEF SplitInv, PlacesOK
<1>3. gone \subseteq Urls /\ gone \subseteq Flaky
  BY DEF SplitInv, PlacesOK
<1> HIDE DEF gone
<1>4. Cardinality(gone) \in Nat /\ Cardinality(gone) > 0
  BY <1>1, <1>3, SplitAssumption, FS_Subset, FS_CardinalityType, FS_EmptySet
<1>5. SumOver(epoch, Urls) + Cardinality(gone) <= MaxEpoch
  BY <1>1 DEF SumOver
<1>6. ASSUME NEW u \in Urls PROVE epoch[u] <= SumOver(epoch, Urls) /\ SumOver(epoch, Urls) \in Int
  <2>1. IsFiniteSet(Urls) /\ \A x \in Urls : epoch[x] \in Int /\ epoch[x] \in Nat
    BY <1>2, SplitAssumption
  <2>2. SumOver(epoch, Urls) = epoch[u] + SumOver(epoch, Urls \ {u}) /\ SumOver(epoch, Urls) \in Int
    BY <2>1, SumRemoves
  <2>3. Urls \ {u} \in SUBSET Urls
        /\ \A x \in Urls \ {u} : epoch[x] = 0 \/ (x \in Urls \ {u} /\ epoch[x] <= epoch[x])
    BY <2>1
  <2>4. SumOver(epoch, Urls \ {u}) \in Nat
    BY <2>1, <2>3, SumAtMost
  <2>5. QED
    BY <2>1, <2>2, <2>4
<1>7. \A u \in Urls : epoch'[u] \in Nat /\ epoch[u] <= epoch'[u] /\ epoch' \in [Urls -> Nat]
  BY <1>1, <1>2
<1>8. ASSUME NEW u \in Urls PROVE Cur(u)' \in Objs
  <2>1. CASE u \in gone
    <3>1. epoch'[u] = epoch[u] + 1 /\ u \in Flaky
      BY <1>1, <1>3, <2>1
    <3>2. epoch[u] \in Nat /\ SumOver(epoch, Urls) \in Int /\ epoch[u] <= SumOver(epoch, Urls)
      BY <1>2, <1>6
    <3>3. epoch'[u] \in 1..MaxEpoch
      BY <1>4, <1>5, <3>1, <3>2, SplitAssumption
    <3>4. QED
      BY <3>1, <3>3 DEF Cur, Objs
  <2>2. CASE u \notin gone
    <3>1. Cur(u)' = Cur(u)
      BY <1>1, <2>2 DEF Cur
    <3>2. QED
      BY <1>2, <3>1
  <2>3. QED
    BY <2>1, <2>2
<1>9. PlacesOK'
  <2>1. \A o \in Objs : node[o].mode # "decode" => o[2] <= epoch'[o[1]]
    <3> SUFFICES ASSUME NEW o \in Objs, node[o].mode # "decode" PROVE o[2] <= epoch'[o[1]]
      OBVIOUS
    <3>1. o[1] \in Urls /\ o[2] \in Nat /\ o[2] <= epoch[o[1]]
      BY SplitAssumption DEF SplitInv, PlacesOK, Objs
    <3>2. QED
      BY <1>2, <1>7, <3>1
  <2>2. known' \subseteq Urls /\ up' \subseteq known' /\ Urls \ known' \subseteq Flaky
    BY <1>1 DEF SplitInv, PlacesOK
  <2>3. epoch' \in [Urls -> Nat]
    BY <1>1, <1>2
  <2>4. QED
    BY <1>1, <1>8, <2>1, <2>2, <2>3 DEF PlacesOK
<1>10. DecodeRemains'
  <2>1. PICK u \in Urls : node[Cur(u)].mode = "decode"
    BY DEF SplitInv, DecodeRemains, Mode
  <2>2. CASE u \in gone
    <3>1. Cur(u)' \in Objs /\ Cur(u)'[1] = u /\ Cur(u)'[2] = epoch[u] + 1
      BY <1>1, <1>8, <2>2 DEF Cur
    <3>2. node[Cur(u)'].mode = "decode"
      <4>1. ~(epoch[u] + 1 <= epoch[u])
        BY <1>2
      <4>2. QED
        BY <3>1, <4>1 DEF SplitInv, PlacesOK
    <3>3. QED
      BY <1>1, <3>2 DEF DecodeRemains, Mode
  <2>3. CASE u \notin gone
    <3>1. Cur(u)' = Cur(u)
      BY <1>1, <2>3 DEF Cur
    <3>2. QED
      BY <1>1, <2>1, <3>1 DEF DecodeRemains, Mode
  <2>4. QED
    BY <2>2, <2>3
<1>11. /\ JobsOK(job)' /\ node' \in [Objs -> NodeRecord]
       /\ \A o \in Objs : NodeOK(o, node[o], job)'
  <2>1. JobsOK(job') /\ \A o \in Objs : NodeOK(o, node'[o], job')
    BY <1>1 DEF SplitInv
  <2>2. JobsOK(job)' /\ \A o \in Objs : NodeOK(o, node[o], job)'
    BY <2>1
  <2>3. QED
    BY <1>1, <2>2 DEF SplitInv
<1>12. QED
  BY <1>9, <1>10, <1>11 DEF SplitInv

\* Everybody decodes at first.
LEMMA SplitStarts == SplitInit => SplitInv
<1> SUFFICES ASSUME SplitInit PROVE SplitInv
  OBVIOUS
<1>1. /\ node = [o \in Objs |-> Fresh] /\ epoch = [u \in Urls |-> 0] /\ job = [j \in Jobs |-> NoJob]
      /\ known = Urls /\ up = Urls
  BY DEF SplitInit
<1>2. NoJob \in JobRecord /\ RequestOK(NoJob) /\ ~Unfinished(NoJob)
  BY DEF NoJob, JobRecord, RequestOK, Unfinished
<1>3. JobsOK(job)
  BY <1>1, <1>2 DEF JobsOK
<1>4. /\ Fresh \in NodeRecord /\ Fresh.mode = "decode" /\ Fresh.pending = 0 /\ Fresh.running = 0
      /\ Fresh.queue = << >> /\ Fresh.idle = Off
  BY DEF Fresh, NodeRecord
<1>5. Queue(<< >>) /\ ToSet(<< >>) = {}
  BY DEF Queue, ToSet
<1>6. ASSUME NEW o PROVE NodeOK(o, Fresh, job)
  <2>1. On(job, o) = {} /\ Holders(job, o) = {}
    BY <1>1, <1>2 DEF On, Holders
  <2> DEFINE c == Charge(job, o)
  <2>2. \A j \in Jobs : c[j] = 0
    BY <2>1 DEF Charge
  <2> HIDE DEF c
  <2>3. SumOver(c, Jobs) = 0
    BY <2>2, SplitAssumption, SumOfZeros
  <2>4. QED
    BY <1>4, <1>5, <2>1, <2>3, FS_EmptySet DEF NodeOK, Books, ModeFits, c
<1>7. \A u \in Urls : Cur(u) \in Objs /\ Cur(u) = << u, 0 >>
  BY <1>1 DEF Cur, Objs
<1> HIDE DEF Fresh
<1>8. node \in [Objs -> NodeRecord] /\ \A o \in Objs : node[o] = Fresh
  BY <1>1, <1>4
<1>9. PlacesOK
  BY <1>1, <1>4, <1>7, <1>8 DEF PlacesOK
<1>10. DecodeRemains
  BY <1>4, <1>7, <1>8, SplitAssumption DEF DecodeRemains, Mode
<1>11. QED
  BY <1>3, <1>6, <1>8, <1>9, <1>10 DEF SplitInv

\* What touches no node, job or place.
LEMMA SplitIdles ==
  ASSUME SplitInv, UNCHANGED << node, epoch, job, known, up >>
  PROVE  SplitInv'
<1>1. \A o \in Objs : NodeOK(o, node[o], job)
  BY DEF SplitInv
<1>2. JobsOK(job')
  BY DEF SplitInv
<1>3. QED
  BY <1>1, <1>2, JobsOnly

\* Each step of the split in turn.
LEMMA SplitKeeps == SplitInv /\ [SplitNext]_splitVars => SplitInv'
<1> SUFFICES ASSUME SplitInv, [SplitNext]_splitVars PROVE SplitInv'
  OBVIOUS
<1>1. ASSUME NEW j \in Jobs, NEW t \in Sizes, Reserve(j, t) PROVE SplitInv'
  <2>1. t \in Nat
    BY SplitAssumption
  <2>2. QED
    BY <1>1, <2>1, ReserveKeeps
<1>2. ASSUME NEW j \in Jobs, NoNode(j) \/ Another(j) PROVE SplitInv'
  <2>1. UNCHANGED << node, epoch, known, up >> /\ ~Unfinished(job[j])
    BY <1>2 DEF NoNode, Another, Unfinished
  <2>2. CASE NoNode(j)
    <3> DEFINE r == [job[j] EXCEPT !.at = "over"]
    <3>1. JobsOK(job) /\ job[j] \in JobRecord /\ RequestOK(job[j])
      BY DEF SplitInv, JobsOK, RequestOK
    <3>2. job' = [job EXCEPT ![j] = r]
      BY <2>2, <3>1 DEF NoNode, JobsOK
    <3>3. r \in JobRecord /\ r.at = "over" /\ r.held = job[j].held
      BY <3>1 DEF JobRecord
    <3> HIDE DEF r
    <3>4. RequestOK(r) /\ ~Unfinished(r)
      BY <2>1, <3>1, <3>3 DEF RequestOK, Unfinished
    <3>5. QED
      BY <2>1, <3>2, <3>4, IdleRequest
  <2>3. CASE Another(j)
    <3>1. RequestOK(NoJob) /\ ~Unfinished(NoJob)
      BY DEF NoJob, JobRecord, RequestOK, Unfinished
    <3>2. job' = [job EXCEPT ![j] = NoJob]
      BY <2>3 DEF Another
    <3>3. QED
      BY <2>1, <3>1, <3>2, IdleRequest
  <2>4. QED
    BY <1>2, <2>2, <2>3
<1>3. ASSUME NEW j \in Jobs, Dispatch(j) \/ JobRefused(j) \/ JobEnds(j) PROVE SplitInv'
  <2>1. /\ UNCHANGED << node, epoch, known, up >> /\ Unfinished(job[j])
        /\ \E s \in {"running", "backoff", "leaving"} : job' = [job EXCEPT ![j].at = s]
    BY <1>3 DEF Dispatch, JobRefused, JobEnds, Unfinished
  <2>2. QED
    BY <2>1, StatusKeeps
<1>4. ASSUME NEW u \in Urls, ChooseDecode(u) \/ StartDecode(u) \/ EndDecode(u) PROVE SplitInv'
  BY <1>4, SplitIdles DEF ChooseDecode, StartDecode, EndDecode
<1>5. ASSUME NEW k \in SUBSET Urls, NEW h \in SUBSET Urls, Membership(k, h) PROVE SplitInv'
  <2>1. /\ h \subseteq k /\ Urls \ h \subseteq Flaky /\ known' = k /\ up' = h
        /\ UNCHANGED << node, epoch, job >>
    BY <1>5 DEF Membership
  <2>2. \A u \in Urls : Cur(u)' = Cur(u)
    BY <2>1 DEF Cur
  <2>3. PlacesOK'
    BY <2>1, <2>2 DEF SplitInv, PlacesOK
  <2>4. DecodeRemains'
    BY <2>1, <2>2 DEF SplitInv, DecodeRemains, Mode
  <2>5. JobsOK(job') /\ \A o \in Objs : NodeOK(o, node'[o], job')
    BY <2>1 DEF SplitInv
  <2>6. JobsOK(job)' /\ \A o \in Objs : NodeOK(o, node[o], job)'
    BY <2>5
  <2>7. node' \in [Objs -> NodeRecord]
    BY <2>1 DEF SplitInv
  <2>8. QED
    BY <2>3, <2>4, <2>6, <2>7 DEF SplitInv
<1>6. CASE UNCHANGED splitVars
  BY <1>6, SplitIdles DEF splitVars
<1>7. CASE SplitNext
  BY <1>1, <1>2, <1>3, <1>4, <1>5, <1>7, PollKeeps, CallerLeavesKeeps, DoneKeeps, ExpiryKeeps,
     PruneKeeps, TimeKeeps
  DEF SplitNext, JobStep
<1>8. QED
  BY <1>6, <1>7

\* The charges of a set of jobs, as the model adds them up.
LEMMA TokensTotal ==
  ASSUME NEW S, IsFiniteSet(S)
  PROVE  MapThenSumSet(Tokens, S) = SumOver([j \in S |-> Tokens(j)], S)
<1> DEFINE f == [j \in S |-> Tokens(j)]
           K(it) == [s \in SUBSET S |-> IF s = {} THEN 0 ELSE Tokens(First(s)) + it[s \ {First(s)}]]
           h == [s \in SUBSET S |-> Iter(f, S)[s]]
           it0 == CHOOSE it : it = K(it)
<1>1. \A s \in SUBSET S : Iter(f, S)[s] = Folded(f, Iter(f, S), s)
  <2> HIDE DEF f
  <2>1. QED
    BY IterFolds
<1>2. \A s \in SUBSET S : s # {} => First(s) \in S /\ s \ {First(s)} \in SUBSET S
  BY DEF First
<1>3. h = K(h)
  BY <1>1, <1>2 DEF Folded
<1>4. it0 = K(it0)
  <2> HIDE DEF h, K
  <2>1. QED
    BY <1>3
<1>5. \A s \in SUBSET S : it0[s] = Folded(f, it0, s)
  <2> HIDE DEF it0
  <2>1. QED
    BY <1>2, <1>4 DEF Folded
<1>6. it0[S] = SumOver(f, S)
  <2> HIDE DEF it0, f
  <2>1. QED
    BY <1>5, FoldIsSum
<1>7. MapThenSumSet(Tokens, S) = it0[S]
  BY DEF MapThenSumSet, MapThenFoldSet, First
<1>8. QED
  BY <1>6, <1>7

\* The books of the invariant are those of the property.
LEMMA BooksAccount == SplitInv => JobsAccounted
<1> SUFFICES ASSUME SplitInv, NEW o \in Objs
             PROVE  LET mine == Charged(o)
                        waits == {j \in mine : ~job[j].held /\ j \in ToSet(node[o].queue)}
                    IN  /\ node[o].pending = MapThenSumSet(Tokens, mine)
                        /\ node[o].running = Cardinality({j \in mine : job[j].held})
                        /\ Len(node[o].queue) = Cardinality(waits)
                        /\ \A j \in mine : job[j].at \in InWaitReady => job[j].held \/ j \in waits
  BY DEF JobsAccounted
<1> DEFINE mine == Charged(o)
           q == node[o].queue
           waits == {j \in mine : ~job[j].held /\ j \in ToSet(q)}
<1>1. Books(o, node[o], job) /\ JobsOK(job) /\ \A j \in Jobs : job[j].held \in BOOLEAN
  BY DEF SplitInv, NodeOK, JobsOK, JobRecord
<1>2. mine = On(job, o) /\ mine \in SUBSET Jobs
  BY DEF Charged, On, Unfinished
<1> HIDE DEF mine
<1>3. node[o].pending = MapThenSumSet(Tokens, mine)
  <2> DEFINE c == Charge(job, o)
             d == [j \in mine |-> Tokens(j)]
  <2>1. IsFiniteSet(Jobs) /\ IsFiniteSet(mine)
    BY <1>2, SplitAssumption, FS_Subset
  <2>2. \A j \in Jobs : c[j] \in Int
    BY <1>1, ChargeOfNone
  <2>3. (\A j \in Jobs \ mine : c[j] = 0) /\ \A j \in mine : c[j] = d[j]
    BY <1>2 DEF Charge, Tokens
  <2>4. MapThenSumSet(Tokens, mine) = SumOver(d, mine)
    BY <2>1, TokensTotal
  <2>5. node[o].pending = SumOver(c, Jobs)
    BY <1>1 DEF Books
  <2> HIDE DEF c, d
  <2>6. SumOver(c, Jobs) = SumOver(c, mine)
    BY <1>2, <2>1, <2>2, <2>3, SumSkips
  <2>7. SumOver(c, mine) = SumOver(d, mine)
    BY <2>1, <2>3, SumAgrees
  <2>8. QED
    BY <2>4, <2>5, <2>6, <2>7
<1>4. node[o].running = Cardinality({j \in mine : job[j].held})
  <2>1. {j \in mine : job[j].held} = Holders(job, o)
    BY <1>1, <1>2 DEF Holders
  <2>2. QED
    BY <1>1, <2>1 DEF Books
<1>5. waits = ToSet(q) /\ Len(q) = Cardinality(ToSet(q))
  <2>1. waits = ToSet(q)
    BY <1>1, <1>2 DEF Books
  <2>2. QED
    BY <1>1, <2>1, QueueCount DEF Books
<1>6. \A j \in mine : job[j].at \in InWaitReady => job[j].held \/ j \in waits
  BY <1>1, <1>2, <1>5 DEF Books
<1> HIDE DEF waits
<1>7. QED
  BY <1>3, <1>4, <1>5, <1>6 DEF mine, waits

\* SplitSound: the charge of a node is exactly its unfinished jobs, its slots the jobs that
\* hold one, its queue the others (manager.go:156-171, 406-433); no node goes back to decode
\* with a job left (manager.go:456-459), and one always decodes (manager.go:68).
THEOREM SplitAlwaysSound == SplitSpec => []SplitSound
<1>1. SplitInv => SplitSound
  <2> SUFFICES ASSUME SplitInv PROVE SlotsOnPrefill
    BY BooksAccount DEF SplitSound, SplitInv
  <2> SUFFICES ASSUME NEW j \in Jobs, job[j].held PROVE node[job[j].obj].mode = "prefill"
    BY DEF SlotsOnPrefill
  <2>1. RequestOK(job[j]) /\ job[j].held = TRUE
    BY DEF SplitInv, JobsOK, JobRecord
  <2>2. Unfinished(job[j]) /\ job[j].obj \in Objs
    BY <2>1 DEF RequestOK
  <2>3. j \in Holders(job, job[j].obj)
    BY <2>1, <2>2 DEF Holders, On
  <2>4. QED
    BY <2>2, <2>3 DEF SplitInv, NodeOK, ModeFits
<1>2. QED
  BY <1>1, SplitStarts, SplitKeeps, PTL DEF SplitSpec
==============================================================================
