---------------------------- MODULE ServingProofs ----------------------------
(***************************************************************************)
(* What the parts that serve a request promise for any backends, bodies    *)
(* and bounds: an attempt's verdict on its backend (UpstreamStream), the   *)
(* attempts of one Serve (ProxyServe), the two legs of a disaggregated     *)
(* request (PdServe), whom the health checker lets in (Health), the model  *)
(* and the key a route sends upstream (ModelRouting), and what the chat    *)
(* clients recover and answer (ChatClients).                               *)
(*                                                                         *)
(* Each property needs the history behind the state it speaks of: what     *)
(* failed an attempt long before the breaker is told, which backends a     *)
(* Serve has gone through and on which budget, that transfer parameters    *)
(* exist only once a leg has ended, which calls a conversation has already *)
(* answered.  Those are the invariants here.                               *)
(***************************************************************************)
EXTENDS ProxyServe, UpstreamStream, PdServe, Health, ModelRouting, ChatClients, Sums,
        FiniteSetTheorems, FunctionTheorems, SequenceTheorems, TLAPS

(* One attempt. *)

\* The idle timer is armed by the headers, and whatever has failed an attempt has
\* a cause that is still there.
CauseKept ==
  /\ step = "dial" => idled = FALSE
  /\ failed = TRUE => hungUp = TRUE \/ expired = TRUE \/ upstream = "broke"
  /\ scan.aborted = TRUE => expired = TRUE \/ upstream = "broke"

StreamType ==
  /\ hungUp \in BOOLEAN /\ expired \in BOOLEAN /\ idled \in BOOLEAN /\ failed \in BOOLEAN
  /\ scan \in [first : BOOLEAN, sawEnd : BOOLEAN, aborted : BOOLEAN,
               label : {"none", "client_disconnect", "upstream_error"}]
  /\ marker \in BOOLEAN

StreamInv == StreamType /\ CauseKept /\ BlamelessBackend

\* An attempt begins with nothing failed and no verdict.
LEMMA StreamInitInv == StreamInit => StreamInv
<1> SUFFICES ASSUME StreamInit PROVE StreamInv
  OBVIOUS
<1>1. NewScan.aborted = FALSE
  BY DEF NewScan
<1>2. StreamType
  BY DEF StreamInit, StreamType, NewScan
<1>3. CauseKept
  BY <1>1 DEF StreamInit, CauseKept
<1>4. BlamelessBackend
  BY VerdictAssumption DEF StreamInit, BlamelessBackend
<1>5. QED
  BY <1>2, <1>3, <1>4 DEF StreamInv

\* Every step of the attempt and of its surroundings keeps the causes and the verdict.
LEMMA StreamNextInv == StreamInv /\ [StreamNext]_streamVars => StreamInv'
<1> SUFFICES ASSUME StreamInv, [StreamNext]_streamVars PROVE StreamInv'
  OBVIOUS
<1> USE DEF StreamInv, StreamType, CauseKept, BlamelessBackend
<1>1. ASSUME NEW s \in {"ok", "full", "error"}, UpstreamAnswers(s) PROVE StreamInv'
  BY <1>1 DEF UpstreamAnswers
<1>2. ASSUME NEW last \in BOOLEAN, UpstreamSends(last) PROVE StreamInv'
  BY <1>2 DEF UpstreamSends
<1>3. ASSUME NEW how \in {"ended", "broke"}, UpstreamStops(how) PROVE StreamInv'
  BY <1>3 DEF UpstreamStops
<1>4. CASE ClientLeaves
  BY <1>4 DEF ClientLeaves
<1>5. CASE DeadlinePasses
  BY <1>5 DEF DeadlinePasses
<1>6. CASE IdleFires
  BY <1>6 DEF IdleFires
<1>7. CASE RoundTripFails
  BY <1>7 DEF RoundTripFails, world, ContextDone
<1>8. CASE Relayed
  BY <1>8 DEF Relayed, world
<1>9. CASE ReadChunk
  BY <1>9 DEF ReadChunk
<1>10. CASE ReadEOF
  BY <1>10 DEF ReadEOF, world
<1>11. CASE Write
  BY <1>11 DEF Write, world
<1>12. ASSUME NEW c \in {"canceled", "deadline", "eof"}, ReadFails(c) PROVE StreamInv'
  BY <1>12 DEF ReadFails, world, NamedCause
<1>13. CASE RecordReturned
  BY <1>13 DEF RecordReturned, world, ClientGone, Err, Classify
<1>14. CASE RecordPanicked
  BY <1>14 DEF RecordPanicked, world
<1>15. CASE ClientStalls \/ ClientResumes
  BY <1>15 DEF ClientStalls, ClientResumes
<1>16. CASE UNCHANGED streamVars
  BY <1>16 DEF streamVars, world
<1>17. QED
  BY <1>1, <1>2, <1>3, <1>4, <1>5, <1>6, <1>7, <1>8, <1>9, <1>10, <1>11, <1>12, <1>13,
     <1>14, <1>15, <1>16 DEF StreamNext, RouterStep

\* proxy.go:386-390, 669-676: whenever the caller gives up, a failure recorded
\* against a backend has a cause of its own, or ran into RequestTimeout.
THEOREM BlameHasCause == StreamSpec => []BlamelessBackend
<1>1. StreamInv => BlamelessBackend
  BY DEF StreamInv
<1>2. QED
  BY <1>1, StreamInitInv, StreamNextInv, PTL DEF StreamSpec

----------------------------------------------------------------------------
(* A request served in two legs. *)

Body == [limit : {b.limit : b \in BodyShapes}, stream : BOOLEAN,
         params : {b.params : b \in BodyShapes}]

\* Only a completed leg gives parameters, and then the decode leg begins; a leg's
\* node is a P node.
LegKept ==
  /\ healthy \subseteq PdBackends
  /\ body \in BodyShapes \cup {NotJson}
  /\ pd \in {"idle", "leg", "wait"} => params = NoParams
  /\ leg.node \in PrefillUrls \cup {NoParams}

PdInv == LegKept /\ DecodeIsTheRequest

\* The body a leg that completed hands to the decode leg.
LEMMA DecodeBodyKeeps ==
  ASSUME NEW b \in BodyShapes, NEW n
  PROVE  /\ DecodeBody(b, n).limit = b.limit
         /\ DecodeBody(b, n).stream = b.stream
         /\ DecodeBody(b, n).params = n
<1>1. b \in Body /\ b # NotJson
  BY BodyAssumption DEF Body
<1>2. QED
  BY <1>1 DEF DecodeBody, Body

\* The decode leg begins on nodes that are no P nodes.
LEMMA DecodeStarts ==
  ASSUME LegKept, NEW b, StartDecode(b), leg'.node \in PrefillUrls \cup {NoParams},
         body' = body, healthy' = healthy,
         body # NotJson =>
           /\ b.limit = body.limit /\ b.stream = body.stream
           /\ b.params \in {body.params, params'}
           /\ params' # NoParams => b.params = params'
  PROVE  PdInv'
<1>1. served' = [cands |-> DecodeNodes, body |-> b] /\ pd' = "decode"
  BY DEF StartDecode
<1>2. \A x \in DecodeNodes : x \notin PrefillUrls /\ x # NoParams
  BY PdAssumption DEF LegKept, DecodeNodes, IsPrefill
<1>3. QED
  BY <1>1, <1>2 DEF PdInv, LegKept, DecodeIsTheRequest

\* A step before the decode leg, that completes none.
LEMMA LegGoesOn ==
  ASSUME LegKept, pd' # "decode", body' = body, healthy' \subseteq PdBackends,
         leg'.node \in PrefillUrls \cup {NoParams}, params' = params,
         pd' \in {"idle", "leg", "wait"} => pd \in {"idle", "leg", "wait"}
  PROVE  PdInv'
BY DEF PdInv, LegKept, DecodeIsTheRequest

\* The request's own body goes to the decode leg when no leg was completed.
LEMMA DecodeWhole ==
  ASSUME LegKept, pd \in {"leg", "wait"}, StartDecode(body), params' = params,
         leg'.node \in PrefillUrls \cup {NoParams}, body' = body, healthy' = healthy
  PROVE  PdInv'
BY DecodeStarts DEF LegKept

\* Every step of a request served in two legs.
LEMMA PdNextInv == PdInv /\ [PdNext]_pdVars => PdInv'
<1> SUFFICES ASSUME PdInv, [PdNext]_pdVars PROVE PdInv'
  OBVIOUS
<1>1. LegKept
  BY DEF PdInv
<1>2. CASE PdArrives
  BY <1>1, <1>2, LegGoesOn DEF PdArrives, LegKept
<1>3. CASE CallerLeaves \/ BudgetEnds
  BY <1>1, <1>3, LegGoesOn DEF CallerLeaves, BudgetEnds, LegKept
<1>4. ASSUME NEW b \in PdBackends, HealthChanges(b) PROVE PdInv'
  BY <1>1, <1>4, LegGoesOn DEF HealthChanges, LegKept
<1>5. CASE NoPrefillNode
  BY <1>1, <1>5, DecodeWhole DEF NoPrefillNode, LegKept
<1>6. CASE LegWaits
  <2>1. CASE pd' = "leg"
    BY <1>1, <1>6, <2>1, LegGoesOn DEF LegWaits, LegKept
  <2>2. CASE StartDecode(body)
    BY <1>1, <1>6, <2>2, DecodeWhole DEF LegWaits, LegKept
  <2>3. QED
    BY <1>6, <2>1, <2>2 DEF LegWaits
<1>7. CASE DecodeAnswers
  BY <1>1, <1>7, LegGoesOn DEF DecodeAnswers, LegKept
<1>8. ASSUME NEW n \in PdBackends,
             LegRefused(n) \/ LegFails(n) \/ LegSucceeds(n) \/ LegAborts(n)
      PROVE  PdInv'
  <2>1. leg'.node \in PrefillUrls \cup {NoParams} /\ pd = "leg" /\ n \in PrefillUrls
    BY <1>8 DEF LegRefused, LegFails, LegSucceeds, LegAborts, PrefillNodes, IsPrefill
  <2>2. CASE LegRefused(n)
    <3>1. CASE pd' = "wait"
      BY <1>1, <2>1, <2>2, <3>1, LegGoesOn DEF LegRefused, LegKept
    <3>2. CASE StartDecode(body)
      BY <1>1, <2>1, <2>2, <3>2, DecodeWhole DEF LegRefused
    <3>3. QED
      BY <2>2, <3>1, <3>2 DEF LegRefused
  <2>3. CASE LegFails(n)
    BY <1>1, <2>1, <2>3, DecodeWhole DEF LegFails
  <2>4. CASE LegSucceeds(n)
    <3>1. body # NotJson => body \in BodyShapes
      BY <1>1 DEF LegKept
    <3>2. body # NotJson =>
            /\ DecodeBody(body, n).limit = body.limit
            /\ DecodeBody(body, n).stream = body.stream
            /\ DecodeBody(body, n).params = n
      BY <3>1, DecodeBodyKeeps
    <3>3. ParseParams(buf') = n /\ n # NoParams
      <4>1. buf' = << n >>
        BY <2>4 DEF LegSucceeds, Captured
      <4>2. Len(buf') = 1 /\ buf'[1] = n
        BY <4>1
      <4>3. QED
        BY <2>1, <4>2, PdAssumption DEF ParseParams
    <3>4. StartDecode(DecodeBody(body, n)) /\ params' = n /\ body' = body /\ healthy' = healthy
      BY <2>4, <3>3 DEF LegSucceeds
    <3>5. QED
      BY <1>1, <2>1, <3>2, <3>4, DecodeStarts
  <2>5. CASE LegAborts(n)
    BY <1>1, <2>1, <2>5, LegGoesOn DEF LegAborts, LegKept
  <2>6. QED
    BY <1>8, <2>2, <2>3, <2>4, <2>5
<1>9. CASE UNCHANGED pdVars
  BY <1>9 DEF pdVars, PdInv, LegKept, DecodeIsTheRequest
<1>10. QED
  BY <1>2, <1>3, <1>4, <1>5, <1>6, <1>7, <1>8, <1>9 DEF PdNext, PdStep

\* pd_serve.go:20-28, for any pool and any body: the D node gets the client's own
\* request, with the parameters of the leg that was completed for it and no others.
THEOREM DecodeKeepsTheRequest == PdSpec => []DecodeIsTheRequest
<1>1. PdInit => PdInv
  BY DEF PdInit, PdInv, LegKept, DecodeIsTheRequest, NoLeg
<1>2. PdInv => DecodeIsTheRequest
  BY DEF PdInv
<1>3. QED
  BY <1>1, <1>2, PdNextInv, PTL DEF PdSpec

----------------------------------------------------------------------------
(* The health checker. *)

\* No object, registered or not, is healthy by another's answers.
OwnProbe ==
  \A b \in Registrations : ~IsPassive(b) /\ health[b] = "healthy" => passed[b] = TRUE

HealthInv ==
  /\ registered \in [ProbeUrls -> 1..MaxRegistrations \cup {Never}]
  /\ health \in [Registrations -> {"unknown", "healthy", "unhealthy", "gone"}]
  /\ passed \in [Registrations -> BOOLEAN]
  /\ works \in [ProbeUrls -> BOOLEAN]
  /\ OwnProbe

\* Registrations come and go, rounds overlap them, and answers go to their objects.
LEMMA HealthNextInv == HealthInv /\ [HealthNext]_healthVars => HealthInv'
<1> SUFFICES ASSUME HealthInv, [HealthNext]_healthVars PROVE HealthInv'
  OBVIOUS
<1>1. ASSUME NEW u \in ProbeUrls, NEW n \in 1..MaxRegistrations, RegisterBackend(u, n)
      PROVE  HealthInv'
  <2>1. << u, n >> \in Registrations
    BY DEF Registrations
  <2>2. QED
    BY <1>1, <2>1 DEF RegisterBackend, HealthInv, OwnProbe, IsPassive
<1>2. ASSUME NEW u \in ProbeUrls, UnlinkBackend(u) PROVE HealthInv'
  <2>1. Object(u) \in Registrations
    BY <1>2 DEF UnlinkBackend, HealthInv, Object, Registrations
  <2>2. QED
    BY <1>2, <2>1 DEF UnlinkBackend, HealthInv, OwnProbe, IsPassive
<1>3. ASSUME NEW u \in ProbeUrls, Flip(u) PROVE HealthInv'
  BY <1>3 DEF Flip, HealthInv, OwnProbe, IsPassive
<1>4. CASE HealthTick \/ StartRound \/ EndRound
  BY <1>4 DEF HealthTick, StartRound, EndRound, HealthInv, OwnProbe, IsPassive
<1>5. ASSUME NEW b \in Registrations, ProbeAnswers(b) PROVE HealthInv'
  <2> DEFINE ok == works[b[1]]
             s == Streak(streaks[b[1]], ok)
             h == IF health[b] = "gone" THEN health[b] ELSE Judged(health[b], s, ok)
  <2>1. ok \in BOOLEAN
    BY DEF HealthInv, Registrations
  <2>2. /\ health' = [health EXCEPT ![b] = h]
        /\ passed' = [passed EXCEPT ![b] = passed[b] \/ ok]
        /\ UNCHANGED << registered, works >>
    BY <1>5 DEF ProbeAnswers, Observed
  <2>3. /\ h \in {"unknown", "healthy", "unhealthy", "gone"}
        /\ h = "healthy" => health[b] = "healthy" \/ ok = TRUE
    BY <2>1 DEF Judged, HealthInv
  <2> HIDE DEF ok, h
  <2>4. passed'[b] = (passed[b] \/ ok) /\ health'[b] = h
    BY <2>2 DEF HealthInv
  <2>5. ~IsPassive(b) /\ health'[b] = "healthy" => passed'[b] = TRUE
    BY <2>1, <2>3, <2>4 DEF HealthInv, OwnProbe
  <2>6. \A x \in Registrations : x # b => health'[x] = health[x] /\ passed'[x] = passed[x]
    BY <2>2 DEF HealthInv
  <2>7. OwnProbe'
    BY <2>5, <2>6 DEF HealthInv, OwnProbe, IsPassive
  <2>8. QED
    BY <2>1, <2>2, <2>3, <2>7 DEF HealthInv
<1>6. CASE UNCHANGED healthVars
  BY <1>6 DEF healthVars, HealthInv, OwnProbe, IsPassive
<1>7. QED
  BY <1>1, <1>2, <1>3, <1>4, <1>5, <1>6 DEF HealthNext, Checking

\* backend.go:67-68: whatever streak or late answer an earlier tenant of its URL
\* left, a backend becomes eligible only by a successful check of its own.
THEOREM EligibleByOwnProbe == HealthSpec => []AdmittedByOwnProbe
<1>1. HealthInit => HealthInv
  <2> SUFFICES ASSUME HealthInit PROVE HealthInv
    OBVIOUS
  <2>1. /\ registered \in [ProbeUrls -> 1..MaxRegistrations \cup {Never}]
    BY HealthAssumption DEF HealthInit
  <2>2. QED
    BY <2>1 DEF HealthInit, HealthInv, OwnProbe
<1>2. HealthInv => AdmittedByOwnProbe
  BY DEF HealthInv, OwnProbe, AdmittedByOwnProbe, Object, Registrations
<1>3. QED
  BY <1>1, <1>2, HealthNextInv, PTL DEF HealthSpec

----------------------------------------------------------------------------
(* The attempts of one Serve. *)

Result == [backend : Backends \cup {None},
           err : {None, "noBackend", "saturated", "upstream", "gone"},
           attempts : Nat, rejected : BOOLEAN]

ServeType ==
  /\ pc \in {"cands", "select", "allow", "attempt", "returned", "done"}
  /\ committed \in BOOLEAN /\ attempt \in Nat /\ failovers \in Nat /\ open \in Int
  /\ cands \subseteq Backends /\ remaining \subseteq cands /\ tried \subseteq cands
  /\ res \in Result

\* Whom this Serve may still ask: nobody it has asked, but for the attempt's own.
Fresh ==
  /\ pc \in {"select", "allow"} => tried \cap remaining = {}
  /\ pc \in {"allow", "attempt"} => chosen \in remaining
  /\ pc = "attempt" => tried \cap remaining = {chosen}

\* Every attempt is paid for, by the failure budget or by a refusal.
Budget ==
  /\ res.attempts = Cardinality(tried)
  /\ pc \in {"select", "allow", "attempt"} => attempt < MaxAttempts
  /\ pc \in {"select", "allow"} => res.attempts = attempt + failovers
  /\ pc = "attempt" => res.attempts = attempt + failovers + 1
  /\ pc \in {"cands", "returned", "done"} => res.attempts <= MaxAttempts + failovers

\* A response that was neither relayed, absorbed nor an error was discarded, and
\* somebody else could have been asked.
NotForNobody ==
  /\ pc \in {"cands", "select", "allow", "returned"} /\ committed = FALSE
       /\ res.rejected = FALSE /\ res.err = None
     => res.backend = None \/ Cardinality(cands) > 1
  /\ pc # "done" => answer = None
  /\ SoleBackendAnswers

ServeInv ==
  /\ ServeType /\ Fresh /\ Budget /\ NotForNobody /\ AdmissionsRecorded
  /\ committed = TRUE => pc \in {"returned", "done"}

\* A request begins with nobody asked.
LEMMA ServeInitInv == ServeInit => ServeInv
<1> SUFFICES ASSUME ServeInit PROVE ServeInv
  OBVIOUS
<1>1. /\ NoResult.attempts = 0 /\ NoResult.backend = None
      /\ NoResult \in Result
  BY DEF NoResult, Result
<1>2. ServeType /\ Fresh
  <2>1. ServeType
    <3>1. committed \in BOOLEAN /\ res \in Result
      BY <1>1 DEF ServeInit
    <3>2. attempt \in Nat /\ failovers \in Nat /\ open \in Int
      BY DEF ServeInit
    <3>3. QED
      BY <3>1, <3>2 DEF ServeInit, ServeType
  <2>2. Fresh
    BY DEF ServeInit, Fresh
  <2>3. QED
    BY <2>1, <2>2
<1>3. Budget
  BY <1>1, FS_EmptySet, AttemptsAssumption DEF ServeInit, Budget
<1>4. NotForNobody /\ AdmissionsRecorded /\ committed = FALSE
  BY <1>1, NoneAssumption DEF ServeInit, NotForNobody, SoleBackendAnswers, AdmissionsRecorded
<1>5. QED
  BY <1>2, <1>3, <1>4 DEF ServeInv

\* Sets of candidates are finite, and their sizes compare.
LEMMA CandidatesFinite ==
  ASSUME ServeType
  PROVE  /\ IsFiniteSet(cands) /\ IsFiniteSet(remaining) /\ IsFiniteSet(tried)
         /\ Cardinality(cands) \in Nat /\ Cardinality(remaining) \in Nat
         /\ Cardinality(tried) \in Nat
         /\ Cardinality(remaining) <= Cardinality(cands)
<1>1. IsFiniteSet(cands)
  BY BackendsAssumption, FS_Subset DEF ServeType
<1>2. /\ IsFiniteSet(remaining) /\ IsFiniteSet(tried)
      /\ Cardinality(remaining) <= Cardinality(cands)
  BY <1>1, FS_Subset DEF ServeType
<1>3. QED
  BY <1>1, <1>2, FS_CardinalityType

\* Serve returns r, which keeps what r says but for the missing backend.
LEMMA Returned ==
  ASSUME NEW r \in Result,
         Return(r)
  PROVE  /\ pc' = "returned"
         /\ res' \in Result
         /\ res'.attempts = r.attempts /\ res'.backend = r.backend
         /\ res'.rejected = r.rejected
         /\ res'.err = None => r.err = None
BY DEF Return, Result

\* The loop ends, or the policy refuses.
LEMMA GiveUpSteps ==
  ASSUME ServeInv, LoopEnds \/ SelectRefuses
  PROVE  ServeInv'
<1>1. res \in Result /\ ServeType
  BY DEF ServeInv, ServeType
<1>2. PICK r \in Result : /\ Return(r) /\ r.attempts = res.attempts /\ r.backend = res.backend
                       /\ r.rejected = res.rejected /\ (r.err = None => res.err = None)
  <2>1. CASE LoopEnds
    BY <1>1, <2>1 DEF LoopEnds
  <2>2. CASE SelectRefuses
    <3> DEFINE r == [res EXCEPT !.err = "saturated"]
    <3>1. r \in Result /\ r.attempts = res.attempts /\ r.backend = res.backend
          /\ r.rejected = res.rejected /\ r.err = "saturated"
      BY <1>1 DEF Result
    <3>2. QED
      BY <2>2, <3>1, NoneAssumption DEF SelectRefuses
  <2>3. QED
    BY <2>1, <2>2
<1>3. /\ pc' = "returned" /\ res' \in Result
      /\ res'.attempts = res.attempts /\ res'.backend = res.backend
      /\ res'.rejected = res.rejected
      /\ res'.err = None => res.err = None
  BY <1>2, Returned
<1>4. /\ pc = "select"
      /\ UNCHANGED << cands, remaining, attempt, failovers, chosen, committed,
                      open, tried, answer >>
  BY DEF LoopEnds, SelectRefuses
<1>5. ServeType'
  BY <1>1, <1>3, <1>4 DEF ServeType
<1>6. Fresh' /\ AdmissionsRecorded'
  BY <1>3, <1>4 DEF ServeInv, Fresh, AdmissionsRecorded
<1>7. Budget'
  BY <1>1, <1>3, <1>4, AttemptsAssumption DEF ServeInv, ServeType, Budget
<1>8. NotForNobody'
  BY <1>3, <1>4, NoneAssumption DEF ServeInv, NotForNobody, SoleBackendAnswers
<1>9. QED
  BY <1>3, <1>5, <1>6, <1>7, <1>8 DEF ServeInv

\* Select, and the breaker's denial: no attempt is made.
LEMMA SelectSteps ==
  ASSUME ServeInv, (\E b \in Backends : Select(b)) \/ Denied
  PROVE  ServeInv'
<1>1. /\ pc \in {"select", "allow"} /\ pc' \in {"select", "allow"}
      /\ UNCHANGED << cands, attempt, failovers, committed, res, open, tried, answer >>
      /\ remaining' \subseteq remaining
      /\ pc' = "allow" => chosen' \in remaining'
  BY DEF Select, Denied, AfterDenial
<1>2. ServeType' /\ Fresh'
  BY <1>1 DEF ServeInv, ServeType, Fresh
<1>3. Budget'
  BY <1>1, AttemptsAssumption DEF ServeInv, ServeType, Budget, Select, Denied
<1>4. NotForNobody' /\ AdmissionsRecorded'
  BY <1>1 DEF ServeInv, NotForNobody, SoleBackendAnswers, AdmissionsRecorded
<1>5. QED
  BY <1>1, <1>2, <1>3, <1>4 DEF ServeInv

\* The attempt begins: a backend not asked before is asked.
LEMMA PermittedStep ==
  ASSUME ServeInv, Permitted
  PROVE  ServeInv'
<1>1. /\ pc = "allow" /\ pc' = "attempt"
      /\ UNCHANGED << cands, remaining, attempt, failovers, chosen, committed, answer >>
      /\ tried' = tried \cup {chosen} /\ open' = open + 1
      /\ ServeType /\ chosen \in remaining /\ chosen \in Backends
      /\ tried \cap remaining = {}
  BY DEF Permitted, ServeInv, Fresh, ServeType
<1>2. /\ res' \in Result
      /\ res'.attempts = res.attempts + 1
  <2>1. res \in Result
    BY <1>1 DEF ServeType
  <2>2. PICK n \in Nat : n = res.attempts + 1
    BY <2>1 DEF Result
  <2>3. res' = [res EXCEPT !.backend = chosen, !.attempts = n]
    BY <2>2 DEF Permitted
  <2>4. res' \in Result
    BY <1>1, <2>1, <2>3 DEF Result
  <2>5. res'.attempts = n
    BY <2>1, <2>3 DEF Result
  <2>6. QED
    BY <2>2, <2>4, <2>5
<1>3. Cardinality(tried') = Cardinality(tried) + 1
  BY <1>1, CandidatesFinite, FS_AddElement
<1>4. ServeType' /\ Fresh'
  <2>1. ServeType'
    BY <1>1, <1>2 DEF ServeType
  <2>2. Fresh'
    BY <1>1 DEF Fresh
  <2>3. QED
    BY <2>1, <2>2
<1>5. Budget'
  BY <1>1, <1>2, <1>3, CandidatesFinite DEF ServeInv, ServeType, Budget
<1>6. NotForNobody' /\ AdmissionsRecorded'
  BY <1>1, NoneAssumption DEF ServeInv, NotForNobody, SoleBackendAnswers, AdmissionsRecorded
<1>7. QED
  BY <1>1, <1>4, <1>5, <1>6 DEF ServeInv

\* Only a discarded or an absorbed response leaves a returned attempt without an error
\* and without a byte for the client.
LEMMA DiscardedWithOthers ==
  ASSUME ServeType, NEW o \in Outcomes, ~Relays(o), ErrOf(o) = None, o # "aborted"
  PROVE  Absorbs(o) \/ (Discards(o) /\ Cardinality(cands) > 1)
<1>1. o \notin {"broken", "gone"}
  BY NoneAssumption DEF ErrOf
<1>2. Absorbs(o) \/ Discards(o)
  BY <1>1 DEF Outcomes, Relays
<1>3. Discards(o) => Cardinality(cands) > 1
  BY CandidatesFinite DEF Discards, CanRetry
<1>4. QED
  BY <1>2, <1>3

\* The attempt ends: it unwinds, another backend is tried, or Serve returns.
LEMMA AttemptStep ==
  ASSUME ServeInv, NEW o \in Outcomes, Attempt(o)
  PROVE  ServeInv'
<1> DEFINE out == [res EXCEPT !.err = ErrOf(o), !.rejected = Absorbs(o)]
<1>1. /\ ServeType /\ pc = "attempt" /\ UNCHANGED << cands, chosen, tried >>
      /\ chosen \in remaining /\ tried \cap remaining = {chosen}
      /\ res.attempts = Cardinality(tried) /\ attempt < MaxAttempts
      /\ res.attempts = attempt + failovers + 1
      /\ committed = FALSE /\ open = 1 /\ answer = None
  <2>1. committed = FALSE
    BY DEF Attempt, ServeInv, ServeType
  <2>2. open = 1
    BY DEF Attempt, ServeInv, AdmissionsRecorded
  <2>3. QED
    BY <2>1, <2>2 DEF Attempt, ServeInv, Fresh, Budget, NotForNobody
<1>2. committed' = Relays(o) /\ committed' \in BOOLEAN /\ open' = 0
  <2>1. committed' = (committed \/ Relays(o)) /\ open' = open - 1
    BY DEF Attempt, Recorded
  <2>2. committed' = Relays(o) /\ committed' \in BOOLEAN
    BY <1>1, <2>1, Zenon DEF Relays
  <2>3. QED
    BY <1>1, <2>1, <2>2
<1>3. /\ out \in Result /\ out.attempts = res.attempts /\ out.backend = res.backend
      /\ out.err = ErrOf(o) /\ out.rejected = Absorbs(o)
  <2>1. res \in Result
    BY <1>1 DEF ServeType
  <2>2. PICK e \in {None, "noBackend", "saturated", "upstream", "gone"} : e = ErrOf(o)
    BY DEF ErrOf
  <2>3. PICK a \in BOOLEAN : a = Absorbs(o)
    BY DEF Absorbs
  <2>4. out = [res EXCEPT !.err = e, !.rejected = a]
    BY <2>2, <2>3
  <2>5. out \in Result /\ out.attempts = res.attempts /\ out.backend = res.backend
        /\ out.err = e /\ out.rejected = a
    BY <2>1, <2>4 DEF Result
  <2>6. QED
    BY <2>2, <2>3, <2>5
<1>4. o # "aborted" /\ committed' = FALSE /\ out.rejected = FALSE /\ out.err = None
        => Cardinality(cands) > 1
  BY <1>1, <1>2, <1>3, DiscardedWithOthers
<1>5. attempt \in Nat /\ failovers \in Nat /\ MaxAttempts \in Nat /\ res.attempts \in Nat
  BY <1>1, AttemptsAssumption DEF ServeType, Result
<1> HIDE DEF out
<1>6. CASE /\ o = "aborted" /\ pc' = "done" /\ answer' = "relayed"
           /\ UNCHANGED << res, remaining, attempt, failovers >>
  <2>1. ServeType' /\ Fresh'
    BY <1>1, <1>2, <1>6 DEF ServeType, Fresh
  <2>2. Budget'
    BY <1>1, <1>5, <1>6 DEF Budget
  <2>3. NotForNobody' /\ AdmissionsRecorded'
    BY <1>2, <1>6 DEF NotForNobody, SoleBackendAnswers, AdmissionsRecorded
  <2>4. QED
    BY <1>6, <2>1, <2>2, <2>3 DEF ServeInv
<1>7. CASE /\ o # "aborted" /\ ~committed' /\ res' = out /\ pc' = "select"
           /\ remaining' = Others /\ UNCHANGED answer
           /\ \/ failovers' = failovers + 1 /\ attempt' = attempt
              \/ attempt' = attempt + 1 /\ failovers' = failovers /\ attempt + 1 < MaxAttempts
  <2>1. committed' = FALSE
    BY <1>2, <1>7
  <2>2. failovers' \in Nat /\ attempt' \in Nat /\ attempt' < MaxAttempts
        /\ res.attempts = attempt' + failovers'
    BY <1>1, <1>5, <1>7
  <2>3. ServeType'
    BY <1>1, <1>2, <1>3, <1>7, <2>2 DEF ServeType, Others
  <2>4. Fresh'
    BY <1>1, <1>7 DEF Fresh, Others
  <2>5. Budget'
    BY <1>1, <1>3, <1>7, <2>2 DEF Budget
  <2>6. NotForNobody' /\ AdmissionsRecorded'
    BY <1>1, <1>2, <1>4, <1>7, <2>1, NoneAssumption
    DEF NotForNobody, SoleBackendAnswers, AdmissionsRecorded
  <2>7. QED
    BY <2>1, <2>3, <2>4, <2>5, <2>6 DEF ServeInv
<1>8. CASE o # "aborted" /\ Return(out) /\ UNCHANGED << remaining, attempt, failovers, answer >>
  <2>1. /\ pc' = "returned" /\ res' \in Result
        /\ res'.attempts = out.attempts /\ res'.backend = out.backend
        /\ res'.rejected = out.rejected
        /\ res'.err = None => out.err = None
    BY <1>3, <1>8, Returned
  <2>2. ServeType' /\ Fresh'
    BY <1>1, <1>2, <1>8, <2>1 DEF ServeType, Fresh
  <2>3. Budget'
    BY <1>1, <1>3, <1>5, <1>8, <2>1 DEF Budget
  <2>4. NotForNobody' /\ AdmissionsRecorded'
    BY <1>1, <1>2, <1>4, <1>8, <2>1, NoneAssumption
    DEF NotForNobody, SoleBackendAnswers, AdmissionsRecorded
  <2>5. QED
    BY <2>1, <2>2, <2>3, <2>4 DEF ServeInv
<1>9. QED
  <2>1. ASSUME o # "aborted", Walks(o) PROVE ~committed'
    BY <2>1 DEF Walks
  <2>2. ASSUME TriesAgain(o) PROVE ~committed' /\ attempt + 1 < MaxAttempts
    BY <2>2 DEF TriesAgain
  <2>3. QED
    BY <1>6, <1>7, <1>8, <2>1, <2>2 DEF Attempt, out

\* serveWithCapacityRetry's loop, and the answer.
LEMMA RetryLoopSteps ==
  ASSUME ServeInv, (\E cs \in SUBSET Backends : Candidates(cs)) \/ ServeAgain \/ Answer
  PROVE  ServeInv'
<1>1. ServeType
  BY DEF ServeInv
<1>2. ASSUME NEW cs \in SUBSET Backends, Candidates(cs), cs # {} PROVE ServeInv'
  <2>1. /\ pc = "cands" /\ pc' = "select" /\ cands' = cs /\ remaining' = cs /\ attempt' = 0
        /\ failovers' = 0 /\ chosen' = None /\ res' = NoResult /\ tried' = {}
        /\ UNCHANGED << committed, open, answer >>
    BY <1>2 DEF Candidates
  <2>2. NoResult \in Result /\ NoResult.attempts = 0 /\ NoResult.backend = None
    BY DEF NoResult, Result
  <2>3. ServeType'
    BY <1>1, <2>1, <2>2 DEF ServeType
  <2>4. Fresh'
    BY <2>1 DEF Fresh
  <2>5. Budget'
    BY <2>1, <2>2, FS_EmptySet, AttemptsAssumption DEF Budget
  <2>6. NotForNobody'
    BY <2>1, <2>2, NoneAssumption DEF ServeInv, NotForNobody, SoleBackendAnswers
  <2>7. AdmissionsRecorded' /\ committed' # TRUE
    BY <2>1 DEF ServeInv, AdmissionsRecorded
  <2>8. QED
    BY <2>3, <2>4, <2>5, <2>6, <2>7 DEF ServeInv
<1>3. CASE (\E cs \in SUBSET Backends : Candidates(cs) /\ cs = {}) \/ ServeAgain
  <2>1. /\ pc \in {"cands", "returned"} /\ pc' \in {"cands", "returned"}
        /\ pc' = "cands" => ~committed
        /\ UNCHANGED << cands, remaining, attempt, failovers, chosen, committed, res,
                        open, tried, answer >>
    BY <1>3 DEF Candidates, ServeAgain, serve
  <2>2. ServeType'
    BY <1>1, <2>1 DEF ServeType
  <2>3. Fresh' /\ Budget'
    BY <2>1 DEF ServeInv, Fresh, Budget
  <2>4. NotForNobody' /\ AdmissionsRecorded'
    BY <2>1 DEF ServeInv, NotForNobody, SoleBackendAnswers, AdmissionsRecorded
  <2>5. committed' = TRUE => pc' \in {"returned", "done"}
    BY <2>1
  <2>6. QED
    BY <2>2, <2>3, <2>4, <2>5 DEF ServeInv
<1>4. CASE Answer
  <2>1. /\ pc = "returned" /\ pc' = "done" /\ answer' = AnswerOf
        /\ UNCHANGED << cands, remaining, attempt, failovers, chosen, committed, res,
                        open, tried >>
    BY <1>4 DEF Answer, serve
  <2>2. ServeType' /\ Fresh' /\ Budget'
    BY <1>1, <2>1 DEF ServeInv, ServeType, Fresh, Budget
  <2>3. AnswerOf = "nothing" =>
          committed = FALSE /\ res.rejected = FALSE /\ res.err = None
    <3>1. committed \in BOOLEAN /\ res.rejected \in BOOLEAN
      BY <1>1 DEF ServeType, Result
    <3>2. QED
      BY <3>1 DEF AnswerOf
  <2>4. NotForNobody' /\ AdmissionsRecorded'
    BY <2>1, <2>3 DEF ServeInv, NotForNobody, SoleBackendAnswers, AdmissionsRecorded
  <2>5. QED
    BY <2>1, <2>2, <2>4 DEF ServeInv
<1>5. QED
  BY <1>2, <1>3, <1>4

\* proxy.go:254-266, 293, 324, 397-431, for any fleet and any MaxAttempts: no backend
\* is asked twice, every attempt is paid for and its admission recorded once, and a
\* response is thrown away only when somebody else could be asked.
THEOREM AttemptsAlwaysSound == ServeSpec => []AttemptsSound
<1>1. ServeInv /\ [ServeNext]_serveVars => ServeInv'
  <2> SUFFICES ASSUME ServeInv, [ServeNext]_serveVars PROVE ServeInv'
    OBVIOUS
  <2>1. CASE UNCHANGED serveVars
    BY <2>1 DEF serveVars, ServeInv, ServeType, Fresh, Budget, NotForNobody,
                SoleBackendAnswers, AdmissionsRecorded
  <2>2. CASE ServeNext
    BY <2>2, GiveUpSteps, SelectSteps, PermittedStep, AttemptStep, RetryLoopSteps
    DEF ServeNext, ServeStep
  <2>3. QED
    BY <2>1, <2>2
<1>2. ServeInv => AttemptsSound
  <2> SUFFICES ASSUME ServeInv PROVE RetriesAreSafe
    BY DEF AttemptsSound, ServeInv, NotForNobody
  <2>1. res.attempts <= MaxAttempts + failovers
    BY AttemptsAssumption DEF ServeInv, ServeType, Result, Budget
  <2>2. QED
    BY <2>1 DEF ServeInv, Budget, RetriesAreSafe, ServeType
<1>3. QED
  BY <1>1, <1>2, ServeInitInv, PTL DEF ServeSpec

----------------------------------------------------------------------------
(* Routes and what is discovered for them. *)

Asking == [pc : {"off", "look", "ask", "settled", "gaveUp"}, queue : SUBSET Nat, attempts : Nat,
           asked : SUBSET Nat, round : SUBSET Nat]

RoutingType ==
  /\ rules \in RuleTables
  /\ resolver \in [Rules -> Asking]
  /\ auto = [i \in Rules |-> auto[i]]

\* A rule's model is one that some backend of its pool has alone.
Served(i, m) == \E b \in Range(PoolOf[rules[i].pool]) : Listed[b] = << m >>

\* A round has asked, or will ask, whoever was available when it began; and whom it will
\* ask is of the pool.
RoundInv ==
  \A i \in Rules :
    /\ auto[i] # Untouched => Served(i, auto[i])
    /\ resolver[i].pc = "ask" =>
         /\ resolver[i].queue \subseteq DOMAIN PoolOf[rules[i].pool]
         /\ resolver[i].round \subseteq resolver[i].asked \cup resolver[i].queue

RoutingInv == RoutingType /\ RoundInv /\ CallerKeyConfined

\* A backend of a pool, by place.
LEMMA PoolsHold ==
  ASSUME RoutingType, NEW i \in Rules, NEW n \in DOMAIN PoolOf[rules[i].pool]
  PROVE  LET b == PoolOf[rules[i].pool][n]
         IN  /\ n \in Nat /\ b \in Range(PoolOf[rules[i].pool])
             /\ PickAutoModel(b) # Untouched => Listed[b] = << PickAutoModel(b) >>
<1> DEFINE p == rules[i].pool
           b == PoolOf[p][n]
           L == Listed[b]
<1>1. PoolOf[p] \in Seq(DOMAIN Listed)
  BY RoutingAssumption DEF RoutingType, Rules
<1>2. n \in Nat /\ b \in DOMAIN Listed /\ b \in Range(PoolOf[p])
  BY <1>1 DEF Range
<1>3. L \in Seq(Range(L))
  BY <1>2, RoutingAssumption
<1>4. Len(L) = 1 => L = << L[1] >>
  BY <1>3
<1>5. QED
  BY <1>2, <1>4 DEF PickAutoModel

\* What a resolver and its rule's model may be.
ResolverOK(i, q, x) ==
  /\ q \in Asking
  /\ x # Untouched => Served(i, x)
  /\ q.pc = "ask" => /\ q.queue \subseteq DOMAIN PoolOf[rules[i].pool]
                     /\ q.round \subseteq q.asked \cup q.queue

\* A step of one resolver that leaves it and its rule's model so.
LEMMA ResolverMoves ==
  ASSUME RoutingInv, NEW i \in Rules, NEW q, NEW x, ResolverOK(i, q, x),
         resolver' = [resolver EXCEPT ![i] = q], auto' = [auto EXCEPT ![i] = x],
         UNCHANGED << rules, sentTo >>
  PROVE  RoutingInv'
<1>1. /\ rules \in RuleTables /\ rules' = rules /\ sentTo' = sentTo /\ Rules' = Rules
      /\ resolver \in [Rules -> Asking] /\ auto = [j \in Rules |-> auto[j]]
      /\ CallerKeyConfined'
  BY DEF RoutingInv, RoutingType, Rules, CallerKeyConfined
<1>2. RoutingType'
  BY <1>1 DEF RoutingType, Rules, ResolverOK
<1>3. ASSUME NEW j \in Rules
      PROVE  /\ auto'[j] # Untouched => Served(j, auto'[j])
             /\ resolver'[j].pc = "ask" =>
                  /\ resolver'[j].queue \subseteq DOMAIN PoolOf[rules[j].pool]
                  /\ resolver'[j].round \subseteq resolver'[j].asked \cup resolver'[j].queue
  <2>1. CASE j = i
    <3>1. resolver'[j] = q /\ auto'[j] = x
      BY <1>1, <2>1
    <3>2. QED
      BY <2>1, <3>1 DEF ResolverOK
  <2>2. CASE j # i
    <3>1. resolver'[j] = resolver[j] /\ auto'[j] = auto[j]
      BY <1>1, <2>2
    <3>2. QED
      BY <3>1 DEF RoutingInv, RoundInv
  <2>3. QED
    BY <2>1, <2>2
<1>4. RoundInv'
  BY <1>1, <1>3 DEF RoundInv, Served
<1>5. QED
  BY <1>1, <1>2, <1>4 DEF RoutingInv

\* A round of the resolver: it begins, goes on to the next backend, or fails.
LEMMA ResolverKeeps ==
  ASSUME RoutingInv, NEW i \in Rules, Look(i) \/ Ask(i) \/ RoundFails(i)
  PROVE  RoutingInv'
<1> DEFINE p == rules[i].pool
           r == resolver[i]
<1>1. /\ rules \in RuleTables /\ UNCHANGED << rules, sentTo >>
      /\ resolver \in [Rules -> Asking] /\ auto = [j \in Rules |-> auto[j]]
  BY DEF RoutingInv, RoutingType, Look, Ask, RoundFails
<1>2. r \in Asking /\ ResolverOK(i, r, auto[i]) /\ auto = [auto EXCEPT ![i] = auto[i]]
  BY <1>1 DEF RoutingInv, RoundInv, ResolverOK
<1>3. DOMAIN PoolOf[p] \subseteq Nat
  BY <1>1, RoutingAssumption DEF Rules
<1>4. CASE Look(i)
  <2> DEFINE a == Availables(p)
             q == [r EXCEPT !.pc = "ask", !.queue = a, !.asked = {}, !.round = a]
  <2>1. resolver' = [resolver EXCEPT ![i] = q] /\ auto' = auto
    BY <1>1, <1>4 DEF Look, RoundOf
  <2>2. a \subseteq DOMAIN PoolOf[p] /\ a \subseteq Nat
    BY <1>3 DEF Availables
  <2> HIDE DEF a
  <2>3. ResolverOK(i, q, auto[i])
    BY <1>2, <2>2 DEF Asking, ResolverOK
  <2>4. QED
    BY <1>1, <1>2, <2>1, <2>3, ResolverMoves
<1>5. CASE Ask(i)
  <2>1. PICK n \in r.queue :
          LET b == PoolOf[p][n] IN
          IF b \in mute
          THEN /\ resolver' = [resolver EXCEPT ![i].queue = @ \ {n}, ![i].asked = @ \cup {n}]
               /\ auto' = auto
          ELSE /\ auto' = [auto EXCEPT ![i] = PickAutoModel(b)]
               /\ resolver' = [resolver EXCEPT ![i].pc = "settled"]
    BY <1>5 DEF Ask
  <2>2. r.pc = "ask" /\ n \in DOMAIN PoolOf[p] /\ n \in Nat
    BY <1>2, <1>3, <1>5 DEF Ask, ResolverOK
  <2> DEFINE b == PoolOf[p][n]
             asks == [r EXCEPT !.queue = @ \ {n}, !.asked = @ \cup {n}]
             settles == [r EXCEPT !.pc = "settled"]
  <2>3. CASE b \in mute
    <3>1. resolver' = [resolver EXCEPT ![i] = asks] /\ auto' = auto
      BY <1>1, <2>1, <2>3
    <3>2. ResolverOK(i, asks, auto[i])
      BY <1>2, <2>2 DEF Asking, ResolverOK
    <3>3. QED
      BY <1>1, <1>2, <3>1, <3>2, ResolverMoves
  <2>4. CASE b \notin mute
    <3>1. /\ resolver' = [resolver EXCEPT ![i] = settles]
          /\ auto' = [auto EXCEPT ![i] = PickAutoModel(b)]
      BY <1>1, <2>1, <2>4
    <3>2. PickAutoModel(b) # Untouched => Served(i, PickAutoModel(b))
      BY <2>2, PoolsHold DEF RoutingInv, Served
    <3>3. ResolverOK(i, settles, PickAutoModel(b))
      BY <1>2, <3>2 DEF Asking, ResolverOK
    <3>4. QED
      BY <1>1, <3>1, <3>3, ResolverMoves
  <2>5. QED
    BY <2>3, <2>4
<1>6. CASE RoundFails(i)
  <2> DEFINE to == IF r.attempts + 1 >= AutoAttempts THEN "gaveUp" ELSE "look"
             q == [r EXCEPT !.attempts = @ + 1, !.pc = to]
  <2>1. resolver' = [resolver EXCEPT ![i] = q] /\ auto' = auto
    BY <1>1, <1>6 DEF RoundFails
  <2>2. to \in {"gaveUp", "look"}
    OBVIOUS
  <2> HIDE DEF to
  <2>3. r.attempts \in Nat /\ r.attempts + 1 \in Nat
    BY <1>2 DEF Asking
  <2>4. q \in Asking /\ q.pc = to
    BY <1>2, <2>2, <2>3 DEF Asking
  <2>5. ResolverOK(i, q, auto[i])
    BY <1>2, <2>2, <2>4 DEF ResolverOK
  <2>6. QED
    BY <1>1, <1>2, <2>1, <2>5, ResolverMoves
<1>7. QED
  BY <1>4, <1>5, <1>6

\* RoutesKept: a user's key leaves the router only on a rule that asks for it and has no
\* credential of its own (proxy.go:234-246, gateway.go:527-544), and what is discovered
\* for a route is a model its pool serves, asked of the whole pool (automodel.go:75-82,
\* 220-227).
THEOREM RoutesAlwaysKept == RoutingSpec => []RoutesKept
<1>1. RoutingInit => RoutingInv
  <2> SUFFICES ASSUME RoutingInit PROVE RoutingInv
    OBVIOUS
  <2>1. \A i \in Rules : resolver[i] = Resolver(rules[i]) /\ resolver[i].pc \in {"off", "look"}
    BY DEF RoutingInit, Resolver
  <2>2. resolver \in [Rules -> Asking]
    BY DEF RoutingInit, Resolver, Asking
  <2>3. RoutingType
    BY <2>2 DEF RoutingInit, RoutingType
  <2>4. RoundInv /\ CallerKeyConfined
    BY <2>1 DEF RoutingInit, RoundInv, CallerKeyConfined
  <2>5. QED
    BY <2>3, <2>4 DEF RoutingInv
<1>2. RoutingInv /\ [RoutingNext]_routingVars => RoutingInv'
  <2> SUFFICES ASSUME RoutingInv, [RoutingNext]_routingVars PROVE RoutingInv'
    OBVIOUS
  <2>1. ASSUME UNCHANGED << rules, auto, resolver >>, CallerKeyConfined'
        PROVE  RoutingInv'
    BY <2>1 DEF RoutingInv, RoutingType, RoundInv, Served, Rules
  <2>2. ASSUME NEW b, Turns(b) \/ StopsListing(b)
        PROVE  RoutingInv'
    BY <2>1, <2>2 DEF Turns, StopsListing, RoutingInv, CallerKeyConfined
  <2>3. ASSUME NEW m \in Models, RequestFor(m)
        PROVE  RoutingInv'
    <3>1. \A s \in sentTo' : s.cred = Presented(rules[s.rule])
      BY <2>3 DEF RequestFor
    <3>2. UNCHANGED << rules, auto, resolver >>
      BY <2>3 DEF RequestFor
    <3>3. CallerKeyConfined'
      BY <3>1, <3>2 DEF CallerKeyConfined, Presented
    <3>4. QED
      BY <2>1, <3>2, <3>3
  <2>4. CASE Listing
    <3>1. \A s \in sentTo' : s.cred = ListingPresents(rules[s.rule])
      BY <2>4 DEF Listing
    <3>2. UNCHANGED << rules, auto, resolver >>
      BY <2>4 DEF Listing
    <3>3. CallerKeyConfined'
      BY <3>1, <3>2 DEF CallerKeyConfined, ListingPresents
    <3>4. QED
      BY <2>1, <3>2, <3>3
  <2>5. CASE UNCHANGED routingVars
    BY <2>1, <2>5 DEF routingVars, RoutingInv, CallerKeyConfined
  <2>6. QED
    BY <2>2, <2>3, <2>4, <2>5, ResolverKeeps DEF RoutingNext
<1>3. RoutingInv => RoutesKept
  <2> SUFFICES ASSUME RoutingInv PROVE RoutesKept
    OBVIOUS
  <2>1. DiscoveryIsThePools
    BY DEF RoutingInv, RoundInv, Served, DiscoveryIsThePools
  <2>2. QED
    BY <2>1 DEF RoutingInv, RoutesKept
<1>4. QED
  BY <1>1, <1>2, <1>3, PTL DEF RoutingSpec

----------------------------------------------------------------------------
(* A chat client: no call answered twice. *)

\* The tool calls a message has the results of.
Delivered(m) == {k \in ToolIds : << "result", k >> \in m.parts}

\* The calls answered since the model last replied.
Open(h) ==
  {k \in ToolIds : \E i \in DOMAIN h : /\ k \in Delivered(h[i])
                                       /\ \A j \in i..Len(h) : h[j].role # "reply"}

\* No call is answered twice between two replies.
Once(h) ==
  \A i, j \in DOMAIN h : \A k \in ToolIds :
    i < j /\ (\A n \in {i, j} : << "result", k >> \in h[n].parts) =>
      \E n \in i..j : h[n].role = "reply"

IsHistory(h) == \E S : h \in Seq(S)

\* One more message: a reply closes what was open, and nothing may be open twice.
LEMMA OneMore ==
  ASSUME NEW h, IsHistory(h), Once(h), NEW m,
         m.role = "reply" \/ Delivered(m) \cap Open(h) = {}
  PROVE  /\ IsHistory(Append(h, m)) /\ Once(Append(h, m))
         /\ Open(Append(h, m)) \subseteq Open(h) \cup Delivered(m)
         /\ m.role = "reply" => Open(Append(h, m)) = {}
<1> DEFINE g == Append(h, m)
<1>1. PICK S : h \in Seq(S)
  BY DEF IsHistory
<1>2. /\ g \in Seq(S \cup {m}) /\ Len(h) \in Nat /\ Len(g) = Len(h) + 1
      /\ DOMAIN h = 1..Len(h) /\ DOMAIN g = 1..(Len(h) + 1)
      /\ \A i \in 1..Len(h) : g[i] = h[i]
      /\ g[Len(h) + 1] = m
  <2>1. h \in Seq(S \cup {m})
    BY <1>1
  <2>2. QED
    BY <2>1
<1> HIDE DEF g
<1>3. ASSUME NEW i \in DOMAIN g, NEW k \in ToolIds, k \in Delivered(g[i]),
             \A j \in i..Len(g) : g[j].role # "reply"
      PROVE  m.role # "reply" /\ (k \in Open(h) \/ (i = Len(h) + 1 /\ k \in Delivered(m)))
  <2>1. Len(h) + 1 \in i..Len(g)
    BY <1>2
  <2>2. m.role # "reply"
    BY <2>1, <1>2, <1>3
  <2>3. CASE i = Len(h) + 1
    BY <2>2, <2>3, <1>2, <1>3
  <2>4. CASE i # Len(h) + 1
    <3>1. i \in 1..Len(h)
      BY <2>4, <1>2
    <3>2. \A j \in i..Len(h) : j \in i..Len(g) /\ g[j] = h[j]
      BY <3>1, <1>2
    <3>3. k \in Open(h)
      BY <3>1, <3>2, <1>2, <1>3 DEF Open
    <3>4. QED
      BY <3>3, <2>2
  <2>5. QED
    BY <2>3, <2>4
<1>4. Open(g) \subseteq Open(h) \cup Delivered(m) /\ (m.role = "reply" => Open(g) = {})
  BY <1>3 DEF Open
<1>5. Once(g)
  <2> SUFFICES ASSUME NEW i \in DOMAIN g, NEW j \in DOMAIN g, NEW k \in ToolIds, i < j,
                      \A n \in {i, j} : << "result", k >> \in g[n].parts
               PROVE  \E n \in i..j : g[n].role = "reply"
    BY DEF Once
  <2>1. i \in 1..Len(h) /\ i \in Int /\ j \in Int
    BY <1>2
  <2>2. CASE j \in 1..Len(h)
    <3>1. \E n \in i..j : h[n].role = "reply"
      BY <2>1, <2>2, <1>2 DEF Once
    <3>2. i..j \subseteq 1..Len(h)
      BY <2>1, <2>2, <1>2
    <3>3. QED
      BY <3>1, <3>2, <1>2
  <2>3. CASE j = Len(h) + 1
    <3> SUFFICES ASSUME \A n \in i..j : g[n].role # "reply" PROVE FALSE
      OBVIOUS
    <3>1. k \in Delivered(g[i]) /\ k \in Delivered(g[j])
      BY DEF Delivered
    <3>2. m.role # "reply" /\ k \in Open(h)
      <4>1. Len(g) = j
        BY <2>3, <1>2
      <4>2. i # Len(h) + 1
        BY <2>1, <1>2
      <4>3. QED
        BY <1>3, <3>1, <4>1, <4>2
    <3>3. k \in Delivered(m)
      BY <3>1, <2>3, <1>2
    <3>4. QED
      BY <3>2, <3>3
  <2>4. QED
    BY <2>2, <2>3, <1>2
<1>6. IsHistory(g)
  BY <1>2 DEF IsHistory
<1>7. QED
  BY <1>4, <1>5, <1>6 DEF g

\* A message put after a history, or nothing when there is nothing in it.
LEMMA Putting ==
  ASSUME NEW h, IsHistory(h), NEW role, NEW parts
  PROVE  /\ h \o << Msg(role, parts) >> = Append(h, Msg(role, parts))
         /\ h \o Told(role, parts) = IF parts = {} THEN h ELSE Append(h, Msg(role, parts))
         /\ Msg(role, parts).role = role /\ Msg(role, parts).parts = parts
<1>1. PICK S : h \in Seq(S)
  BY DEF IsHistory
<1>2. h \o << >> = h
  BY <1>1
<1> DEFINE m == Msg(role, parts)
<1>3. h \o << m >> = Append(h, m)
  <2> HIDE DEF m
  <2>1. h \in Seq(S \cup {m}) /\ m \in S \cup {m}
    BY <1>1
  <2>2. QED
    BY <2>1, AppendProperties
<1>4. m.role = role /\ m.parts = parts
  BY DEF Msg
<1>5. QED
  BY <1>2, <1>3, <1>4 DEF Told

\* Two sequences after one another.
LEMMA PuttingTwo ==
  ASSUME NEW h, IsHistory(h), NEW a, IsHistory(a), NEW b, IsHistory(b)
  PROVE  h \o (a \o b) = (h \o a) \o b
<1>1. PICK S : h \in Seq(S)
  BY DEF IsHistory
<1>2. PICK A : a \in Seq(A)
  BY DEF IsHistory
<1>3. PICK B : b \in Seq(B)
  BY DEF IsHistory
<1> DEFINE U == S \cup A \cup B
<1>4. h \in Seq(U) /\ a \in Seq(U) /\ b \in Seq(U)
  BY <1>1, <1>2, <1>3
<1> HIDE DEF U
<1>5. QED
  BY <1>4, ConcatAssociative, SMTT(30)

LEMMA ToldIsHistory ==
  ASSUME NEW role, NEW parts
  PROVE  IsHistory(Told(role, parts)) /\ IsHistory(<< Msg(role, parts) >>)
<1> DEFINE m == Msg(role, parts)
<1>1. << >> \in Seq({m}) /\ << m >> \in Seq({m})
  OBVIOUS
<1>2. QED
  BY <1>1 DEF Told, IsHistory

\* The parts of a message that are the results of ids, and those of none.
LEMMA ResultParts ==
  ASSUME NEW ids \in SUBSET ToolIds, NEW parts, NEW role
  PROVE  /\ Delivered(Msg(role, Results(ids) \cup Converted(parts))) \subseteq ids
         /\ Delivered(Msg(role, Results(ids) \cup TextOnly(parts))) \subseteq ids
         /\ Delivered(Msg(role, Results(ids))) \subseteq ids
         /\ Delivered(Msg(role, Converted(parts))) = {}
         /\ Delivered(Msg(role, TextOnly(parts))) = {}
<1>1. \A k \in ToolIds : /\ << "result", k >> \in Results(ids) => k \in ids
                         /\ << "result", k >> \notin Converted(parts)
                         /\ << "result", k >> \notin TextOnly(parts)
  BY DEF Results, Converted, TextOnly
<1>2. \A all : Msg(role, all).parts = all
  BY DEF Msg
<1>3. QED
  BY <1>1, <1>2 DEF Delivered

\* A message of a turn, with the results of calls that are not open.
LEMMA OneTurn ==
  ASSUME NEW h, IsHistory(h), Once(h), NEW ids \in SUBSET ToolIds, NEW role, NEW parts,
         Delivered(Msg(role, parts)) \subseteq ids, ids \cap Open(h) = {}
  PROVE  \A g \in {h \o << Msg(role, parts) >>, h \o Told(role, parts)} :
           IsHistory(g) /\ Once(g) /\ Open(g) \subseteq Open(h) \cup ids
<1> DEFINE m == Msg(role, parts)
<1>1. Delivered(m) \cap Open(h) = {}
  OBVIOUS
<1>0. Delivered(m) \subseteq ids
  OBVIOUS
<1> HIDE DEF m
<1>2. /\ IsHistory(Append(h, m)) /\ Once(Append(h, m))
      /\ Open(Append(h, m)) \subseteq Open(h) \cup Delivered(m)
  BY <1>1, OneMore
<1>3. h \o << m >> = Append(h, m) /\ (h \o Told(role, parts) = h \/ h \o Told(role, parts) = Append(h, m))
  BY Putting DEF m
<1>4. \A g \in {h \o << m >>, h \o Told(role, parts)} : g = h \/ g = Append(h, m)
  BY <1>3
<1>5. \A g \in {h \o << m >>, h \o Told(role, parts)} :
        IsHistory(g) /\ Once(g) /\ Open(g) \subseteq Open(h) \cup ids
  BY <1>0, <1>2, <1>4
<1>6. QED
  BY <1>5 DEF m

\* A turn of the caller, whichever way its client lays it out.
LEMMA TurnKeeps ==
  ASSUME NEW h, IsHistory(h), Once(h), NEW ids \in SUBSET ToolIds, ids \cap Open(h) = {},
         NEW kind, NEW parts, NEW turn \in {RequestTurn(kind, ids, parts), RespondTurn(kind, ids, parts)}
  PROVE  IsHistory(h \o turn) /\ Once(h \o turn) /\ Open(h \o turn) \subseteq Open(h) \cup ids
<1> DEFINE Kept(g) == IsHistory(g) /\ Once(g) /\ Open(g) \subseteq Open(h) \cup ids
           all == Results(ids) \cup Converted(parts)
           text == Results(ids) \cup TextOnly(parts)
           tool == Msg("tool", Results(ids))
<1>1. Kept(h)
  OBVIOUS
<1>2. h \o << >> = h
  BY DEF IsHistory
<1>3. Kept(h \o << Msg("user", all) >>)
  BY OneTurn, ResultParts
<1>4. Kept(h \o Told("user", text))
  BY OneTurn, ResultParts
<1>5. \A b : IsHistory(b) => h \o (Told("tool", Results(ids)) \o b) = (h \o Told("tool", Results(ids))) \o b
  BY PuttingTwo, ToldIsHistory
<1>6. Kept(h \o Told("tool", Results(ids)))
  BY OneTurn, ResultParts
<1> DEFINE g == h \o Told("tool", Results(ids))
<1> HIDE DEF g
<1>7. ASSUME NEW said, Delivered(Msg("user", said)) = {}
      PROVE  Kept(g \o << Msg("user", said) >>) /\ Kept(g \o Told("user", said))
  <2>1. IsHistory(g) /\ Once(g) /\ Open(g) \subseteq Open(h) \cup ids
    BY <1>6 DEF g
  <2>2. \A f \in {g \o << Msg("user", said) >>, g \o Told("user", said)} :
          IsHistory(f) /\ Once(f) /\ Open(f) \subseteq Open(g) \cup {}
    <3>1. {} \in SUBSET ToolIds /\ {} \cap Open(g) = {} /\ Delivered(Msg("user", said)) \subseteq {}
      BY <1>7
    <3>2. QED
      BY <2>1, <3>1, OneTurn, Zenon
  <2>3. QED
    BY <2>1, <2>2
<1>8. Kept(g \o << Msg("user", Converted(parts)) >>) /\ Kept(g \o Told("user", TextOnly(parts)))
  BY <1>7, ResultParts
<1>9. /\ h \o (Told("tool", Results(ids)) \o << Msg("user", Converted(parts)) >>)
           = g \o << Msg("user", Converted(parts)) >>
      /\ h \o (Told("tool", Results(ids)) \o Told("user", TextOnly(parts)))
           = g \o Told("user", TextOnly(parts))
  BY <1>5, ToldIsHistory DEF g
<1> DEFINE r == RequestTurn(kind, ids, parts)
           s == RespondTurn(kind, ids, parts)
<1>10. Kept(h \o r)
  <2>1. CASE kind \in {"anthropic", "gemini"}
    <3>1. r = << Msg("user", all) >>
      BY <2>1 DEF RequestTurn
    <3>2. QED
      BY <3>1, <1>3
  <2>2. CASE kind \notin {"anthropic", "gemini"}
    <3>1. r = Told("tool", Results(ids)) \o << Msg("user", Converted(parts)) >>
      BY <2>2 DEF RequestTurn
    <3>2. QED
      BY <3>1, <1>8, <1>9
  <2>3. QED
    BY <2>1, <2>2
<1>11. Kept(h \o s)
  <2>1. CASE kind = "anthropic"
    <3>1. s = IF ids = {} THEN << >> ELSE << Msg("user", all) >>
      BY <2>1 DEF RespondTurn
    <3>2. QED
      BY <3>1, <1>1, <1>2, <1>3
  <2>2. CASE kind = "gemini"
    <3>1. s = Told("user", text)
      BY <2>2 DEF RespondTurn
    <3>2. QED
      BY <3>1, <1>4
  <2>3. CASE kind \notin {"anthropic", "gemini"}
    <3>1. s = Told("tool", Results(ids)) \o Told("user", TextOnly(parts))
      BY <2>3 DEF RespondTurn
    <3>2. QED
      BY <3>1, <1>8, <1>9
  <2>4. QED
    BY <2>1, <2>2, <2>3
<1>12. QED
  BY <1>10, <1>11

\* What a model says has no results in it.
LEMMA ReplyParts ==
  ASSUME NEW got
  PROVE  /\ \A k \in ToolIds : << "result", k >> \notin Synthetic(got)
         /\ \A k \in ToolIds : << "call", k >> \in Synthetic(got) <=> k \in CallsIn(got)
         /\ (Called(got) = {}) = (CallsIn(got) = {})
  BY DEF Synthetic, Spoken, Called, CallsIn

\* A reply, one message or none, closes every call, unless there is nothing in it.
LEMMA OneReply ==
  ASSUME NEW h, IsHistory(h), Once(h), NEW parts
  PROVE  \A g \in {Append(h, Msg("reply", parts)), h \o << Msg("reply", parts) >>,
                   h \o Told("reply", parts)} :
           /\ IsHistory(g) /\ Once(g) /\ Open(g) \subseteq Open(h)
           /\ parts # {} \/ g = Append(h, Msg("reply", parts)) => Open(g) = {}
<1> DEFINE m == Msg("reply", parts)
<1>1. m.role = "reply"
  BY DEF Msg
<1> HIDE DEF m
<1>2. IsHistory(Append(h, m)) /\ Once(Append(h, m)) /\ Open(Append(h, m)) = {}
  BY <1>1, OneMore
<1>3. /\ h \o << m >> = Append(h, m)
      /\ h \o Told("reply", parts) = IF parts = {} THEN h ELSE Append(h, m)
  BY Putting DEF m
<1>4. \A g \in {Append(h, m), h \o << m >>, h \o Told("reply", parts)} :
        g = Append(h, m) \/ (parts = {} /\ g = h)
  BY <1>3
<1>5. \A g \in {Append(h, m), h \o << m >>, h \o Told("reply", parts)} :
        /\ IsHistory(g) /\ Once(g) /\ Open(g) \subseteq Open(h)
        /\ parts # {} \/ g = Append(h, m) => Open(g) = {}
  BY <1>2, <1>4
<1>6. QED
  BY <1>5 DEF m

\* The reply that goes into the live history.
LEMMA ReplyKeeps ==
  ASSUME NEW h, IsHistory(h), Once(h), NEW kind, NEW got
  PROVE  LET g == h \o ReplyMessages(kind, got)
         IN  /\ IsHistory(g) /\ Once(g) /\ Open(g) \subseteq Open(h)
             /\ (kind = "gemini" /\ CallsIn(got) = {}) \/ Open(g) = {}
<1>1. CASE kind = "gemini"
  <2> DEFINE said == h \o Told("reply", Spoken(got))
             g == said \o Told("reply", Called(got))
  <2>1. IsHistory(said) /\ Once(said) /\ Open(said) \subseteq Open(h)
    BY OneReply
  <2>2. h \o ReplyMessages(kind, got) = g
    BY <1>1, PuttingTwo, ToldIsHistory DEF ReplyMessages
  <2> HIDE DEF said
  <2>3. /\ IsHistory(g) /\ Once(g) /\ Open(g) \subseteq Open(said)
        /\ Called(got) # {} => Open(g) = {}
    BY <2>1, OneReply
  <2>4. QED
    BY <2>1, <2>2, <2>3, <1>1, ReplyParts
<1>2. CASE kind # "gemini"
  <2>1. ReplyMessages(kind, got) = << Msg("reply", Spoken(got) \cup Called(got)) >>
    BY <1>2 DEF ReplyMessages
  <2> DEFINE all == Spoken(got) \cup Called(got)
  <2>2. h \o << Msg("reply", all) >> = Append(h, Msg("reply", all))
    BY Putting
  <2> HIDE DEF all
  <2>3. LET g == Append(h, Msg("reply", all))
        IN  IsHistory(g) /\ Once(g) /\ Open(g) \subseteq Open(h) /\ Open(g) = {}
    BY OneReply
  <2>4. QED
    BY <2>1, <2>2, <2>3 DEF all
<1>3. QED
  BY <1>1, <1>2

\* A system prompt in front of what is left of a history.
LEMMA PromptKeeps ==
  ASSUME NEW h, IsHistory(h), Once(h), NEW blocks, IsHistory(blocks), NEW n \in 0..Len(h)
  PROVE  LET g == AsMessages(blocks) \o SubSeq(h, n + 1, Len(h))
         IN  IsHistory(g) /\ Once(g) /\ Open(g) \subseteq Open(h)
<1> DEFINE a == AsMessages(blocks)
           t == SubSeq(h, n + 1, Len(h))
           g == a \o t
<1>1. PICK S : h \in Seq(S)
  BY DEF IsHistory
<1>2. PICK B : blocks \in Seq(B)
  BY DEF IsHistory
<1> DEFINE M == {Msg("system", {<< "said", b >>}) : b \in B}
<1>3. a \in Seq(M) /\ Len(a) = Len(blocks)
  BY <1>2 DEF AsMessages
<1>4. \A i \in 1..Len(a) : \A k \in ToolIds : << "result", k >> \notin a[i].parts
  BY <1>2, <1>3 DEF AsMessages, Msg
<1>5. /\ t \in Seq(S) /\ Len(h) \in Nat /\ Len(t) = Len(h) - n /\ n \in Nat
      /\ \A i \in 1..(Len(h) - n) : t[i] = h[n + i]
  BY <1>1
<1>6. /\ g \in Seq(M \cup S) /\ Len(a) \in Nat /\ Len(g) = Len(a) + Len(t)
      /\ \A i \in 1..Len(a) : g[i] = a[i]
      /\ \A i \in (Len(a) + 1)..Len(g) : g[i] = t[i - Len(a)]
  <2>1. a \in Seq(M \cup S) /\ t \in Seq(M \cup S)
    <3> HIDE DEF a, t, M
    <3>1. QED
      BY <1>3, <1>5
  <2> HIDE DEF a, t, M
  <2>2. QED
    BY <2>1
<1> DEFINE d == Len(a) - n
<1> HIDE DEF a, t, g, M
<1>7. /\ d \in Int /\ DOMAIN g = 1..Len(g) /\ Len(g) = Len(h) + d /\ DOMAIN h = 1..Len(h)
      /\ \A i \in (Len(a) + 1)..Len(g) : i - d \in DOMAIN h /\ g[i] = h[i - d]
  <2>1. d \in Int /\ DOMAIN g = 1..Len(g) /\ Len(g) = Len(h) + d /\ DOMAIN h = 1..Len(h)
    BY <1>1, <1>5, <1>6
  <2>2. ASSUME NEW i \in (Len(a) + 1)..Len(g) PROVE i - d \in DOMAIN h /\ g[i] = h[i - d]
    <3>1. i \in Int /\ i - Len(a) \in 1..(Len(h) - n) /\ n + (i - Len(a)) = i - d
      BY <1>5, <1>6
    <3>2. g[i] = t[i - Len(a)] /\ t[i - Len(a)] = h[n + (i - Len(a))]
      BY <3>1, <1>5, <1>6
    <3>3. i - d \in 1..Len(h)
      BY <3>1, <1>5
    <3>4. QED
      BY <3>1, <3>2, <3>3, <2>1
  <2>3. QED
    BY <2>1, <2>2
<1> HIDE DEF d
<1>8. ASSUME NEW i \in DOMAIN g, NEW k \in ToolIds, << "result", k >> \in g[i].parts
      PROVE  i \in (Len(a) + 1)..Len(g)
  BY <1>4, <1>6, <1>7, <1>8
<1>9. Once(g)
  <2> SUFFICES ASSUME NEW i \in DOMAIN g, NEW j \in DOMAIN g, NEW k \in ToolIds, i < j,
                      \A m \in {i, j} : << "result", k >> \in g[m].parts
               PROVE  \E m \in i..j : g[m].role = "reply"
    BY DEF Once
  <2>1. i \in (Len(a) + 1)..Len(g) /\ j \in (Len(a) + 1)..Len(g)
    BY <1>8
  <2>2. /\ i - d \in DOMAIN h /\ j - d \in DOMAIN h /\ i - d < j - d
        /\ g[i] = h[i - d] /\ g[j] = h[j - d]
    BY <2>1, <1>6, <1>7, SMTT(30)
  <2>3. PICK m \in (i - d)..(j - d) : h[m].role = "reply"
    BY <2>2 DEF Once
  <2>4. d \in Int /\ i \in Int /\ j \in Int /\ m \in Int /\ i - d <= m /\ m <= j - d
    BY <2>1, <2>3, <1>6, <1>7
  <2>5. m + d \in (Len(a) + 1)..Len(g) /\ m + d \in i..j /\ (m + d) - d = m
    <3>1. i <= m + d /\ m + d <= j /\ m + d \in Int /\ (m + d) - d = m
      BY <2>4
    <3>2. Len(a) + 1 \in Int /\ Len(g) \in Int /\ Len(a) + 1 <= i /\ j <= Len(g)
      BY <2>1, <1>6, <1>7
    <3> DEFINE x == m + d
    <3> HIDE DEF x
    <3>3. x \in Int /\ i <= x /\ x <= j /\ i \in Int /\ j \in Int
      BY <3>1, <2>4 DEF x
    <3>4. x \in i..j /\ x \in (Len(a) + 1)..Len(g)
      BY <3>2, <3>3
    <3>5. QED
      BY <3>1, <3>4 DEF x
  <2>6. g[m + d] = h[m]
    BY <2>5, <1>7
  <2>7. QED
    BY <2>3, <2>5, <2>6, ZenonT(40)
<1>10. Open(g) \subseteq Open(h)
  <2> SUFFICES ASSUME NEW k \in Open(g) PROVE k \in Open(h)
    OBVIOUS
  <2>1. PICK i \in DOMAIN g : k \in Delivered(g[i]) /\ \A j \in i..Len(g) : g[j].role # "reply"
    BY DEF Open
  <2>2. i \in (Len(a) + 1)..Len(g) /\ k \in ToolIds
    BY <2>1, <1>8 DEF Open, Delivered
  <2>3. i - d \in DOMAIN h /\ h[i - d] = g[i]
    BY <2>2, <1>7
  <2>4. ASSUME NEW j \in (i - d)..Len(h) PROVE h[j].role # "reply"
    <3>1. j + d \in i..Len(g) /\ j + d \in (Len(a) + 1)..Len(g) /\ (j + d) - d = j
      BY <2>2, <1>6, <1>7
    <3>2. QED
      BY <3>1, <2>1, <1>7
  <2>5. QED
    BY <2>1, <2>2, <2>3, <2>4 DEF Open
<1>11. IsHistory(g)
  BY <1>6 DEF IsHistory
<1>12. QED
  BY <1>9, <1>10, <1>11 DEF g, a, t

----------------------------------------------------------------------------
(* A chat client: what recovery brings back. *)

\* The groups of the beginnings of h, as Grouped forms them.
Groups(f, h, n) == f = [i \in 0..n |-> IF i = 0 THEN << >> ELSE Glued(f[i - 1], h[i])]

LEMMA GluedIsHistory ==
  ASSUME NEW a, IsHistory(a), NEW m
  PROVE  IsHistory(Glued(a, m))
<1>1. PICK S : a \in Seq(S)
  BY DEF IsHistory
<1> DEFINE both == Msg(m.role, Last(a).parts \cup m.parts)
           U == S \cup {m, both}
<1>2. a \in Seq(U) /\ m \in U /\ both \in U
  BY <1>1
<1> HIDE DEF both, U
<1>3. Append(a, m) \in Seq(U)
  BY <1>2
<1>4. ASSUME a # << >> PROVE Append(Front(a), both) \in Seq(U)
  <2>1. Front(a) \in Seq(U)
    BY <1>2, <1>4 DEF Front
  <2>2. QED
    BY <2>1, <1>2
<1>5. Glued(a, m) \in {a, Append(a, m)} \/ (a # << >> /\ Glued(a, m) = Append(Front(a), both))
  BY DEF Glued, both
<1>6. Glued(a, m) \in Seq(U)
  BY <1>2, <1>3, <1>4, <1>5
<1>7. QED
  BY <1>6 DEF IsHistory

\* However long a conversation is, its beginnings can be grouped.
LEMMA GroupsExist ==
  ASSUME NEW h, NEW n \in Nat
  PROVE  \E f : Groups(f, h, n)
<1> DEFINE bad == {k \in Nat : ~\E f : Groups(f, h, k)}
<1> SUFFICES ASSUME bad # {} PROVE FALSE
  OBVIOUS
<1>1. PICK k \in bad : \A j \in bad : k <= j
  BY LeastNatural, bad \subseteq Nat
<1>2. k \in Nat /\ ~\E f : Groups(f, h, k)
  OBVIOUS
<1>3. CASE k = 0
  <2> DEFINE e == [i \in 0..0 |-> << >>]
  <2>1. e = [i \in 0..0 |-> IF i = 0 THEN << >> ELSE Glued(e[i - 1], h[i])]
    OBVIOUS
  <2>2. QED
    BY <2>1, <1>2, <1>3 DEF Groups
<1>4. CASE k # 0
  <2>1. k - 1 \in Nat /\ ~(k <= k - 1)
    BY <1>2, <1>4
  <2>2. k - 1 \notin bad
    BY <1>1, <2>1
  <2>3. PICK g : Groups(g, h, k - 1)
    BY <2>1, <2>2
  <2> HIDE DEF bad
  <2> DEFINE e == [i \in 0..k |-> IF i = k THEN Glued(g[k - 1], h[k]) ELSE g[i]]
  <2>4. \A i \in 0..(k - 1) : e[i] = g[i] /\ g[i] = IF i = 0 THEN << >> ELSE Glued(g[i - 1], h[i])
    <3>1. \A i \in 0..(k - 1) : g[i] = IF i = 0 THEN << >> ELSE Glued(g[i - 1], h[i])
      BY <2>3 DEF Groups
    <3>2. \A i \in 0..(k - 1) : i \in 0..k /\ i # k
      BY <1>2, <2>1
    <3>3. QED
      BY <3>1, <3>2
  <2>5. ASSUME NEW i \in 0..k PROVE e[i] = IF i = 0 THEN << >> ELSE Glued(e[i - 1], h[i])
    <3>1. CASE i = k
      <4>1. e[i] = Glued(g[k - 1], h[k]) /\ k - 1 \in 0..(k - 1)
        BY <3>1, <2>1
      <4>2. e[i - 1] = g[k - 1]
        BY <3>1, <4>1, <2>4
      <4>3. QED
        BY <4>1, <4>2, <3>1, <1>4
    <3>2. CASE i # k
      <4>1. i \in 0..(k - 1) /\ (i # 0 => i - 1 \in 0..(k - 1))
        BY <3>2, <1>2, <2>1
      <4>2. QED
        BY <4>1, <2>4
    <3>3. QED
      BY <3>1, <3>2
  <2>6. Groups(e, h, k)
    <3>1. e = [i \in 0..k |-> e[i]]
      OBVIOUS
    <3> HIDE DEF e
    <3>2. QED
      BY <3>1, <2>5 DEF Groups
  <2>7. QED
    BY <2>6, <1>2
<1>5. QED
  BY <1>3, <1>4

\* The groups of a beginning are the same whatever follows it, and are a history.
LEMMA GroupsAgree ==
  ASSUME NEW f, NEW h, NEW n \in Nat, Groups(f, h, n),
         NEW g, NEW k, NEW l \in Nat, n <= l, Groups(g, k, l), \A i \in 1..n : k[i] = h[i]
  PROVE  g[n] = f[n] /\ IsHistory(f[n])
<1> DEFINE bad == {i \in 0..n : ~(g[i] = f[i] /\ IsHistory(f[i]))}
<1>1. /\ \A i \in 0..n : f[i] = IF i = 0 THEN << >> ELSE Glued(f[i - 1], h[i])
      /\ \A i \in 0..l : g[i] = IF i = 0 THEN << >> ELSE Glued(g[i - 1], k[i])
  BY DEF Groups
<1> SUFFICES ASSUME bad # {} PROVE FALSE
  OBVIOUS
<1>2. PICK i \in bad : \A j \in bad : i <= j
  BY LeastNatural, bad \subseteq Nat
<1>3. i \in 0..n /\ i \in 0..l
  OBVIOUS
<1>4. CASE i = 0
  <2>1. f[i] = << >> /\ g[i] = << >>
    BY <1>1, <1>3, <1>4
  <2>2. IsHistory(<< >>)
    <3>1. << >> \in Seq({})
      OBVIOUS
    <3>2. QED
      BY <3>1 DEF IsHistory
  <2>3. QED
    BY <2>1, <2>2
<1>5. CASE i # 0
  <2>1. i - 1 \in 0..n /\ i \in 1..n /\ ~(i <= i - 1)
    BY <1>3, <1>5
  <2>2. g[i - 1] = f[i - 1] /\ IsHistory(f[i - 1])
    BY <1>2, <2>1
  <2>3. f[i] = Glued(f[i - 1], h[i]) /\ g[i] = Glued(g[i - 1], k[i]) /\ k[i] = h[i]
    BY <1>1, <1>3, <1>5, <2>1
  <2>4. g[i] = f[i] /\ IsHistory(f[i])
    BY <2>2, <2>3, GluedIsHistory
  <2>5. QED
    BY <2>4
<1>6. QED
  BY <1>4, <1>5

\* One more message joins the groups of those before it.
LEMMA GroupedAppend ==
  ASSUME NEW h, IsHistory(h), NEW m
  PROVE  Grouped(Append(h, m)) = Glued(Grouped(h), m) /\ IsHistory(Grouped(h))
<1> DEFINE a == Append(h, m)
           n == Len(h)
           f == CHOOSE e : Groups(e, h, n)
           g == CHOOSE e : Groups(e, a, n + 1)
<1>1. PICK S : h \in Seq(S)
  BY DEF IsHistory
<1>2. /\ n \in Nat /\ Len(a) = n + 1 /\ a[n + 1] = m
      /\ \A i \in 1..n : a[i] = h[i]
  <2>1. h \in Seq(S \cup {m}) /\ m \in S \cup {m}
    BY <1>1
  <2>2. QED
    BY <2>1
<1>3. Groups(f, h, n) /\ Groups(g, a, n + 1)
  <2> HIDE DEF a, n
  <2>1. n \in Nat /\ n + 1 \in Nat
    BY <1>2
  <2>2. QED
    BY <2>1, GroupsExist
<1>4. Grouped(h) = f[n] /\ Grouped(a) = g[n + 1]
  BY <1>2 DEF Grouped, Groups
<1> HIDE DEF a, n, f, g
<1>5. g[n] = f[n] /\ IsHistory(f[n])
  <2>1. n + 1 \in Nat /\ n <= n + 1
    BY <1>2
  <2>2. QED
    BY <2>1, <1>2, <1>3, GroupsAgree
<1>6. g[n + 1] = Glued(g[n], m)
  <2>1. n + 1 \in 0..(n + 1) /\ n + 1 # 0 /\ (n + 1) - 1 = n
    BY <1>2
  <2>2. \A i \in 0..(n + 1) : g[i] = IF i = 0 THEN << >> ELSE Glued(g[i - 1], a[i])
    BY <1>3 DEF Groups
  <2>3. QED
    BY <2>1, <2>2, <1>2
<1>7. QED
  BY <1>4, <1>5, <1>6 DEF a

\* Two messages of one role join as one that says what both say.
LEMMA GluedTwice ==
  ASSUME NEW a, IsHistory(a), NEW role, NEW p, NEW q
  PROVE  Glued(Glued(a, Msg(role, p)), Msg(role, q)) = Glued(a, Msg(role, p \cup q))
<1> DEFINE m == Msg(role, p)
           b == Glued(a, m)
<1>1. \A r : Msg(role, r).role = role /\ Msg(role, r).parts = r
  BY DEF Msg
<1>2. CASE p = {}
  <2>1. b = a /\ p \cup q = q
    BY <1>1, <1>2 DEF Glued
  <2>2. QED
    BY <2>1
<1>3. CASE q = {}
  <2>1. Glued(b, Msg(role, q)) = b /\ p \cup q = p
    BY <1>1, <1>3 DEF Glued
  <2>2. QED
    BY <2>1
<1>4. CASE p # {} /\ q # {}
  <2>1. PICK S : a \in Seq(S)
    BY DEF IsHistory
  <2> DEFINE \* What b ends with, and what stands before it.
             r == IF a # << >> /\ Last(a).role = role THEN Last(a).parts ELSE {}
             s == IF a # << >> /\ Last(a).role = role THEN Front(a) ELSE a
  <2>2. \A x : x # {} => Glued(a, Msg(role, x)) = Append(s, Msg(role, r \cup x))
    <3>1. ASSUME NEW x, x # {} PROVE Glued(a, Msg(role, x)) = Append(s, Msg(role, r \cup x))
      <4>1. {} \cup x = x
        OBVIOUS
      <4>2. QED
        BY <4>1, <3>1, <1>1 DEF Glued
    <3>2. QED
      BY <3>1
  <2>3. s \in Seq(S)
    BY <2>1 DEF Front
  <2> HIDE DEF r, s
  <2>4. b = Append(s, Msg(role, r \cup p))
    BY <2>2, <1>4
  <2> DEFINE e == Msg(role, r \cup p)
             U == S \cup {e}
  <2>5. s \in Seq(U) /\ e \in U
    BY <2>3
  <2>6. b = Append(s, e)
    BY <2>4
  <2> HIDE DEF b, e, U
  <2>7. b # << >> /\ Last(b) = e /\ Front(b) = s
    BY <2>5, <2>6 DEF Last, Front
  <2>8. e.role = role /\ e.parts = r \cup p
    BY <1>1 DEF e
  <2>9. Glued(b, Msg(role, q)) = Append(s, Msg(role, (r \cup p) \cup q))
    BY <2>7, <2>8, <1>1, <1>4 DEF Glued
  <2>10. (r \cup p) \cup q = r \cup (p \cup q) /\ p \cup q # {}
    BY <1>4
  <2>11. QED
    BY <2>9, <2>10, <2>2 DEF b
<1>5. QED
  BY <1>2, <1>3, <1>4

\* A message left out when it is empty joins as an empty one does.
LEMMA GroupedTold ==
  ASSUME NEW h, IsHistory(h), NEW role, NEW parts
  PROVE  /\ Grouped(h \o Told(role, parts)) = Glued(Grouped(h), Msg(role, parts))
         /\ Grouped(h \o << Msg(role, parts) >>) = Glued(Grouped(h), Msg(role, parts))
         /\ IsHistory(h \o Told(role, parts))
<1> DEFINE m == Msg(role, parts)
<1>1. Grouped(Append(h, m)) = Glued(Grouped(h), m)
  BY GroupedAppend
<1>2. parts = {} => Glued(Grouped(h), m) = Grouped(h)
  BY DEF Glued, Msg
<1>3. IsHistory(Append(h, m))
  <2>1. PICK S : h \in Seq(S)
    BY DEF IsHistory
  <2> HIDE DEF m
  <2>2. Append(h, m) \in Seq(S \cup {m})
    BY <2>1
  <2>3. QED
    BY <2>2 DEF IsHistory
<1>4. /\ h \o << m >> = Append(h, m)
      /\ h \o Told(role, parts) = IF parts = {} THEN h ELSE Append(h, m)
  BY Putting DEF m
<1>5. QED
  BY <1>1, <1>2, <1>3, <1>4

\* The made-up response says what the live history was told.
LEMMA Recovers ==
  ASSUME NEW told, IsHistory(told), NEW kind, kind # "responses", NEW got, NEW s,
         s.kind = kind, s.messages = told, s.reply = Synthetic(got)
  PROVE  Grouped(RecoveredHistory(s)) = Grouped(told \o ReplyMessages(kind, got))
<1> DEFINE m == Msg("reply", Synthetic(got))
           joined == Glued(Grouped(told), m)
<1>1. Grouped(RecoveredHistory(s)) = joined
  <2>1. RecoveredHistory(s) = IF kind = "anthropic" THEN told \o Told("reply", Synthetic(got))
                              ELSE Append(told, m)
    BY DEF RecoveredHistory
  <2>2. Grouped(Append(told, m)) = joined
    BY GroupedAppend
  <2>3. Grouped(told \o Told("reply", Synthetic(got))) = joined
    BY GroupedTold, ZenonT(40)
  <2> HIDE DEF joined, m
  <2>4. QED
    BY <2>1, <2>2, <2>3
<1>2. CASE kind = "gemini"
  <2> DEFINE said == told \o Told("reply", Spoken(got))
  <2>1. /\ Grouped(said) = Glued(Grouped(told), Msg("reply", Spoken(got)))
        /\ IsHistory(said)
    BY GroupedTold
  <2>2. told \o ReplyMessages(kind, got) = said \o Told("reply", Called(got))
    BY <1>2, PuttingTwo, ToldIsHistory DEF ReplyMessages
  <2> HIDE DEF said
  <2>3. Grouped(said \o Told("reply", Called(got))) = Glued(Grouped(said), Msg("reply", Called(got)))
    BY <2>1, GroupedTold
  <2>4. IsHistory(Grouped(told))
    BY GroupedAppend
  <2>5. Glued(Grouped(said), Msg("reply", Called(got))) = joined
    BY <2>1, <2>4, GluedTwice DEF Synthetic
  <2>6. QED
    BY <1>1, <2>2, <2>3, <2>5
<1>3. CASE kind # "gemini"
  <2>1. told \o ReplyMessages(kind, got) = told \o << m >>
    BY <1>3 DEF ReplyMessages, Synthetic
  <2>2. QED
    BY <1>1, <2>1, GroupedTold
<1>4. QED
  BY <1>2, <1>3

----------------------------------------------------------------------------
(* A chat client: its invariant. *)

ChatRecord(c) ==
  c = [kind |-> c.kind, limit |-> c.limit, budget |-> c.budget, history |-> c.history,
       system |-> c.system, pending |-> c.pending, chained |-> c.chained]

\* A client asks for no more than its model allows.
ChatType ==
  /\ ChatRecord(chat) /\ IsHistory(chat.history) /\ IsHistory(chat.system)
  /\ chat.pending \subseteq ToolIds /\ unanswered \subseteq ToolIds
  /\ chatParams \in Int /\ chat.budget <= chat.limit

\* A call that may still be answered, now or with the next request, has not been answered
\* since the last reply; the Responses client has nothing open at all.
AnswersInv ==
  /\ Once(chat.history)
  /\ chat.pending \cap Open(chat.history) = {} /\ unanswered \cap Open(chat.history) = {}
  /\ chat.kind # "responses" => chat.pending \cap unanswered = {}
  /\ chat.kind = "responses" => Open(chat.history) = {}

\* What is saved was fit to send, and recovers to what the last success left.
SavedInv ==
  saved # NoState =>
    /\ IsHistory(saved.messages) /\ Once(saved.messages) /\ IsHistory(saved.system)
    /\ \A k \in ToolIds : << "result", k >> \notin saved.reply
    /\ saved.kind # "responses" => Grouped(RecoveredHistory(saved)) = Grouped(settled)

ChatInv == ChatType /\ AnswersInv /\ SavedInv

\* The same saved state and the same settled conversation.
LEMMA SavedStays ==
  ASSUME SavedInv, saved' = saved, settled' = settled
  PROVE  SavedInv'
<1>1. Grouped(RecoveredHistory(saved))' = Grouped(RecoveredHistory(saved'))
  BY DEF RecoveredHistory, Grouped
<1>2. Grouped(settled)' = Grouped(settled') /\ Once(saved.messages)' = Once(saved'.messages)
  BY DEF Grouped, Once
<1>3. IsHistory(saved.messages)' = IsHistory(saved'.messages)
      /\ IsHistory(saved.system)' = IsHistory(saved'.system)
  BY DEF IsHistory
<1>4. QED
  BY <1>1, <1>2, <1>3 DEF SavedInv

LEMMA EmptyHistory == IsHistory(<< >>) /\ Once(<< >>) /\ Open(<< >>) = {}
<1>1. << >> \in Seq({}) /\ DOMAIN << >> = {}
  OBVIOUS
<1>2. QED
  BY <1>1 DEF IsHistory, Once, Open

\* A budget is what is asked for or a default, but within the model's limit.
LEMMA BudgetWithin ==
  ASSUME NEW m \in ChatModels, NEW asked \in Int
  PROVE  EffectiveMaxTokens(m, asked) <= m.max
<1>1. m.max \in Int /\ m.default \in Int
  BY ChatAssumption
<1>2. ASSUME NEW a \in Int, NEW b \in Int PROVE Min({a, b}) <= b
  <2>1. \E x \in {a, b} : \A y \in {a, b} : x <= y
    BY <1>2
  <2>2. \A y \in {a, b} : Min({a, b}) <= y
    BY <2>1 DEF Min
  <2>3. QED
    BY <2>2
<1>3. QED
  BY <1>1, <1>2 DEF EffectiveMaxTokens

LEMMA ChatInitInv == ChatInit => ChatInv
<1> SUFFICES ASSUME ChatInit PROVE ChatInv
  OBVIOUS
<1>1. chat = NewChat("none", 1, 1) /\ chatParams \in Int /\ saved = NoState /\ unanswered = {}
  BY ChatAssumption DEF ChatInit
<1>2. ChatType /\ AnswersInv
  BY <1>1, EmptyHistory DEF ChatType, AnswersInv, NewChat, ChatRecord
<1>3. QED
  BY <1>1, <1>2 DEF ChatInv, SavedInv

\* A successful exchange: the reply closes what was open, or there is nothing to answer.
LEMMA AnswerKeptInv ==
  ASSUME NEW c, ChatRecord(c), IsHistory(c.system), c.pending \subseteq ToolIds,
         c.budget <= c.limit, c.kind # "responses" => c.pending = {},
         NEW told, IsHistory(told), Once(told), chatParams \in Int, AnswerKept(c, told)
  PROVE  ChatInv'
<1>1. PICK got \in Heard(c.kind), id \in BOOLEAN :
        LET history == told \o ReplyMessages(c.kind, got) IN
        /\ chat' = [c EXCEPT !.history = history, !.chained = id]
        /\ saved' = [kind |-> c.kind, messages |-> told, system |-> c.system, reply |-> Synthetic(got)]
        /\ unanswered' = CallsIn(got) /\ settled' = history /\ chatParams' = chatParams
  BY DEF AnswerKept
<1> DEFINE h == told \o ReplyMessages(c.kind, got)
<1>2. /\ IsHistory(h) /\ Once(h)
      /\ (c.kind = "gemini" /\ CallsIn(got) = {}) \/ Open(h) = {}
  BY ReplyKeeps
<1>3. /\ chat'.kind = c.kind /\ chat'.limit = c.limit /\ chat'.budget = c.budget
      /\ chat'.history = h /\ chat'.system = c.system /\ chat'.pending = c.pending
      /\ ChatRecord(chat')
  <2> HIDE DEF h
  <2>1. chat' = [c EXCEPT !.history = h, !.chained = id]
    BY <1>1 DEF h
  <2>2. QED
    BY <2>1 DEF ChatRecord
<1>4. /\ saved'.kind = c.kind /\ saved'.messages = told /\ saved'.reply = Synthetic(got)
      /\ saved'.system = c.system
  BY <1>1
<1>5. settled' = h /\ unanswered' = CallsIn(got) /\ CallsIn(got) \subseteq ToolIds /\ chatParams' \in Int
  BY <1>1 DEF CallsIn
<1> HIDE DEF h
<1>6. ChatType'
  BY <1>2, <1>3, <1>5 DEF ChatType
<1>7. AnswersInv'
  BY <1>2, <1>3, <1>5 DEF AnswersInv, Once, Open, Delivered
<1>8. SavedInv'
  <2>1. c.kind # "responses" => Grouped(RecoveredHistory(saved')) = Grouped(h)
    BY <1>4, Recovers DEF h
  <2>2. \A k \in ToolIds : << "result", k >> \notin Synthetic(got)
    BY ReplyParts
  <2>3. Grouped(RecoveredHistory(saved))' = Grouped(RecoveredHistory(saved'))
    BY DEF RecoveredHistory, Grouped
  <2>4. Grouped(settled)' = Grouped(settled') /\ Once(saved.messages)' = Once(saved'.messages)
    BY DEF Grouped, Once
  <2>5. IsHistory(saved.messages)' = IsHistory(saved'.messages)
        /\ IsHistory(saved.system)' = IsHistory(saved'.system)
    BY DEF IsHistory
  <2>6. QED
    BY <2>1, <2>2, <2>3, <2>4, <2>5, <1>4, <1>5 DEF SavedInv
<1>9. QED
  BY <1>6, <1>7, <1>8 DEF ChatInv

\* What a request sends: the results taken out of pending are of calls not yet answered.
LEMMA SentKeeps ==
  ASSUME ChatInv, NEW parts
  PROVE  /\ IsHistory(Sent(parts)) /\ Once(Sent(parts))
         /\ chat.kind # "responses" => unanswered \cap Open(Sent(parts)) = {}
<1> USE DEF ChatInv, ChatType, AnswersInv
<1> DEFINE b == Before(chat)
           ids == Usable(chat)
           turn == RequestTurn(chat.kind, ids, parts)
<1>1. ids \in SUBSET ToolIds /\ ids \cap Open(b) = {} /\ IsHistory(b) /\ Once(b)
  <2>1. CASE chat.kind = "responses" /\ ~chat.chained
    <3>1. b = AsMessages(chat.system) /\ ids = {}
      BY <2>1 DEF Before, Usable
    <3>2. PICK S : chat.system \in Seq(S)
      BY DEF IsHistory
    <3> DEFINE M == {Msg("system", {<< "said", x >>}) : x \in S}
    <3>3. /\ b \in Seq(M) /\ DOMAIN b = 1..Len(chat.system)
          /\ \A i \in DOMAIN b : b[i] = Msg("system", {<< "said", chat.system[i] >>})
      BY <3>1, <3>2 DEF AsMessages
    <3>4. \A i \in DOMAIN b : \A k \in ToolIds : << "result", k >> \notin b[i].parts
      BY <3>3 DEF Msg
    <3>5. IsHistory(b) /\ Once(b)
      BY <3>3, <3>4 DEF IsHistory, Once
    <3>6. QED
      BY <3>1, <3>5
  <2>2. CASE ~(chat.kind = "responses" /\ ~chat.chained)
    <3>1. b = chat.history /\ ids = chat.pending
      BY <2>2 DEF Before, Usable
    <3>2. QED
      BY <3>1
  <2>3. QED
    BY <2>1, <2>2
<1>2. /\ IsHistory(b \o turn) /\ Once(b \o turn) /\ Open(b \o turn) \subseteq Open(b) \cup ids
  <2> HIDE DEF b, ids
  <2>1. QED
    BY <1>1, TurnKeeps
<1>3. chat.kind # "responses" => b = chat.history /\ ids = chat.pending
  BY DEF Before, Usable
<1>4. Sent(parts) = b \o turn
  BY DEF Sent
<1> HIDE DEF b, ids, turn
<1>5. QED
  BY <1>2, <1>3, <1>4

\* A history changes, and what is pending with it, but not what is saved.
LEMMA HistoryChanges ==
  ASSUME ChatInv, UNCHANGED << chatParams, saved, settled >>, NEW h,
         chat'.history = h, IsHistory(h), Once(h), ChatRecord(chat'), IsHistory(chat'.system),
         chat'.kind = chat.kind, chat'.budget <= chat'.limit,
         chat'.pending \subseteq ToolIds, unanswered' \subseteq ToolIds,
         chat'.pending \cap Open(h) = {}, unanswered' \cap Open(h) = {},
         chat.kind # "responses" => chat'.pending \cap unanswered' = {},
         chat.kind = "responses" => Open(h) = {}
  PROVE  ChatInv'
<1>1. ChatType'
  BY DEF ChatInv, ChatType
<1>2. AnswersInv'
  BY DEF AnswersInv, Once, Open, Delivered
<1>3. SavedInv'
  BY SavedStays DEF ChatInv
<1>4. QED
  BY <1>1, <1>2, <1>3 DEF ChatInv

\* Every call of a client, failed ones included, and a restart keep the invariant.
LEMMA ChatNextInv == ChatInv /\ [ChatNext]_chatVars => ChatInv'
<1> SUFFICES ASSUME ChatInv, [ChatNext]_chatVars PROVE ChatInv'
  OBVIOUS
<1>0. ChatType /\ AnswersInv /\ SavedInv
  BY DEF ChatInv
<1> DEFINE c == Emptied
<1>t. /\ ChatRecord(c) /\ IsHistory(c.system) /\ c.pending \subseteq ToolIds /\ c.budget <= c.limit
      /\ c.kind # "responses" => c.pending = {}
      /\ c.kind = chat.kind /\ c.history = chat.history /\ c.pending \subseteq chat.pending
  BY <1>0 DEF Emptied, Usable, ChatType, ChatRecord
<1>1. ASSUME NEW m \in ChatModels, GetChat(m) PROVE ChatInv'
  <2> DEFINE asked == IF chatParams = 0 THEN m.spec ELSE chatParams
  <2>1. asked \in Int
    BY <1>0, ChatAssumption DEF ChatType
  <2>2. /\ chat' = NewChat(m.kind, m.max, EffectiveMaxTokens(m, asked)) /\ chatParams' = asked
        /\ saved' = NoState /\ unanswered' = {}
    BY <1>1 DEF GetChat
  <2> HIDE DEF asked
  <2>3. /\ chat'.history = << >> /\ chat'.system = << >> /\ chat'.pending = {}
        /\ chat'.budget = EffectiveMaxTokens(m, asked) /\ chat'.limit = m.max /\ ChatRecord(chat')
    BY <2>2 DEF NewChat, ChatRecord
  <2>4. ChatType'
    BY <2>1, <2>2, <2>3, EmptyHistory, BudgetWithin DEF ChatType
  <2>5. AnswersInv'
    BY <2>2, <2>3, EmptyHistory DEF AnswersInv, Once, Open, Delivered
  <2>6. SavedInv'
    BY <2>2 DEF SavedInv
  <2>7. QED
    BY <2>4, <2>5, <2>6 DEF ChatInv
<1>2. ASSUME NEW parts \in UserContents, Request(parts) PROVE ChatInv'
  <2>1. AnswerKept(c, Sent(parts)) /\ chatParams \in Int
    BY <1>2, <1>0 DEF Request, ChatType
  <2> HIDE DEF c
  <2>2. QED
    BY <2>1, <1>t, SentKeeps, AnswerKeptInv
<1>3. ASSUME NEW parts \in UserContents, RequestFails(parts) \/ RequestPanics(parts) PROVE ChatInv'
  <2>1. /\ chat' = c \/ (chat.kind # "responses" /\ chat' = [c EXCEPT !.history = Sent(parts)])
        /\ unanswered' = unanswered /\ UNCHANGED << chatParams, saved, settled >>
    BY <1>3 DEF RequestFails, RequestPanics
  <2> HIDE DEF c
  <2>2. CASE chat' = c
    <3>1. /\ IsHistory(chat.history) /\ Once(chat.history) /\ unanswered \subseteq ToolIds
          /\ chat.pending \cap Open(chat.history) = {} /\ unanswered \cap Open(chat.history) = {}
          /\ chat.kind = "responses" => Open(chat.history) = {}
      BY <1>0 DEF ChatType, AnswersInv
    <3>2. QED
      BY <2>1, <2>2, <3>1, <1>t, HistoryChanges
  <2>3. CASE chat.kind # "responses" /\ chat' = [c EXCEPT !.history = Sent(parts)]
    <3> DEFINE h == Sent(parts)
    <3>1. IsHistory(h) /\ Once(h) /\ unanswered \cap Open(h) = {}
      BY <2>3, SentKeeps
    <3> HIDE DEF h
    <3>2. chat' = [c EXCEPT !.history = h]
      BY <2>3 DEF h
    <3>3. /\ chat'.history = h /\ ChatRecord(chat') /\ chat'.system = c.system /\ chat'.pending = c.pending
          /\ chat'.kind = c.kind /\ chat'.budget = c.budget /\ chat'.limit = c.limit
      BY <3>2, <1>t DEF ChatRecord
    <3>4. c.pending = {} /\ unanswered \subseteq ToolIds
      BY <2>3, <1>t, <1>0 DEF ChatType
    <3>5. QED
      BY <2>1, <2>3, <3>1, <3>3, <3>4, <1>t, HistoryChanges
  <2>4. QED
    BY <2>1, <2>2, <2>3
<1>4. ASSUME NEW ids \in SUBSET unanswered \ {{}}, NEW parts \in UserContents, Respond(ids, parts)
      PROVE  ChatInv'
  <2> DEFINE told == chat.history \o RespondTurn(chat.kind, ids, parts)
  <2>1. AnswerKept(chat, told) /\ chat.pending = {}
    BY <1>4 DEF Respond
  <2>2. ids \in SUBSET ToolIds /\ ids \cap Open(chat.history) = {}
    BY <1>0 DEF ChatType, AnswersInv
  <2>3. IsHistory(told) /\ Once(told)
    BY <2>2, <1>0, TurnKeeps DEF ChatType, AnswersInv
  <2> HIDE DEF told
  <2>4. QED
    BY <2>1, <2>3, <1>0, AnswerKeptInv DEF ChatType
<1>5. ASSUME NEW ids \in SUBSET unanswered \ {{}}, SetPendingToolResults(ids) PROVE ChatInv'
  <2>1. /\ chat' = [chat EXCEPT !.pending = ids] /\ unanswered' = unanswered \ ids
        /\ UNCHANGED << chatParams, saved, settled >>
    BY <1>5 DEF SetPendingToolResults
  <2>2. /\ chat'.history = chat.history /\ ChatRecord(chat') /\ chat'.system = chat.system
        /\ chat'.kind = chat.kind /\ chat'.budget = chat.budget /\ chat'.limit = chat.limit
        /\ chat'.pending = ids
    BY <2>1, <1>0 DEF ChatType, ChatRecord
  <2>3. QED
    BY <2>1, <2>2, <1>0, HistoryChanges DEF ChatType, AnswersInv
<1>6. ASSUME NEW blocks \in Prompts, SetSystemBlocks(blocks) PROVE ChatInv'
  <2> DEFINE ordered == SystemBlocks(chat.kind, blocks)
             n == LeadingSystem(chat.history)
             h == AsMessages(ordered) \o SubSeq(chat.history, n + 1, Len(chat.history))
  <2>1. /\ \/ chat' = [chat EXCEPT !.system = ordered]
           \/ chat' = chat
           \/ chat.kind = "openai" /\ chat' = [chat EXCEPT !.history = h]
        /\ unanswered' = unanswered /\ UNCHANGED << chatParams, saved, settled >>
    BY <1>6 DEF SetSystemBlocks
  <2>2. IsHistory(ordered)
    <3>1. DOMAIN blocks = 1..Len(blocks) /\ Len(blocks) \in Nat
      BY ChatAssumption
    <3>2. ordered = [i \in DOMAIN blocks |-> ordered[i]]
      BY DEF SystemBlocks
    <3> HIDE DEF ordered
    <3>3. ordered \in Seq({ordered[i] : i \in DOMAIN blocks})
      BY <3>1, <3>2
    <3>4. QED
      BY <3>3 DEF IsHistory
  <2>3. n \in 0..Len(chat.history)
    <3> DEFINE K == {i \in 0..Len(chat.history) : \A j \in 1..i : chat.history[j].role = "system"}
    <3>1. Len(chat.history) \in Nat
      BY <1>0 DEF ChatType, IsHistory
    <3>2. 0 \in K /\ K \subseteq Nat /\ \A i \in K : i <= Len(chat.history)
      BY <3>1
    <3>3. Max(K) \in K
      <4> HIDE DEF K
      <4>1. QED
        BY <3>1, <3>2, BoundedMax
    <3>4. QED
      BY <3>3 DEF LeadingSystem
  <2>4. IsHistory(h) /\ Once(h) /\ Open(h) \subseteq Open(chat.history)
    <3> HIDE DEF n, ordered
    <3>1. QED
      BY <2>2, <2>3, <1>0, PromptKeeps DEF ChatType, AnswersInv
  <2> HIDE DEF h, ordered, n
  <2>5. /\ chat'.history \in {chat.history, h} /\ ChatRecord(chat')
        /\ chat'.system \in {chat.system, ordered}
        /\ chat'.kind = chat.kind /\ chat'.budget = chat.budget /\ chat'.limit = chat.limit
        /\ chat'.pending = chat.pending
    BY <2>1, <1>0 DEF ChatType, ChatRecord
  <2> DEFINE g == chat'.history
  <2>6. IsHistory(g) /\ Once(g) /\ Open(g) \subseteq Open(chat.history) /\ IsHistory(chat'.system)
    BY <2>2, <2>4, <2>5, <1>0 DEF ChatType, AnswersInv
  <2> HIDE DEF g
  <2>7. chat'.history = g
    BY DEF g
  <2>8. QED
    BY <2>1, <2>5, <2>6, <2>7, <1>0, HistoryChanges DEF ChatType, AnswersInv
<1>7. CASE ClearHistory
  <2>1. /\ chat' = [chat EXCEPT !.history = << >>, !.chained = FALSE,
                                !.system = IF chat.kind = "gemini" THEN << >> ELSE @]
        /\ unanswered' = {} /\ UNCHANGED << chatParams, saved, settled >>
    BY <1>7 DEF ClearHistory
  <2>2. /\ chat'.history = << >> /\ ChatRecord(chat') /\ chat'.system \in {chat.system, << >>}
        /\ chat'.kind = chat.kind /\ chat'.budget = chat.budget /\ chat'.limit = chat.limit
        /\ chat'.pending = chat.pending
    BY <2>1, <1>0 DEF ChatType, ChatRecord
  <2>3. IsHistory(chat'.system)
    BY <2>2, <1>0, EmptyHistory DEF ChatType
  <2>4. QED
    BY <2>1, <2>2, <2>3, <1>0, EmptyHistory, HistoryChanges DEF ChatType
<1>8. CASE RestartAndRecover
  <2> DEFINE h == RecoveredHistory(saved)
             system == IF saved.kind = "anthropic" THEN saved.system ELSE << >>
  <2>1. /\ saved # NoState /\ UNCHANGED << chatParams, saved, settled >>
        /\ chat' = [NewChat(saved.kind, chat.limit, chat.budget)
                      EXCEPT !.history = h, !.system = system]
        /\ unanswered' = {k \in ToolIds : << "call", k >> \in saved.reply}
    BY <1>8 DEF RestartAndRecover
  <2> HIDE DEF h, system
  <2>2. /\ chat'.kind = saved.kind /\ chat'.limit = chat.limit /\ chat'.budget = chat.budget
        /\ chat'.history = h /\ chat'.system = system /\ chat'.pending = {} /\ ChatRecord(chat')
    BY <2>1 DEF NewChat, ChatRecord
  <2>3. /\ IsHistory(saved.messages) /\ Once(saved.messages) /\ IsHistory(saved.system)
    BY <2>1, <1>0 DEF SavedInv
  <2>4. /\ IsHistory(h) /\ Once(h) /\ (Open(h) = {} \/ saved.reply = {})
        /\ saved.kind = "responses" => Open(h) = {}
    <3>1. CASE saved.kind = "responses"
      BY <3>1, EmptyHistory DEF h, RecoveredHistory
    <3>2. CASE saved.kind = "anthropic"
      BY <2>3, <3>2, OneReply DEF h, RecoveredHistory
    <3>3. CASE saved.kind \notin {"responses", "anthropic"}
      BY <2>3, <3>3, OneReply DEF h, RecoveredHistory
    <3>4. QED
      BY <3>1, <3>2, <3>3
  <2>5. IsHistory(system)
    BY <2>3, EmptyHistory DEF system
  <2>6. ChatType'
    BY <2>1, <2>2, <2>4, <2>5, <1>0 DEF ChatType
  <2>7. AnswersInv'
    BY <2>1, <2>2, <2>4 DEF AnswersInv, Once, Open, Delivered
  <2>8. SavedInv'
    BY <2>1, <1>0, SavedStays
  <2>9. QED
    BY <2>6, <2>7, <2>8 DEF ChatInv
<1>9. CASE UNCHANGED chatVars
  <2>1. SavedInv'
    BY <1>0, <1>9, SavedStays DEF chatVars
  <2>2. ChatType' /\ AnswersInv'
    BY <1>0, <1>9 DEF ChatType, AnswersInv, chatVars, Once, Open, Delivered
  <2>3. QED
    BY <2>1, <2>2 DEF ChatInv
<1>10. QED
  BY <1>1, <1>2, <1>3, <1>4, <1>5, <1>6, <1>7, <1>8, <1>9 DEF ChatNext

\* Recovery brings back the conversation the last success left, no call is answered twice
\* before a reply, and no budget is above the model's limit (llm/state_recovery.go:43-45,
\* llm/chat_clients.go).
THEOREM ChatAlwaysSound == ChatSpec => []ChatSound
<1>1. ChatInv => ChatSound
  BY DEF ChatInv, ChatType, AnswersInv, SavedInv, ChatSound, Once
<1>2. QED
  BY ChatInitInv, ChatNextInv, <1>1, PTL DEF ChatSpec
=============================================================================
