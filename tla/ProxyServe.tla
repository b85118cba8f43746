---------------------------- MODULE ProxyServe ----------------------------
(***************************************************************************)
(* One inference request through proxy.Serve: select a backend, ask its    *)
(* breaker, attempt, and decide between answering, walking on to another   *)
(* backend and giving up; then the answer gateway.inferenceHandler makes   *)
(* of the Result.                                                          *)
(*                                                                         *)
(* The rest of the program is the environment, and may do anything it can: *)
(* the policy selects any remaining backend or refuses, a breaker denies,  *)
(* an upstream ends in any of Outcomes.  A response is reduced to what the *)
(* proxy tells apart:                                                      *)
(*   "served"     2xx relayed to its end                                   *)
(*   "final"      a status nobody retries: 4xx, 500                        *)
(*   "busy"       502, 503, 504, 408                                       *)
(*   "full"       429                                                      *)
(*   "reject"     the 503 that names a large prefill                       *)
(*   "broken"     no response: connect, TLS, timeout                       *)
(*   "gone"       no response, and the caller has hung up                  *)
(*   "aborted"    the copy to the client failed at either end, which       *)
(*                panics with ErrAbortHandler (module UpstreamStream)      *)
(* Waiting out a capacity refusal is module CapacityQueue; here the loop   *)
(* of serveWithCapacityRetry is the choice to serve again, on whatever     *)
(* candidates are left by then.                                            *)
(***************************************************************************)
EXTENDS Integers, FiniteSets

CONSTANTS
  Backends,     \* the candidates
  Tripping,     \* the backends whose breaker may deny
  MaxAttempts,  \* Config.MaxAttempts
  None          \* nil

ASSUME AttemptsAssumption == MaxAttempts \in Nat \ {0}
ASSUME BackendsAssumption == IsFiniteSet(Backends) /\ Tripping \subseteq Backends
ASSUME NoneAssumption ==
  None \notin Backends \cup {"noBackend", "saturated", "upstream", "gone", "nothing"}

VARIABLES
  pc,         \* "cands", "select", "allow", "attempt", "returned" or "done"
  capture,    \* the request's context captures prefill rejections
  cands,      \* Serve's candidates
  remaining,  \* Serve's remaining
  attempt,    \* the loop counter
  failovers,  \* refusals walked past
  chosen,     \* the backend selected
  committed,  \* a byte has gone to the client
  res,        \* Result: backend, err, attempts, rejected
  open,       \* admissions of a breaker whose outcome is not recorded yet
  tried,      \* history: the backends this Serve has attempted
  answer      \* what the client got in the end

serve == << cands, remaining, attempt, failovers, chosen, res, tried >>
serveVars == << pc, capture, cands, remaining, attempt, failovers, chosen, committed,
           res, open, tried, answer >>

Outcomes == {"served", "final", "busy", "full", "reject", "broken", "gone",
             "aborted"}
NoResult == [backend |-> None, err |-> None, attempts |-> 0, rejected |-> FALSE]

ServeInit ==
  /\ pc = "cands"
  /\ capture \in BOOLEAN
  /\ cands = {} /\ remaining = {}
  /\ attempt = 0 /\ failovers = 0
  /\ chosen = None
  /\ committed = FALSE
  /\ res = NoResult
  /\ open = 0
  /\ tried = {}
  /\ answer = None

----------------------------------------------------------------------------
\* Serve returns r.
Return(r) ==
  /\ res' = IF r.backend = None /\ r.err = None THEN [r EXCEPT !.err = "noBackend"] ELSE r
  /\ pc' = "returned"

\* The top of the loop: the attempts are spent, or nobody remains.
LoopEnds ==
  /\ pc = "select" /\ (attempt >= MaxAttempts \/ remaining = {})
  /\ Return(res)
  /\ UNCHANGED << capture, cands, remaining, attempt, failovers, chosen, committed,
                  open, tried, answer >>

\* Select refuses for capacity.
SelectRefuses ==
  /\ pc = "select" /\ attempt < MaxAttempts /\ remaining # {}
  /\ Return([res EXCEPT !.err = "saturated"])
  /\ UNCHANGED << capture, cands, remaining, attempt, failovers, chosen, committed,
                  open, tried, answer >>

Select(b) ==
  /\ pc = "select" /\ attempt < MaxAttempts /\ b \in remaining
  /\ chosen' = b
  /\ pc' = "allow"
  /\ UNCHANGED << capture, cands, remaining, attempt, failovers, committed, res,
                  open, tried, answer >>

\* Mutant: a backend whose breaker denied stays among the candidates.
AfterDenial_Stays == remaining

\* What remains when the breaker of the chosen backend has denied.
AfterDenial == remaining \ {chosen}

\* CB.Allow denies: not an attempt.
Denied ==
  /\ pc = "allow" /\ chosen \in Tripping
  /\ remaining' = AfterDenial
  /\ pc' = "select"
  /\ UNCHANGED << capture, cands, attempt, failovers, chosen, committed, res, open,
                  tried, answer >>

\* CB.Allow admits: the attempt begins.
Permitted ==
  /\ pc = "allow"
  /\ res' = [res EXCEPT !.backend = chosen, !.attempts = @ + 1]
  /\ open' = open + 1
  /\ tried' = tried \cup {chosen}
  /\ pc' = "attempt"
  /\ UNCHANGED << capture, cands, remaining, attempt, failovers, chosen, committed,
                  answer >>

----------------------------------------------------------------------------
RefusalsLeft == failovers < Cardinality(cands)

\* Serve's canRetry, and so ModifyResponse's choice between discarding a retryable
\* response and relaying it.
CanRetry ==
  (attempt + 1 < MaxAttempts \/ RefusalsLeft) /\ Cardinality(remaining) > 1

\* ModifyResponse discards the response and lets another backend be tried.
Discards(o) == o \in {"busy", "full"} /\ CanRetry /\ ~committed

\* A capturing request's rejection is absorbed, anything else of it relayed.
Absorbs(o) == o = "reject" /\ capture

\* The response reaches the client.
Relays(o) ==
  /\ o \in {"served", "final", "busy", "full", "reject", "aborted"}
  /\ ~Discards(o) /\ ~Absorbs(o)

\* attemptOut.retryable.
Retryable(o) == Discards(o) \/ (o = "broken" /\ ~committed)

ErrOf(o) ==
  CASE o = "broken" -> "upstream"
    [] o = "gone"   -> "gone"
    [] OTHER        -> None

\* A 429 is walked past on the refusals' own budget.
Walks(o) ==
  /\ o = "full" /\ RefusalsLeft /\ Retryable(o) /\ ~committed'
  /\ Cardinality(remaining) > 1

\* The failure budget allows another try.
TriesAgain(o) == Retryable(o) /\ ~committed' /\ attempt + 1 < MaxAttempts

\* What remains for a retry: a different backend.
Others == remaining \ {chosen}

\* Mutant: a panic leaves the admission unrecorded.
Recorded_NotOnPanic(o) == IF o = "aborted" THEN open ELSE open - 1

\* runAttempt records the outcome once, whether the attempt returns or panics.
Recorded(o) == open - 1

\* The attempt ends, and Serve decides.
Attempt(o) ==
  /\ pc = "attempt"
  /\ committed' = (committed \/ Relays(o))
  /\ open' = Recorded(o)
  /\ LET out == [res EXCEPT !.err = ErrOf(o), !.rejected = Absorbs(o)] IN
       \/ /\ o = "aborted"   \* unwinds to the recover middleware
          /\ pc' = "done" /\ answer' = "relayed"
          /\ UNCHANGED << res, remaining, attempt, failovers >>
       \/ /\ o # "aborted" /\ Walks(o)
          /\ res' = out /\ pc' = "select"
          /\ remaining' = Others
          /\ failovers' = failovers + 1
          /\ UNCHANGED << attempt, answer >>
       \/ /\ o # "aborted" /\ ~Walks(o) /\ TriesAgain(o)
          /\ res' = out /\ pc' = "select"
          /\ remaining' = Others
          /\ attempt' = attempt + 1
          /\ UNCHANGED << failovers, answer >>
       \/ /\ o # "aborted" /\ ~Walks(o) /\ ~TriesAgain(o)
          /\ Return(out)
          /\ UNCHANGED << remaining, attempt, failovers, answer >>
  /\ UNCHANGED << capture, cands, chosen, tried >>

----------------------------------------------------------------------------
\* The top of serveWithCapacityRetry's loop: Serve on a fresh candidate set, or
\* nobody is left and the previous attempt's result, if any, is the answer.
Candidates(cs) ==
  /\ pc = "cands"
  /\ \/ /\ cs = {}
        /\ pc' = "returned"
        /\ UNCHANGED serve
     \/ /\ cs # {}
        /\ pc' = "select"
        /\ cands' = cs /\ remaining' = cs
        /\ attempt' = 0 /\ failovers' = 0
        /\ chosen' = None /\ res' = NoResult /\ tried' = {}
  /\ UNCHANGED << capture, committed, open, answer >>

\* A capacity refusal within its budget is waited out.
ServeAgain ==
  /\ pc = "returned" /\ res.err = "saturated" /\ ~committed
  /\ pc' = "cands"
  /\ UNCHANGED << capture, serve, committed, open, answer >>

\* inferenceHandler's switch on the Result; splitAndServe takes an absorbed
\* rejection over.
AnswerOf ==
  IF committed THEN "relayed"
  ELSE IF res.rejected THEN "split"
  ELSE CASE res.err = None        -> "nothing"
         [] res.err = "saturated" -> "busy"
         [] res.err = "gone"      -> "closed"
         [] OTHER                 -> "badGateway"

Answer ==
  /\ pc = "returned"
  /\ answer' = AnswerOf
  /\ pc' = "done"
  /\ UNCHANGED << capture, serve, committed, open >>

ServeStep ==
  \/ LoopEnds \/ SelectRefuses \/ (\E b \in Backends : Select(b))
  \/ Denied \/ Permitted \/ (\E o \in Outcomes : Attempt(o))

ServeNext ==
  \/ ServeStep
  \/ \E cs \in SUBSET Backends : Candidates(cs)
  \/ ServeAgain \/ Answer

\* Serve's own steps happen: Select returns, and RequestTimeout ends an attempt.
ServeFairness == WF_serveVars(ServeStep) /\ WF_serveVars(Answer)

ServeSpec == ServeInit /\ [][ServeNext]_serveVars /\ ServeFairness

----------------------------------------------------------------------------
\* REL-1, REL-3 (proxy.go:254-266, 324): no backend gets the request twice in one
\* Serve, refusals do not stretch the failure budget, and nothing follows a
\* response that has begun.
RetriesAreSafe ==
  /\ res.attempts = Cardinality(tried)
  /\ res.attempts <= MaxAttempts + failovers
  /\ committed => pc \in {"returned", "done"}

\* Every admission by a breaker is recorded exactly once by the time Serve is out
\* of the attempt, panics included (proxy.go:397-431): what is left open holds a
\* half-open token for ever.
AdmissionsRecorded == open = IF pc = "attempt" THEN 1 ELSE 0

\* A response is discarded only if somebody else could be asked (proxy.go:293,
\* 604): the answer of a fleet of one reaches the client whatever it is.
SoleBackendAnswers ==
  answer = "nothing" => res.backend = None \/ Cardinality(cands) > 1

\* Serve returns: attempt-- undoes the loop's count for refusals and denials, and
\* only the shrinking of remaining ends the loop (proxy.go:255-262).
ServeReturns == pc \in {"select", "allow", "attempt"} ~> pc \in {"returned", "done"}

\* The attempts of one Serve, together: safe to repeat, each judged once, and none
\* thrown away for nobody.
AttemptsSound == RetriesAreSafe /\ AdmissionsRecorded /\ SoleBackendAnswers

\* Stated by proxy.go:449-451: a retryable response is rejected only so that the
\* caller can try another backend, and is relayed as the final answer otherwise.
\* So a request some backend has answered never ends with an empty response.
DiscardedIsReplaced == answer = "nothing" => res.backend = None
============================================================================
