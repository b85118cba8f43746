-------------------------- MODULE PrefillScheduler --------------------------
(***************************************************************************)
(* Processor sharing of the mock engine's prefill (mockvllm/prefill.go):   *)
(* callers of submit, and the one event loop that owns the active jobs,    *)
(* brings their remaining work up to date at every join, leave and wake,   *)
(* and arms one timer for the next completion.                             *)
(*                                                                         *)
(* Work and time are counted in ticks, a tick of work being Grain parts so *)
(* that shares are whole; a timer due between two ticks fires at the       *)
(* second.  The loop is prompt: time does not pass a timer that is due.    *)
(* Callers may be as slow as they like.                                    *)
(***************************************************************************)
EXTENDS Integers, FiniteSets, FiniteSetsExt

CONSTANTS
  Submitters,  \* goroutines that call submit
  Works,       \* the work of a call, in ticks
  Grain,       \* parts of a tick
  MaxClock,    \* bound on time
  NoWake       \* no timer armed

ASSUME PrefillAssumption ==
  /\ IsFiniteSet(Submitters) /\ Works \subseteq Nat /\ Grain \in Nat
  /\ \A n \in 1..Cardinality(Submitters) : Grain % n = 0

VARIABLES
  sub,        \* submitter -> [at, work, over]: its place in submit, whether ctx is done
  remaining,  \* the active jobs -> parts of work left: active and prefillJob.remaining
  finished,   \* jobs whose done channel is closed
  updated,    \* lastUpdate
  wake,       \* when the armed timer fires
  now,        \* the clock
  stopped,    \* stopCh is closed and run has returned
  served      \* history: submitter -> the parts of the instance's time its job had

schedVars == << sub, remaining, finished, updated, wake, now, stopped, served >>

Outside == [at |-> "outside", work |-> 0, over |-> FALSE]

SchedInit ==
  /\ sub = [s \in Submitters |-> Outside]
  /\ remaining = << >> /\ finished = {}
  /\ updated = 0 /\ wake = NoWake /\ now = 0 /\ stopped = FALSE
  /\ served = [s \in Submitters |-> 0]

----------------------------------------------------------------------------
(* submit. *)

Submit(s, w) ==
  /\ sub[s].at = "outside"
  /\ sub' = [sub EXCEPT ![s] = [Outside EXCEPT !.at = IF w = 0 THEN "none" ELSE "join", !.work = w]]
  /\ UNCHANGED << remaining, finished, updated, wake, now, stopped, served >>

\* The request's context ends, at any time.
ContextEnds(s) ==
  /\ sub[s].at # "outside" /\ ~sub[s].over
  /\ sub' = [sub EXCEPT ![s].over = TRUE]
  /\ UNCHANGED << remaining, finished, updated, wake, now, stopped, served >>

Returns(s, answer) == sub' = [sub EXCEPT ![s].at = answer]

NothingToDo(s) ==
  /\ sub[s].at = "none"
  /\ Returns(s, IF sub[s].over THEN "false" ELSE "true")
  /\ UNCHANGED << remaining, finished, updated, wake, now, stopped, served >>

GivesUpJoining(s) ==
  /\ sub[s].at = "join" /\ sub[s].over
  /\ Returns(s, "false")
  /\ UNCHANGED << remaining, finished, updated, wake, now, stopped, served >>

SeesDone(s) ==
  /\ sub[s].at \in {"wait", "leave"} /\ s \in finished
  /\ Returns(s, "true")
  /\ UNCHANGED << remaining, finished, updated, wake, now, stopped, served >>

SeesContext(s) ==
  /\ sub[s].at = "wait" /\ sub[s].over
  /\ Returns(s, "leave")
  /\ UNCHANGED << remaining, finished, updated, wake, now, stopped, served >>

\* The leave was received: was the job done by then?
AfterLeave(s) ==
  /\ sub[s].at = "left"
  /\ Returns(s, IF s \in finished THEN "true" ELSE "false")
  /\ UNCHANGED << remaining, finished, updated, wake, now, stopped, served >>

Gone(s) ==
  /\ sub[s].at \in {"true", "false"}
  /\ sub' = [sub EXCEPT ![s] = Outside]
  /\ finished' = finished \ {s}
  /\ served' = [served EXCEPT ![s] = 0]
  /\ UNCHANGED << remaining, updated, wake, now, stopped >>

----------------------------------------------------------------------------
(* run. *)

\* Mutant: the job that joins takes part in the interval before it came.
Settled_WithJoiner(rem, n) ==
  [j \in DOMAIN rem |-> rem[j] - (Grain * (now - updated)) \div Min({n + 1, Cardinality(Submitters)})]

\* settle: each of the n jobs active throughout the interval has had its share of it.
Settled(rem, n) == [j \in DOMAIN rem |-> rem[j] - (Grain * (now - updated)) \div n]

\* reschedule: when the least remaining work is done at the present count.
Rescheduled(rem) ==
  IF DOMAIN rem = {} THEN NoWake
  ELSE now + (Max({0, Min({rem[j] : j \in DOMAIN rem})}) * Cardinality(DOMAIN rem) + Grain - 1) \div Grain

SettledNow == Settled(remaining, Cardinality(DOMAIN remaining))

Without(rem, js) == [j \in DOMAIN rem \ js |-> rem[j]]

JoinJob(s) ==
  /\ ~stopped /\ sub[s].at = "join"
  /\ LET rem == [j \in DOMAIN remaining \cup {s} |->
                   IF j = s THEN Grain * sub[s].work ELSE SettledNow[j]]
     IN remaining' = rem /\ wake' = Rescheduled(rem)
  /\ updated' = now
  /\ sub' = [sub EXCEPT ![s].at = "wait"]
  /\ UNCHANGED << finished, now, stopped, served >>

\* A job that was completed first is not active any more and nothing is settled.
LeaveJob(s) ==
  /\ ~stopped /\ sub[s].at = "leave"
  /\ IF s \in DOMAIN remaining
     THEN LET rem == Without(SettledNow, {s}) IN
          remaining' = rem /\ wake' = Rescheduled(rem) /\ updated' = now
     ELSE UNCHANGED << remaining, wake, updated >>
  /\ sub' = [sub EXCEPT ![s].at = "left"]
  /\ UNCHANGED << finished, now, stopped, served >>

Wake ==
  /\ ~stopped /\ wake # NoWake /\ wake <= now
  /\ LET due == {j \in DOMAIN remaining : SettledNow[j] <= 0}
         rem == Without(SettledNow, due)
     IN /\ remaining' = rem /\ wake' = Rescheduled(rem)
        /\ finished' = finished \cup due
  /\ updated' = now
  /\ UNCHANGED << sub, now, stopped, served >>

\* Time passes; each active job has its part of it.
SchedTick ==
  /\ now < MaxClock
  /\ wake # NoWake => now < wake \/ stopped
  /\ now' = now + 1
  /\ served' = [s \in Submitters |->
                  served[s] + IF s \in DOMAIN remaining THEN Grain \div Cardinality(DOMAIN remaining) ELSE 0]
  /\ UNCHANGED << sub, remaining, finished, updated, wake, stopped >>

\* Close: jobs that are active stay so.
Close ==
  /\ ~stopped
  /\ stopped' = TRUE
  /\ UNCHANGED << sub, remaining, finished, updated, wake, now, served >>

SchedNext ==
  \/ \E s \in Submitters :
       \/ \E w \in Works : Submit(s, w)
       \/ ContextEnds(s) \/ NothingToDo(s) \/ GivesUpJoining(s) \/ SeesDone(s)
       \/ SeesContext(s) \/ AfterLeave(s) \/ Gone(s) \/ JoinJob(s) \/ LeaveJob(s)
  \/ Wake \/ SchedTick \/ Close

SchedSpec == SchedInit /\ [][SchedNext]_schedVars

----------------------------------------------------------------------------
\* "each of N active jobs drains at 1/N of the instance's full rate" (prefill.go:139-145)
\* although work is settled only at events: what a job is said to have left is its work
\* less the time it really had.  A caller is told true only for work that was fully
\* drained and false only for a job "genuinely removed while still active", and a job
\* nobody waits for any more does not stay behind to slow the others down
\* (prefill.go:107-127).
SharesExact ==
  /\ \A s \in DOMAIN remaining :
       /\ SettledNow[s] = Grain * sub[s].work - served[s]
       /\ sub[s].at \in {"wait", "leave"}
  /\ \A s \in Submitters :
       /\ sub[s].at = "true" => sub[s].work = 0 \/ served[s] >= Grain * sub[s].work
       /\ sub[s].at = "false" => s \notin finished
============================================================================
