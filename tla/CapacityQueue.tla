--------------------------- MODULE CapacityQueue ---------------------------
(***************************************************************************)
(* Waiting out a capacity refusal: gateway.serveWithCapacityRetry and      *)
(* awaitSlot over the per-backend wait queue (internal/waitq), which       *)
(* lease.Release wakes.                                                    *)
(*                                                                         *)
(* A request goroutine re-decides against a fresh candidate set until it   *)
(* is served or its budget is spent.  When the policy names one saturated  *)
(* backend worth waiting for, the goroutine joins that backend's queue;    *)
(* otherwise it sleeps and polls.  Everything shared is touched one step   *)
(* at a time: the read of inflight by Select, the increment by Acquire,    *)
(* the decrement by Release, the pop and the send of Wake, Join, the       *)
(* re-check after it and Leave.                                            *)
(*                                                                         *)
(* A ticket is named by the request that owns it: a request holds at most  *)
(* one that matters.  A waker that popped a ticket its owner has since     *)
(* abandoned holds Gone instead; its send fills a buffered channel nobody  *)
(* will read.                                                              *)
(*                                                                         *)
(* Serve is reduced to what the queue can see: Select, Acquire, Release,   *)
(* the breaker that denies, the walk past a backend that answered 429 or   *)
(* failed, and the panic that unwinds through it when a client aborts      *)
(* mid-stream.  Module ProxyServe models the rest of it.                   *)
(***************************************************************************)
EXTENDS Integers, Sequences, FiniteSets

CONSTANTS
  Requests,   \* request goroutines; a finished one is reused by the next request
  Backends,   \* the pool
  Flapping,   \* the backends whose availability may change (a bound)
  Limit,      \* NodeConcurrency, SaturatedError.Limit
  Depth,      \* the queue depth bound awaitSlot derives
  None,       \* nil
  Gone        \* a popped ticket whose owner has left

ASSUME LimitAssumption == Limit \in Nat \ {0}
ASSUME DepthAssumption == Depth \in Nat \ {0}
ASSUME RequestsAssumption == IsFiniteSet(Requests)
ASSUME FlappingAssumption == Flapping \subseteq Backends
ASSUME NilAssumption ==
  /\ None \notin Requests \cup Backends
  /\ Gone \notin Requests \cup {None}

VARIABLES
  avail,      \* the backends Available() at this instant, in the pool
  inflight,   \* Backend.inflight
  waiters,    \* Queue.waiters, head first
  ch,         \* the buffered channel of each request's ticket: TRUE when it is full
  req,        \* the local variables of each request goroutine
  lost        \* history: the backends for which a wake died with its holder

vars == << avail, inflight, waiters, ch, req, lost >>

(***************************************************************************)
(* Locals of a request goroutine:                                          *)
(*   pc        the next step that touches shared state                     *)
(*   rem       Serve's remaining candidates                                *)
(*   on        the backend selected, leased, or waited for                 *)
(*   res       res.Backend                                                 *)
(*   queuedOn  the backend whose wake this iteration is the answer to      *)
(*   wq, sig   the queue Wake works on, and the ticket it popped           *)
(*   ret       where Wake and Leave return to: "after" and "unwound" from  *)
(*             the Release of a finished or panicking attempt, "walk" from *)
(*             that of a refused one, "decide" and "ended" from passing a  *)
(*             wake on, "cands", "expired" and "abandoned" from awaitSlot  *)
(*   expired   the retry budget is spent                                   *)
(***************************************************************************)
Fresh == [pc |-> "idle", rem |-> {}, on |-> None, res |-> None,
          queuedOn |-> None, wq |-> None, sig |-> None, ret |-> "idle",
          expired |-> FALSE]

Init ==
  /\ avail = Backends
  /\ inflight = [b \in Backends |-> 0]
  /\ waiters = [b \in Backends |-> << >>]
  /\ ch = [r \in Requests |-> FALSE]
  /\ req = [r \in Requests |-> Fresh]
  /\ lost = {}

----------------------------------------------------------------------------
\* The i-th element taken out of a sequence.
Without(q, i) == [j \in 1..(Len(q) - 1) |-> IF j < i THEN q[j] ELSE q[j + 1]]

InQueue(r, b) == \E i \in 1..Len(waiters[b]) : waiters[b][i] = r

\* The remaining candidates Select finds with a slot to spare.
Usable(r) == {b \in req[r].rem : inflight[b] < Limit}

\* The backend whose wake r was given and has not used.
Unspent(r) == {b \in {req[r].queuedOn} : b # None /\ req[r].res # b}

\* A call of Wake on b's queue that returns to ret.
Waking(l, b, ret) == [l EXCEPT !.pc = "wake", !.wq = b, !.ret = ret]

\* The request was woken for a slot it did not take.
MustPassOn(l) == l.queuedOn # None /\ l.res # l.queuedOn

\* Mutant: the budget is not looked at.
Exhausted_Never(l) == FALSE

\* The deadline has passed when the refusal is weighed.
Exhausted(l) == l.expired

\* A capacity refusal within budget is retried; anything else ends the request.
\* The refusal is queued on the backend the policy named only if no upstream was
\* reached; otherwise it is polled.
Decide(l) ==
  LET refusal == l.res = None \/ l.on # l.res IN
  IF ~refusal \/ Exhausted(l) THEN Fresh
  ELSE [l EXCEPT !.pc = IF l.res = None /\ l.on # None THEN "join" ELSE "poll"]

\* Serve returned.  An unspent wake is passed on before anything else.
AfterServe(l) ==
  LET done == [l EXCEPT !.queuedOn = None, !.rem = {}] IN
  IF MustPassOn(l) THEN Waking(done, l.queuedOn, "decide") ELSE Decide(done)

\* Serve returned with nobody left to try, which is no capacity refusal: the
\* request ends, once its unspent wake is passed on.
NobodyLeft(l) ==
  IF MustPassOn(l) THEN Waking([l EXCEPT !.queuedOn = None, !.rem = {}], l.queuedOn, "ended")
  ELSE Fresh

\* Where a goroutine goes on when Wake or Leave returns: its local steps up to
\* the next one that touches shared state.
Resume(l) ==
  LET back == [l EXCEPT !.wq = None, !.sig = None, !.ret = "idle"] IN
  CASE l.ret = "after"  -> AfterServe(back)
    [] l.ret = "decide" -> Decide(back)
    [] l.ret = "walk"   -> [back EXCEPT !.pc = "select", !.rem = @ \ {l.on}]
    [] l.ret = "cands"  -> [back EXCEPT !.pc = "cands"]
    [] OTHER            -> Fresh

----------------------------------------------------------------------------
\* Health checks, drains and circuit breakers move backends in and out of the
\* candidate set at any time.
Flap(b) ==
  /\ avail' = IF b \in avail THEN avail \ {b} ELSE avail \cup {b}
  /\ UNCHANGED << inflight, waiters, ch, req, lost >>

\* A request arrives: inferenceHandler's own check of the candidate set, which
\* answers 503 when it is empty.
Arrive(r) ==
  /\ req[r].pc = "idle" /\ avail # {}
  /\ req' = [req EXCEPT ![r].pc = "cands"]
  /\ UNCHANGED << avail, inflight, waiters, ch, lost >>

\* The deadline of the retry budget passes.  Only a refusal of Select and the wait
\* look at the clock next: passing earlier is passing just before one of them.
BudgetSpent(r) ==
  /\ req[r].pc \in {"select", "wait"} /\ ~req[r].expired
  /\ req' = [req EXCEPT ![r].expired = TRUE]
  /\ UNCHANGED << avail, inflight, waiters, ch, lost >>

\* Top of the loop, at once or after the poll's sleep: the candidate set is
\* rebuilt.  An empty one returns the result of the previous attempt, which on
\* the first iteration is no result at all.
Candidates(r) ==
  /\ req[r].pc \in {"cands", "poll"}
  /\ req' = [req EXCEPT ![r] =
       IF avail = {} THEN Fresh
       ELSE [@ EXCEPT !.pc = "select", !.rem = avail, !.on = None, !.res = None]]
  /\ lost' = IF avail = {} THEN lost \cup Unspent(r) ELSE lost
  /\ UNCHANGED << avail, inflight, waiters, ch >>

\* Select picks a usable backend.
SelectBackend(r) ==
  /\ req[r].pc = "select"
  /\ \E b \in Usable(r) :
       req' = [req EXCEPT ![r].pc = "acquire", ![r].on = b]
  /\ UNCHANGED << avail, inflight, waiters, ch, lost >>

\* Select refuses: every remaining backend is saturated, and the policy names
\* one of them worth waiting for, or none.
SelectSaturated(r) ==
  /\ req[r].pc = "select"
  /\ Usable(r) = {}
  /\ \E b \in req[r].rem \cup {None} :
       req' = [req EXCEPT ![r] = AfterServe([@ EXCEPT !.on = b])]
  /\ UNCHANGED << avail, inflight, waiters, ch, lost >>

\* Select refuses: capacity exists and the split guard will not spend it.
SelectGuardBlocked(r) ==
  /\ req[r].pc = "select"
  /\ Usable(r) # {}
  /\ req' = [req EXCEPT ![r] = AfterServe([@ EXCEPT !.on = None])]
  /\ UNCHANGED << avail, inflight, waiters, ch, lost >>

\* The breaker of the selected backend denies: Serve goes on without it.
Denied(r) ==
  /\ req[r].pc = "acquire" /\ req[r].on \in Flapping
  /\ LET rest == req[r].rem \ {req[r].on} IN
       req' = [req EXCEPT ![r] =
         IF rest = {} THEN NobodyLeft(@) ELSE [@ EXCEPT !.pc = "select", !.rem = rest]]
  /\ UNCHANGED << avail, inflight, waiters, ch, lost >>

\* lease.Acquire: the increment, some time after the read that justified it.
Acquire(r) ==
  /\ req[r].pc = "acquire"
  /\ inflight' = [inflight EXCEPT ![req[r].on] = @ + 1]
  /\ req' = [req EXCEPT ![r].pc = "serving", ![r].res = req[r].on]
  /\ UNCHANGED << avail, waiters, ch, lost >>

\* inflight with one lease less; LeaseProofs shows the clamp at zero is dead.
Lowered(n) == n - 1

\* The attempt ends and Release lowers inflight.  "after": its answer is the
\* result.  "walk": a 429 or a failure, and another candidate is left to try.
\* "unwound": the client aborted mid-stream and the panic leaves
\* serveWithCapacityRetry, so nothing after Serve runs.
Release(r, how) ==
  /\ req[r].pc = "serving"
  /\ how = "walk" => Cardinality(req[r].rem) > 1
  /\ inflight' = [inflight EXCEPT ![req[r].on] = Lowered(@)]
  /\ req' = [req EXCEPT ![r] = Waking(@, req[r].on, how)]
  /\ lost' = IF how = "unwound" THEN lost \cup Unspent(r) ELSE lost
  /\ UNCHANGED << avail, waiters, ch >>

\* Mutant: the popped ticket stays in the slice.
PopHead_Stays(q) == q

\* waitq.Wake takes the head off.
PopHead(q) == Tail(q)

\* waitq.Wake up to its unlock.  The lock-free test of the mirror n and the test
\* under the lock give the same answer at different instants, and both return
\* without effect when the queue is empty: one step stands for the two.
Wake(r) ==
  /\ req[r].pc = "wake"
  /\ LET b == req[r].wq IN
       IF waiters[b] = << >>
       THEN /\ req' = [req EXCEPT ![r] = Resume(@)]
            /\ UNCHANGED waiters
       ELSE /\ req' = [req EXCEPT ![r].pc = "send", ![r].sig = Head(waiters[b])]
            /\ waiters' = [waiters EXCEPT ![b] = PopHead(@)]
  /\ UNCHANGED << avail, inflight, ch, lost >>

\* waitq.Wake after its unlock: the send on the popped ticket's channel, which
\* blocks if the channel already holds a value.
Send(r) ==
  /\ req[r].pc = "send"
  /\ IF req[r].sig = Gone THEN UNCHANGED ch
     ELSE ~ch[req[r].sig] /\ ch' = [ch EXCEPT ![req[r].sig] = TRUE]
  /\ req' = [req EXCEPT ![r] = Resume(@)]
  /\ UNCHANGED << avail, inflight, waiters, lost >>

\* The client goes away during the poll loop's sleep.
HangUpPolling(r) ==
  /\ req[r].pc = "poll"
  /\ req' = [req EXCEPT ![r] = Fresh]
  /\ UNCHANGED << avail, inflight, waiters, ch, lost >>

----------------------------------------------------------------------------

\* waitq.Join's bound.
Full(q) == Len(q) >= Depth

\* awaitSlot: Join at the back of the queue, or be refused a place.
Join(r) ==
  /\ req[r].pc = "join"
  /\ LET b == req[r].on IN
       IF Full(waiters[b])
       THEN /\ req' = [req EXCEPT ![r] = Fresh]
            /\ UNCHANGED << waiters, ch >>
       ELSE /\ waiters' = [waiters EXCEPT ![b] = Append(@, r)]
            /\ ch' = [ch EXCEPT ![r] = FALSE]
            /\ req' = [req EXCEPT ![r].pc = "check"]
  /\ UNCHANGED << avail, inflight, lost >>

\* awaitSlot's re-check against a release that came before the Join.
SlotFree(b) == inflight[b] < Limit

Check(r) ==
  /\ req[r].pc = "check"
  /\ req' = [req EXCEPT ![r] =
       IF SlotFree(req[r].on)
       THEN [@ EXCEPT !.pc = "leave", !.ret = "cands", !.queuedOn = req[r].on]
       ELSE [@ EXCEPT !.pc = "wait"]]
  /\ UNCHANGED << avail, inflight, waiters, ch, lost >>

\* awaitSlot's select: the ticket's channel, the budget, or the client.
Woken(r) ==
  /\ req[r].pc = "wait" /\ ch[r]
  /\ ch' = [ch EXCEPT ![r] = FALSE]
  /\ req' = [req EXCEPT ![r].pc = "cands", ![r].queuedOn = req[r].on]
  /\ UNCHANGED << avail, inflight, waiters, lost >>

\* awaitSlot's timer case: Clock.After(remaining) has fired.
WaitExpired(r) ==
  /\ req[r].pc = "wait" /\ req[r].expired
  /\ req' = [req EXCEPT ![r].pc = "leave", ![r].ret = "expired"]
  /\ UNCHANGED << avail, inflight, waiters, ch, lost >>

HangUpWaiting(r) ==
  /\ req[r].pc = "wait"
  /\ req' = [req EXCEPT ![r].pc = "leave", ![r].ret = "abandoned"]
  /\ UNCHANGED << avail, inflight, waiters, ch, lost >>

\* Mutant: the wake of a popped ticket is dropped with the ticket.
AlreadyPopped_Dropped(l, b) == Resume(l)

\* Leave on a popped ticket: a wake is spoken for and goes to whoever is next.
AlreadyPopped(l, b) == Waking(l, b, l.ret)

\* Ticket.Leave: out of the queue if still in it; otherwise a wake is spoken for
\* here and goes to the next waiter.
Leave(r) ==
  /\ req[r].pc = "leave"
  /\ LET b == req[r].on IN
       \/ \E i \in 1..Len(waiters[b]) :
            /\ waiters[b][i] = r
            /\ waiters' = [waiters EXCEPT ![b] = Without(@, i)]
            /\ req' = [req EXCEPT ![r] = Resume(@)]
            /\ UNCHANGED ch
       \/ /\ ~InQueue(r, b)
          /\ ch' = [ch EXCEPT ![r] = FALSE]
          /\ req' = [p \in Requests |->
               IF p = r THEN AlreadyPopped(req[r], b)
               ELSE IF req[p].sig = r THEN [req[p] EXCEPT !.sig = Gone]
               ELSE req[p]]
          /\ UNCHANGED waiters
  /\ UNCHANGED << avail, inflight, lost >>

----------------------------------------------------------------------------
\* What the request's own goroutine does next without anybody's help.
Step(r) ==
  \/ Candidates(r)
  \/ SelectBackend(r) \/ SelectSaturated(r) \/ SelectGuardBlocked(r)
  \/ Denied(r) \/ Acquire(r)
  \/ \E how \in {"after", "walk", "unwound"} : Release(r, how)
  \/ Wake(r) \/ Send(r)
  \/ Join(r) \/ Check(r) \/ Woken(r) \/ WaitExpired(r) \/ Leave(r)

Next ==
  \/ \E b \in Flapping : Flap(b)
  \/ \E r \in Requests :
       \/ Arrive(r)
       \/ BudgetSpent(r)
       \/ HangUpPolling(r) \/ HangUpWaiting(r)
       \/ Step(r)

\* A runnable goroutine runs; an upstream call ends (RequestTimeout and the idle
\* timeout bound it); the clock runs whatever the goroutine is doing, hence SF.
\* Clients and the fleet owe nothing.
Fairness ==
  \A r \in Requests : WF_vars(Step(r)) /\ SF_vars(BudgetSpent(r))

Spec == Init /\ [][Next]_vars /\ Fairness

----------------------------------------------------------------------------

\* Where a ticket can be: in its queue, in the hands of the waker that popped
\* it, or delivered.
Signallers(r) == {p \in Requests : req[p].sig = r}
HoldsTicket(r) == req[r].pc \in {"check", "wait", "leave"}

\* Wake and Leave never both own a ticket and never both give it up
\* (waitq.go:21-23, 87-91, 103-108): a live ticket is queued once, or popped by
\* one waker, or delivered, and never two of these; so the one send of its life
\* cannot block and a parked request can always still be woken.  No queue outgrows its
\* depth bound (waitq.go:51-56).
TicketInOnePlace ==
  /\ \A b \in Backends : Len(waiters[b]) <= Depth
  /\ \A r \in Requests :
       LET places == {x \in Backends \X (1..Depth) :
                         x[2] <= Len(waiters[x[1]]) /\ waiters[x[1]][x[2]] = r}
           copies == Cardinality(places) + Cardinality(Signallers(r))
                       + (IF ch[r] THEN 1 ELSE 0)
       IN  /\ copies = (IF HoldsTicket(r) THEN 1 ELSE 0)
           /\ \A p \in places : p[1] = req[r].on

\* r carries a wake for b: it is about to wake b's queue, is signalling a live
\* ticket of it, has been signalled, or re-decides on the strength of a wake.
CarriesWake(r, b) ==
  LET l == req[r] IN
  \/ l.pc = "wake" /\ l.wq = b
  \/ l.pc = "send" /\ l.wq = b /\ l.sig # Gone
  \/ HoldsTicket(r) /\ l.on = b /\ ch[r]
  \/ l.queuedOn = b /\ l.res # b

\* Requests asleep in b's queue.
Parked(b) == {r \in Requests : req[r].pc = "wait" /\ InQueue(r, b)}

\* No freed slot is forgotten (waitq.go:69-72, lease.go:184-188,
\* capacity_retry.go:196-200): while a request sleeps in b's queue, every slot
\* free on b has a wake on its way, unless one died with its holder.
FreeSlotHasWake ==
  \A b \in Backends \ lost :
    Parked(b) # {} =>
      Limit - inflight[b] <= Cardinality({r \in Requests : CarriesWake(r, b)})

\* Every request is answered: the budget ends any loop of wakes, refusals and
\* polls, and no wait is without an end.
EveryRequestAnswered ==
  \A r \in Requests : req[r].pc # "idle" ~> req[r].pc = "idle"

\* Stated by waitq.go:69-72: every release finds a waiter that uses it.  A
\* request asleep on an available backend with a free slot has a wake coming.
EveryWakeFindsAWaiter ==
  \A b \in avail :
    (Parked(b) # {} /\ inflight[b] < Limit) => \E r \in Requests : CarriesWake(r, b)
============================================================================
