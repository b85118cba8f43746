------------------------ MODULE CapacityQueueProofs ------------------------
(***************************************************************************)
(* What module CapacityQueue promises for any pool, concurrency limit and  *)
(* queue depth and any finite number of requests: a ticket is in exactly   *)
(* one place, and no freed slot is forgotten while somebody sleeps for it. *)
(*                                                                         *)
(* TicketInOnePlace counts copies; the invariant says the same by cases,   *)
(* one per place, and adds which backend a sender works for.  Counting     *)
(* wakes needs more: a request that granted itself the slot its re-check   *)
(* found (queuedOn while it leaves the queue) may be sent a real wake as   *)
(* well, so the invariant does not count the wake it granted itself until  *)
(* it has left.                                                            *)
(***************************************************************************)
EXTENDS CapacityQueue, FiniteSetTheorems, SequenceTheorems, TLAPS

Pcs == {"idle", "cands", "poll", "select", "acquire", "serving", "wake", "send",
        "join", "check", "wait", "leave"}
Rets == {"idle", "after", "walk", "unwound", "decide", "ended", "cands", "expired",
         "abandoned"}
Maybe == Backends \cup {None}

Locals == [pc : Pcs, rem : SUBSET Backends, on : Maybe, res : Maybe, queuedOn : Maybe,
           wq : Maybe, sig : Requests \cup {None, Gone}, ret : Rets, expired : BOOLEAN]

\* A wake or a leave that returns to one of these has no wake of its own to keep.
Settled == {"decide", "ended", "expired", "abandoned"}

\* What a goroutine's pc says of its other locals.
LocalOK(l) ==
  /\ l \in Locals
  /\ l.pc \in {"acquire", "serving", "join", "check", "wait", "leave"} => l.on \in Backends
  /\ l.pc \in {"wake", "send"} => l.wq \in Backends
  /\ l.sig # None <=> l.pc = "send"
  /\ l.pc = "serving" => l.res = l.on
  /\ l.pc \in {"join", "check", "wait", "leave"} => l.res = None
  /\ l.pc \in {"join", "check", "wait", "poll"} => l.queuedOn = None
  /\ l.pc \in {"leave", "wake", "send"} /\ l.ret \in Settled => l.queuedOn = None
  /\ l.pc = "leave" => l.ret \in {"cands", "expired", "abandoned"}
  /\ l.pc \in {"wake", "send"} => l.ret # "idle"

TypeInv ==
  /\ avail \subseteq Backends
  /\ inflight \in [Backends -> Int]
  /\ waiters \in [Backends -> Seq(Requests)]
  /\ ch \in [Requests -> BOOLEAN]
  /\ req \in [Requests -> Locals]
  /\ \A r \in Requests : LocalOK(req[r])

Holding == {"check", "wait", "leave"}

\* A ticket in a queue is its owner's, once, and nowhere else.
QueuedOK ==
  \A b \in Backends : \A i \in 1..Len(waiters[b]) :
    LET r == waiters[b][i] IN
      /\ req[r].pc \in Holding /\ req[r].on = b /\ ch[r] = FALSE
      /\ \A p \in Requests : req[p].sig # r
      /\ \A j \in 1..Len(waiters[b]) : waiters[b][j] = r => i = j

\* A popped ticket is its sender's alone, who works for the backend it waited for.
SignalOK ==
  \A p \in Requests : \A r \in Requests : req[p].sig = r =>
    /\ req[r].pc \in Holding /\ req[r].on = req[p].wq /\ ch[r] = FALSE
    /\ \A q \in Requests : req[q].sig = r => q = p

\* A delivered wake is that of a live ticket.
DeliveredOK == \A r \in Requests : ch[r] = TRUE => req[r].pc \in Holding

\* A live ticket is somewhere.
HeldOK ==
  \A r \in Requests : req[r].pc \in Holding =>
    \/ ch[r] = TRUE
    \/ \E p \in Requests : req[p].sig = r
    \/ InQueue(r, req[r].on)

DepthOK == \A b \in Backends : Len(waiters[b]) <= Depth

TicketInv == QueuedOK /\ SignalOK /\ DeliveredOK /\ HeldOK /\ DepthOK

IInv == TypeInv /\ TicketInv

----------------------------------------------------------------------------
\* The locals of a goroutine between two requests.
LEMMA FreshOK == LocalOK(Fresh) /\ Fresh.pc = "idle" /\ Fresh.sig = None
BY NilAssumption DEF Fresh, LocalOK, Locals, Pcs, Rets, Maybe, Settled

\* Waking and Decide leave well-formed locals (capacity_retry.go:196-232).
LEMMA WakingOK ==
  ASSUME NEW l \in Locals, NEW b \in Backends, NEW ret \in Rets \ {"idle"}, l.sig = None,
         ret \in Settled => l.queuedOn = None
  PROVE  /\ LocalOK(Waking(l, b, ret)) /\ Waking(l, b, ret).pc = "wake"
         /\ Waking(l, b, ret).sig = None
BY ZenonT(40) DEF Waking, LocalOK, Locals, Pcs, Rets, Maybe

\* What the answer decides: to be done, to join a queue, or to try again
\* (capacity_retry.go:255-312).
LEMMA DecideOK ==
  ASSUME NEW l \in Locals, l.sig = None, l.queuedOn = None
  PROVE  /\ LocalOK(Decide(l)) /\ Decide(l).pc \in {"idle", "join", "poll"}
         /\ Decide(l).sig = None
<1>1. CASE Decide(l) = Fresh
  BY <1>1, FreshOK
<1>2. CASE /\ Decide(l) = [l EXCEPT !.pc = "join"] 
           /\ l.res = None /\ l.on # None
  BY <1>2 DEF LocalOK, Locals, Pcs, Maybe
<1>3. CASE Decide(l) = [l EXCEPT !.pc = "poll"]
  BY <1>3 DEF LocalOK, Locals, Pcs, Maybe
<1>4. QED
  BY <1>1, <1>2, <1>3 DEF Decide

\* Serve has returned: a wake it was given and did not use goes on first
\* (capacity_retry.go:248-251).
LEMMA AfterServeOK ==
  ASSUME NEW l \in Locals, l.sig = None
  PROVE  /\ LocalOK(AfterServe(l)) /\ AfterServe(l).pc \in {"idle", "join", "poll", "wake"}
         /\ AfterServe(l).sig = None
<1> DEFINE done == [l EXCEPT !.queuedOn = None, !.rem = {}]
<1>1. done \in Locals /\ done.sig = None /\ done.queuedOn = None
  BY DEF Locals, Maybe
<1>2. l.queuedOn \in Maybe
  BY DEF Locals
<1>3. AfterServe(l) = IF MustPassOn(l) THEN Waking(done, l.queuedOn, "decide") ELSE Decide(done)
  BY DEF AfterServe
<1> HIDE DEF done
<1>4. CASE MustPassOn(l)
  <2>1. l.queuedOn \in Backends
    BY <1>2, <1>4 DEF MustPassOn, Maybe
  <2>2. QED
    BY <1>1, <1>3, <1>4, <2>1, WakingOK DEF Rets
<1>5. CASE ~MustPassOn(l)
  BY <1>1, <1>3, <1>5, DecideOK
<1>6. QED
  BY <1>4, <1>5

\* The candidate set was empty (gateway.go:242).
LEMMA NobodyLeftOK ==
  ASSUME NEW l \in Locals, l.sig = None
  PROVE  /\ LocalOK(NobodyLeft(l)) /\ NobodyLeft(l).pc \in {"idle", "wake"}
         /\ NobodyLeft(l).sig = None
<1> DEFINE done == [l EXCEPT !.queuedOn = None, !.rem = {}]
<1>1. done \in Locals /\ done.sig = None /\ done.queuedOn = None
  BY DEF Locals, Maybe
<1>2. l.queuedOn \in Maybe
  BY DEF Locals
<1>3. NobodyLeft(l) = IF MustPassOn(l) THEN Waking(done, l.queuedOn, "ended") ELSE Fresh
  BY DEF NobodyLeft
<1> HIDE DEF done
<1>4. CASE MustPassOn(l)
  <2>1. l.queuedOn \in Backends
    BY <1>2, <1>4 DEF MustPassOn, Maybe
  <2>2. QED
    BY <1>1, <1>3, <1>4, <2>1, WakingOK DEF Rets
<1>5. CASE ~MustPassOn(l)
  BY <1>3, <1>5, FreshOK
<1>6. QED
  BY <1>4, <1>5

\* A goroutine that Wake or Leave returns to holds no ticket and sends none.
LEMMA ResumeOK ==
  ASSUME NEW l, LocalOK(l), l.pc \in {"wake", "send", "leave"}
  PROVE  /\ LocalOK(Resume(l)) /\ Resume(l).sig = None
         /\ Resume(l).pc \in {"idle", "join", "poll", "wake", "select", "cands"}
<1> DEFINE back == [l EXCEPT !.wq = None, !.sig = None, !.ret = "idle"]
<1>1. back \in Locals /\ back.sig = None /\ back.pc = l.pc
      /\ back.queuedOn = l.queuedOn
  BY DEF LocalOK, Locals, Maybe, Rets
<1>2. Resume(l) = CASE l.ret = "after"  -> AfterServe(back)
                    [] l.ret = "decide" -> Decide(back)
                    [] l.ret = "walk"   -> [back EXCEPT !.pc = "select", !.rem = @ \ {l.on}]
                    [] l.ret = "cands"  -> [back EXCEPT !.pc = "cands"]
                    [] OTHER            -> Fresh
  BY DEF Resume
<1> HIDE DEF back
<1>3. CASE l.ret = "after"
  BY <1>1, <1>2, <1>3, AfterServeOK
<1>4. CASE l.ret = "decide"
  <2>1. back.queuedOn = None
    BY <1>1, <1>4 DEF LocalOK, Settled
  <2>2. QED
    BY <1>1, <1>2, <1>4, <2>1, DecideOK
<1>5. CASE l.ret = "walk"
  <2>1. Resume(l) = [back EXCEPT !.pc = "select", !.rem = back.rem \ {l.on}]
    BY <1>2, <1>5
  <2>2. Resume(l) \in Locals /\ Resume(l).pc = "select" /\ Resume(l).sig = None
    BY <1>1, <2>1, ZenonT(40) DEF Locals, Pcs
  <2>3. QED
    BY <2>2 DEF LocalOK
<1>6. CASE l.ret = "cands"
  BY <1>1, <1>2, <1>6 DEF LocalOK, Locals, Pcs
<1>7. CASE l.ret \notin {"after", "decide", "walk", "cands"}
  BY <1>2, <1>7, FreshOK
<1>8. QED
  BY <1>3, <1>4, <1>5, <1>6, <1>7

----------------------------------------------------------------------------
\* Nobody queues and nobody is served.
LEMMA InitIInv == Init => IInv
<1> SUFFICES ASSUME Init PROVE IInv
  OBVIOUS
<1>1. TypeInv
  <2>1. waiters \in [Backends -> Seq(Requests)] /\ ch \in [Requests -> BOOLEAN]
    BY DEF Init
  <2>2. \A r \in Requests : LocalOK(req[r])
    BY FreshOK DEF Init
  <2>3. QED
    BY <2>1, <2>2 DEF Init, TypeInv, LocalOK
<1>2. TicketInv
  <2>1. \A b \in Backends : waiters[b] = << >> /\ Len(waiters[b]) = 0
    BY DEF Init
  <2>2. \A r \in Requests : req[r].pc = "idle" /\ req[r].sig = None /\ ch[r] = FALSE
    BY DEF Init, Fresh
  <2>3. QED
    BY <2>1, <2>2, NilAssumption, DepthAssumption
    DEF TicketInv, QueuedOK, DepthOK, SignalOK, DeliveredOK, HeldOK, Holding
<1>3. QED
  BY <1>1, <1>2 DEF IInv

\* The types after a step that changes one goroutine's locals.
LEMMA LocalType ==
  ASSUME TypeInv, NEW r \in Requests, NEW l, LocalOK(l),
         req' = [req EXCEPT ![r] = l],
         avail' \subseteq Backends, inflight' \in [Backends -> Int],
         waiters' \in [Backends -> Seq(Requests)], ch' \in [Requests -> BOOLEAN]
  PROVE  /\ TypeInv' /\ req'[r] = l
         /\ \A p \in Requests \ {r} : req'[p] = req[p]
<1>1. req' \in [Requests -> Locals] /\ req'[r] = l
      /\ \A p \in Requests \ {r} : req'[p] = req[p]
  BY DEF TypeInv, LocalOK
<1>2. \A p \in Requests : LocalOK(req'[p])
  BY <1>1 DEF TypeInv
<1>3. QED
  BY <1>1, <1>2 DEF TypeInv, LocalOK

\* A step that moves no ticket and neither takes up nor gives up one.
LEMMA LocalStep ==
  ASSUME IInv, NEW r \in Requests, NEW l, LocalOK(l),
         l.sig = None, req[r].pc # "send",
         req' = [req EXCEPT ![r] = l], UNCHANGED << waiters, ch >>,
         avail' \subseteq Backends, inflight' \in [Backends -> Int],
         l.pc \in Holding <=> req[r].pc \in Holding,
         l.pc \in Holding => l.on = req[r].on
  PROVE  IInv'
<1>1. TypeInv' /\ req'[r] = l /\ \A p \in Requests \ {r} : req'[p] = req[p]
  BY LocalType DEF IInv, TypeInv
<1>2. req[r].sig = None
  BY DEF IInv, TypeInv, LocalOK
<1>3. \A p \in Requests : /\ req'[p].sig = req[p].sig
                          /\ req'[p].pc \in Holding <=> req[p].pc \in Holding
                          /\ req[p].pc \in Holding => req'[p].on = req[p].on
                          /\ req[p].sig # None => req'[p].wq = req[p].wq
  BY <1>1, <1>2
<1>4. waiters' = waiters /\ ch' = ch
  OBVIOUS
<1>5. \A b \in Backends : \A i \in 1..Len(waiters[b]) : waiters[b][i] \in Requests
  BY DEF IInv, TypeInv
<1>6. QueuedOK'
  BY <1>3, <1>4, <1>5 DEF IInv, TicketInv, QueuedOK
<1>7. SignalOK'
  BY <1>3, <1>4, NilAssumption DEF IInv, TicketInv, SignalOK
<1>8. DeliveredOK' /\ DepthOK'
  BY <1>3, <1>4 DEF IInv, TicketInv, DeliveredOK, DepthOK
<1>9. HeldOK'
  BY <1>3, <1>4 DEF IInv, TicketInv, HeldOK, InQueue
<1>10. QED
  BY <1>1, <1>6, <1>7, <1>8, <1>9 DEF IInv, TicketInv

\* Before it is served: the arrival and the choice of a backend
\* (capacity_retry.go:142-188).
LEMMA ChoiceStep ==
  ASSUME IInv, NEW r \in Requests,
         \/ Arrive(r) \/ HangUpPolling(r) \/ Candidates(r)
         \/ SelectBackend(r) \/ SelectSaturated(r) \/ SelectGuardBlocked(r)
         \/ Denied(r) \/ Acquire(r)
  PROVE  IInv'
<1> DEFINE m == req[r]
<1>1. LocalOK(m) /\ m \in Locals /\ avail \subseteq Backends /\ inflight \in [Backends -> Int]
  BY DEF IInv, TypeInv
<1>2. CASE Arrive(r)
  <2> DEFINE l == [m EXCEPT !.pc = "cands"]
  <2>1. req' = [req EXCEPT ![r] = l] /\ UNCHANGED << avail, inflight, waiters, ch >>
        /\ m.pc = "idle"
    BY <1>2 DEF Arrive, IInv, TypeInv
  <2>2. LocalOK(l) /\ l.sig = None /\ l.pc = "cands"
    BY <1>1, <2>1 DEF LocalOK, Locals, Pcs
  <2> HIDE DEF l
  <2>3. QED
    BY <1>1, <2>1, <2>2, LocalStep DEF Holding
<1>3. CASE HangUpPolling(r)
  <2>1. req' = [req EXCEPT ![r] = Fresh] /\ UNCHANGED << avail, inflight, waiters, ch >>
        /\ m.pc = "poll"
    BY <1>3 DEF HangUpPolling
  <2>2. QED
    BY <1>1, <2>1, FreshOK, LocalStep DEF Holding
<1>4. CASE Candidates(r)
  <2>1. m.pc \in {"cands", "poll"} /\ UNCHANGED << avail, inflight, waiters, ch >>
    BY <1>4 DEF Candidates
  <2>2. CASE req' = [req EXCEPT ![r] = Fresh]
    BY <1>1, <2>1, <2>2, FreshOK, LocalStep DEF Holding
  <2>3. CASE req' = [req EXCEPT ![r] = [m EXCEPT !.pc = "select", !.rem = avail,
                                                 !.on = None, !.res = None]]
    <3> DEFINE l == [m EXCEPT !.pc = "select", !.rem = avail, !.on = None, !.res = None]
    <3>1. LocalOK(l) /\ l.sig = None /\ l.pc = "select"
      BY <1>1, <2>1 DEF LocalOK, Locals, Pcs, Maybe
    <3> HIDE DEF l
    <3>2. QED
      BY <1>1, <2>1, <2>3, <3>1, LocalStep DEF Holding, l
  <2>4. QED
    BY <1>4, <2>2, <2>3 DEF Candidates
<1>5. CASE SelectBackend(r)
  <2>1. PICK b \in Usable(r) : req' = [req EXCEPT ![r].pc = "acquire", ![r].on = b]
    BY <1>5 DEF SelectBackend
  <2> DEFINE l == [m EXCEPT !.pc = "acquire", !.on = b]
  <2>2. req' = [req EXCEPT ![r] = l] /\ UNCHANGED << avail, inflight, waiters, ch >>
        /\ m.pc = "select"
    BY <1>5, <2>1 DEF SelectBackend, IInv, TypeInv
  <2>3. b \in Backends
    BY <1>1 DEF Usable, Locals
  <2>4. LocalOK(l) /\ l.sig = None /\ l.pc = "acquire"
    BY <1>1, <2>2, <2>3 DEF LocalOK, Locals, Pcs, Maybe
  <2> HIDE DEF l
  <2>5. QED
    BY <1>1, <2>2, <2>4, LocalStep DEF Holding
<1>6. CASE SelectSaturated(r) \/ SelectGuardBlocked(r)
  <2>1. PICK b \in m.rem \cup {None} :
          req' = [req EXCEPT ![r] = AfterServe([m EXCEPT !.on = b])]
    BY <1>6 DEF SelectSaturated, SelectGuardBlocked
  <2> DEFINE k == [m EXCEPT !.on = b]
  <2>2. UNCHANGED << avail, inflight, waiters, ch >> /\ m.pc = "select"
    BY <1>6 DEF SelectSaturated, SelectGuardBlocked
  <2>3. k \in Locals /\ k.sig = None
    BY <1>1, <2>2 DEF LocalOK, Locals, Maybe
  <2> HIDE DEF k
  <2> DEFINE l == AfterServe(k)
  <2>4. LocalOK(l) /\ l.sig = None /\ l.pc \in {"idle", "join", "poll", "wake"}
    BY <2>3, AfterServeOK
  <2>5. req' = [req EXCEPT ![r] = l]
    BY <2>1 DEF k
  <2> HIDE DEF l
  <2>6. QED
    BY <1>1, <2>2, <2>4, <2>5, LocalStep DEF Holding
<1>7. CASE Denied(r)
  <2> DEFINE rest == m.rem \ {m.on}
  <2>1. m.pc = "acquire" /\ UNCHANGED << avail, inflight, waiters, ch >>
    BY <1>7 DEF Denied
  <2>2. CASE req' = [req EXCEPT ![r] = NobodyLeft(m)]
    <3> DEFINE l == NobodyLeft(m)
    <3>1. LocalOK(l) /\ l.sig = None /\ l.pc \in {"idle", "wake"}
      BY <1>1, <2>1, NobodyLeftOK DEF LocalOK
    <3>2. req' = [req EXCEPT ![r] = l]
      BY <2>2
    <3> HIDE DEF l
    <3>3. QED
      BY <1>1, <2>1, <3>1, <3>2, LocalStep DEF Holding
  <2>3. CASE req' = [req EXCEPT ![r] = [m EXCEPT !.pc = "select", !.rem = rest]]
    <3> DEFINE l == [m EXCEPT !.pc = "select", !.rem = rest]
    <3>1. LocalOK(l) /\ l.sig = None /\ l.pc = "select"
      BY <1>1, <2>1 DEF LocalOK, Locals, Pcs
    <3>2. req' = [req EXCEPT ![r] = l]
      BY <2>3
    <3> HIDE DEF l
    <3>3. QED
      BY <1>1, <2>1, <3>1, <3>2, LocalStep DEF Holding
  <2>4. QED
    BY <1>7, <2>2, <2>3 DEF Denied
<1>8. CASE Acquire(r)
  <2> DEFINE l == [m EXCEPT !.pc = "serving", !.res = m.on]
  <2>1. req' = [req EXCEPT ![r] = l] /\ UNCHANGED << avail, waiters, ch >>
        /\ m.pc = "acquire" /\ inflight' = [inflight EXCEPT ![m.on] = @ + 1]
    BY <1>8 DEF Acquire, IInv, TypeInv
  <2>2. LocalOK(l) /\ l.sig = None /\ l.pc = "serving"
    BY <1>1, <2>1 DEF LocalOK, Locals, Pcs
  <2>3. inflight' \in [Backends -> Int]
    BY <1>1, <2>1 DEF LocalOK
  <2> HIDE DEF l
  <2>4. QED
    BY <1>1, <2>1, <2>2, <2>3, LocalStep DEF Holding
<1>9. QED
  BY <1>2, <1>3, <1>4, <1>5, <1>6, <1>7, <1>8

\* The end of an attempt, and the waiting request's own steps
\* (capacity_retry.go:301-352).
LEMMA ReleaseOrWaitStep ==
  ASSUME IInv, NEW r \in Requests,
         \/ \E how \in {"after", "walk", "unwound"} : Release(r, how)
         \/ BudgetSpent(r) \/ Check(r) \/ WaitExpired(r) \/ HangUpWaiting(r)
  PROVE  IInv'
<1> DEFINE m == req[r]
<1>1. LocalOK(m) /\ m \in Locals /\ avail \subseteq Backends /\ inflight \in [Backends -> Int]
  BY DEF IInv, TypeInv
<1>2. ASSUME NEW how \in {"after", "walk", "unwound"}, Release(r, how) PROVE IInv'
  <2>1. /\ m.pc = "serving" /\ UNCHANGED << avail, waiters, ch >>
        /\ req' = [req EXCEPT ![r] = Waking(m, m.on, how)]
        /\ inflight' = [inflight EXCEPT ![m.on] = inflight[m.on] - 1]
    BY <1>2 DEF Release, Lowered
  <2>2. inflight' \in [Backends -> Int]
    BY <1>1, <2>1 DEF LocalOK
  <2> DEFINE l == Waking(m, m.on, how)
  <2>3. how \in Rets \ {"idle"} /\ how \notin Settled
    BY DEF Rets, Settled
  <2>4. LocalOK(l) /\ l.sig = None /\ l.pc = "wake"
    BY <1>1, <2>1, <2>3, WakingOK DEF LocalOK
  <2>5. req' = [req EXCEPT ![r] = l]
    BY <2>1
  <2> HIDE DEF l
  <2>6. QED
    BY <1>1, <2>1, <2>2, <2>4, <2>5, LocalStep DEF Holding
<1>3. CASE BudgetSpent(r)
  <2> DEFINE l == [m EXCEPT !.expired = TRUE]
  <2>1. req' = [req EXCEPT ![r] = l] /\ UNCHANGED << avail, inflight, waiters, ch >>
        /\ m.pc \in {"select", "wait"}
    BY <1>3 DEF BudgetSpent, IInv, TypeInv
  <2>2. l \in Locals
    BY <1>1 DEF Locals
  <2>3. LocalOK(l) /\ l.sig = None /\ l.pc = m.pc /\ l.on = m.on
    BY <1>1, <2>1, <2>2 DEF LocalOK, Locals
  <2> HIDE DEF l
  <2>4. QED
    BY <1>1, <2>1, <2>3, LocalStep DEF Holding
<1>4. CASE Check(r)
  <2>1. m.pc = "check" /\ UNCHANGED << avail, inflight, waiters, ch >>
    BY <1>4 DEF Check
  <2>2. CASE req' = [req EXCEPT ![r] =
               [m EXCEPT !.pc = "leave", !.ret = "cands", !.queuedOn = m.on]]
    <3> DEFINE l == [m EXCEPT !.pc = "leave", !.ret = "cands", !.queuedOn = m.on]
    <3>1. l \in Locals /\ l.pc = "leave" /\ l.on = m.on /\ l.ret = "cands" /\ l.sig = m.sig
          /\ l.res = m.res
      BY <1>1, <2>1 DEF Locals, Pcs, Rets
    <3>2. LocalOK(l) /\ l.sig = None
      BY <1>1, <2>1, <3>1 DEF LocalOK, Settled
    <3> HIDE DEF l
    <3>3. QED
      BY <1>1, <2>1, <2>2, <3>1, <3>2, LocalStep DEF Holding, l
  <2>3. CASE req' = [req EXCEPT ![r] = [m EXCEPT !.pc = "wait"]]
    <3> DEFINE l == [m EXCEPT !.pc = "wait"]
    <3>1. LocalOK(l) /\ l.sig = None /\ l.pc = "wait" /\ l.on = m.on
      BY <1>1, <2>1 DEF LocalOK, Locals, Pcs
    <3> HIDE DEF l
    <3>2. QED
      BY <1>1, <2>1, <2>3, <3>1, LocalStep DEF Holding, l
  <2>4. QED
    BY <1>4, <2>2, <2>3 DEF Check
<1>5. CASE WaitExpired(r) \/ HangUpWaiting(r)
  <2>1. PICK t \in {"expired", "abandoned"} :
          req' = [req EXCEPT ![r].pc = "leave", ![r].ret = t]
    BY <1>5 DEF WaitExpired, HangUpWaiting
  <2> DEFINE l == [m EXCEPT !.pc = "leave", !.ret = t]
  <2>2. m.pc = "wait" /\ UNCHANGED << avail, inflight, waiters, ch >>
        /\ req' = [req EXCEPT ![r] = l]
    BY <1>5, <2>1 DEF WaitExpired, HangUpWaiting, IInv, TypeInv
  <2>3. LocalOK(l) /\ l.sig = None /\ l.pc = "leave" /\ l.on = m.on
    BY <1>1, <2>2 DEF LocalOK, Locals, Pcs, Rets
  <2> HIDE DEF l
  <2>4. QED
    BY <1>1, <2>2, <2>3, LocalStep DEF Holding
<1>6. QED
  BY <1>2, <1>3, <1>4, <1>5

\* Wake pops the head: its ticket goes from the queue to the waker (waitq.go:80-96).
LEMMA WakeStep ==
  ASSUME IInv, NEW r \in Requests, Wake(r)
  PROVE  IInv'
<1> DEFINE m == req[r]
           b == m.wq
<1>1. /\ LocalOK(m) /\ m \in Locals /\ m.pc = "wake" /\ m.sig = None /\ b \in Backends
      /\ UNCHANGED << avail, inflight, ch >>
      /\ avail \subseteq Backends /\ inflight \in [Backends -> Int]
      /\ waiters \in [Backends -> Seq(Requests)] /\ ch \in [Requests -> BOOLEAN]
  BY DEF Wake, IInv, TypeInv, LocalOK
<1>2. CASE waiters[b] = << >>
  <2> DEFINE l == Resume(m)
  <2>1. LocalOK(l) /\ l.sig = None
        /\ l.pc \in {"idle", "join", "poll", "wake", "select", "cands"}
    BY <1>1, ResumeOK
  <2>2. req' = [req EXCEPT ![r] = l] /\ waiters' = waiters
    BY <1>2 DEF Wake
  <2> HIDE DEF l
  <2>3. QED
    BY <1>1, <2>1, <2>2, LocalStep DEF Holding
<1>3. CASE waiters[b] # << >>
  <2> DEFINE t == Head(waiters[b])
             l == [m EXCEPT !.pc = "send", !.sig = t]
             n == Len(waiters[b])
  <2>1. req' = [req EXCEPT ![r] = l] /\ waiters' = [waiters EXCEPT ![b] = Tail(waiters[b])]
    BY <1>3 DEF Wake, PopHead, IInv, TypeInv
  <2>2. /\ n \in Nat /\ n >= 1 /\ t \in Requests /\ t = waiters[b][1] /\ 1 \in 1..n
        /\ Tail(waiters[b]) \in Seq(Requests) /\ Len(Tail(waiters[b])) = n - 1
        /\ \A i \in 1..(n - 1) : Tail(waiters[b])[i] = waiters[b][i + 1]
    BY <1>1, <1>3
  <2>3. /\ waiters' \in [Backends -> Seq(Requests)]
        /\ \A c \in Backends \ {b} : waiters'[c] = waiters[c]
        /\ Len(waiters'[b]) = n - 1
        /\ \A i \in 1..(n - 1) : waiters'[b][i] = waiters[b][i + 1]
    BY <1>1, <2>1, <2>2
  <2>4. LocalOK(l) /\ l.sig = t /\ l.pc = "send" /\ l.wq = b
    BY <1>1, <2>2, NilAssumption DEF LocalOK, Locals, Pcs
  <2> HIDE DEF l
  <2>5. TypeInv' /\ req'[r] = l /\ \A p \in Requests \ {r} : req'[p] = req[p]
    BY <1>1, <2>1, <2>3, <2>4, LocalType DEF IInv
  <2>6. /\ req[t].pc \in Holding /\ req[t].on = b /\ ch[t] = FALSE
        /\ \A p \in Requests : req[p].sig # t
        /\ \A j \in 1..n : waiters[b][j] = t => j = 1
    BY <1>1, <2>2 DEF IInv, TicketInv, QueuedOK
  <2>7. t # r /\ m.pc \notin Holding
    BY <1>1, <2>6 DEF Holding
  <2>8. \A c \in Backends : \A i \in 1..Len(waiters'[c]) :
          /\ waiters'[c][i] \in Requests /\ waiters'[c][i] # r /\ waiters'[c][i] # t
          /\ \E j \in 1..Len(waiters[c]) : waiters[c][j] = waiters'[c][i]
    <3> SUFFICES ASSUME NEW c \in Backends, NEW i \in 1..Len(waiters'[c])
                 PROVE  /\ waiters'[c][i] \in Requests /\ waiters'[c][i] # r
                        /\ waiters'[c][i] # t
                        /\ \E j \in 1..Len(waiters[c]) : waiters[c][j] = waiters'[c][i]
      OBVIOUS
    <3>1. CASE c = b
      <4>1. i \in 1..(n - 1) /\ i + 1 \in 1..n /\ waiters'[b][i] = waiters[b][i + 1]
        BY <2>2, <2>3, <3>1
      <4>2. waiters[b][i + 1] # t
        BY <2>2, <2>6, <4>1
      <4>3. waiters[b][i + 1] \in Requests /\ req[waiters[b][i + 1]].pc \in Holding
        BY <1>1, <2>2, <4>1 DEF IInv, TicketInv, QueuedOK
      <4>4. QED
        BY <2>7, <3>1, <4>1, <4>2, <4>3
    <3>2. CASE c # b
      <4>1. waiters'[c] = waiters[c]
        BY <2>3, <3>2
      <4>2. waiters[c][i] \in Requests /\ req[waiters[c][i]].pc \in Holding
            /\ req[waiters[c][i]].on = c
        BY <1>1, <4>1 DEF IInv, TicketInv, QueuedOK
      <4>3. QED
        BY <2>6, <2>7, <3>2, <4>1, <4>2
    <3>3. QED
      BY <3>1, <3>2
  <2>9. QueuedOK'
    <3> SUFFICES ASSUME NEW c \in Backends, NEW i \in 1..Len(waiters'[c])
                 PROVE  LET q == waiters'[c][i] IN
                          /\ req'[q].pc \in Holding /\ req'[q].on = c /\ ch'[q] = FALSE
                          /\ \A p \in Requests : req'[p].sig # q
                          /\ \A j \in 1..Len(waiters'[c]) : waiters'[c][j] = q => i = j
      BY DEF QueuedOK
    <3> DEFINE q == waiters'[c][i]
    <3>1. q \in Requests /\ q # r /\ q # t
      BY <2>8
    <3>2. /\ req[q].pc \in Holding /\ req[q].on = c /\ ch[q] = FALSE
          /\ \A p \in Requests : req[p].sig # q
      BY <2>8 DEF IInv, TicketInv, QueuedOK
    <3>3. \A j \in 1..Len(waiters'[c]) : waiters'[c][j] = q => i = j
      <4>1. CASE c = b
        <5>1. \A j \in 1..(n - 1) : waiters[b][j + 1] = waiters[b][i + 1] => j + 1 = i + 1
          BY <2>2, <2>3, <4>1, SMTT(30) DEF IInv, TicketInv, QueuedOK
        <5>2. \A j \in 1..Len(waiters'[c]) : j \in 1..(n - 1) /\ waiters'[c][j] = waiters[b][j + 1]
          BY <2>2, <2>3, <4>1
        <5>3. i \in 1..(n - 1) /\ q = waiters[b][i + 1]
          BY <5>2
        <5>4. QED
          BY <2>2, <5>1, <5>2, <5>3
      <4>2. CASE c # b
        BY <2>3, <4>2 DEF IInv, TicketInv, QueuedOK
      <4>3. QED
        BY <4>1, <4>2
    <3> HIDE DEF q
    <3>4. QED
      BY <1>1, <2>4, <2>5, <3>1, <3>2, <3>3 DEF q
  <2>10. SignalOK'
    <3> SUFFICES ASSUME NEW p \in Requests, NEW q \in Requests, req'[p].sig = q
                 PROVE  /\ req'[q].pc \in Holding /\ req'[q].on = req'[p].wq /\ ch'[q] = FALSE
                        /\ \A o \in Requests : req'[o].sig = q => o = p
      BY DEF SignalOK
    <3>1. CASE p = r
      <4>1. q = t /\ req'[q] = req[t] /\ req'[p].wq = b
        BY <2>2, <2>4, <2>5, <2>7, <3>1
      <4>2. QED
        BY <1>1, <2>5, <2>6, <3>1, <4>1
    <3>2. CASE p # r
      <4>1. req'[p] = req[p] /\ q # t /\ req[p].sig = q
        BY <2>5, <2>6, <3>2
      <4>2. /\ req[q].pc \in Holding /\ req[q].on = req[p].wq /\ ch[q] = FALSE
            /\ \A o \in Requests : req[o].sig = q => o = p
        BY <4>1 DEF IInv, TicketInv, SignalOK
      <4>3. QED
        BY <1>1, <2>4, <2>5, <2>7, <4>1, <4>2
    <3>3. QED
      BY <3>1, <3>2
  <2>11. DeliveredOK'
    BY <1>1, <2>5, <2>7 DEF IInv, TicketInv, DeliveredOK
  <2>12. HeldOK'
    <3> SUFFICES ASSUME NEW q \in Requests, req'[q].pc \in Holding, ch'[q] # TRUE,
                        ~\E p \in Requests : req'[p].sig = q
                 PROVE  \E i \in 1..Len(waiters'[req'[q].on]) : waiters'[req'[q].on][i] = q
      BY DEF HeldOK, InQueue
    <3>1. q # r /\ q # t
      BY <2>4, <2>5 DEF Holding
    <3>2. \A p \in Requests : req[p].sig # q
      BY <1>1, <2>5, NilAssumption
    <3>3. InQueue(q, req[q].on) /\ req'[q] = req[q] /\ req[q].on \in Backends
      BY <1>1, <2>5, <3>1, <3>2 DEF IInv, TicketInv, HeldOK, TypeInv, LocalOK, Holding
    <3>4. PICK i \in 1..Len(waiters[req[q].on]) : waiters[req[q].on][i] = q
      BY <3>3 DEF InQueue
    <3>5. CASE req[q].on = b
      <4>1. i # 1 /\ i - 1 \in 1..(n - 1) /\ waiters'[b][i - 1] = q
        BY <2>2, <2>3, <3>1, <3>4, <3>5
      <4>2. QED
        BY <2>3, <3>3, <3>5, <4>1
    <3>6. CASE req[q].on # b
      BY <2>3, <3>3, <3>4, <3>6
    <3>7. QED
      BY <3>5, <3>6
  <2>13. DepthOK'
    <3>1. \A c \in Backends : Len(waiters[c]) \in Nat /\ Len(waiters[c]) <= Depth
      BY <1>1 DEF IInv, TicketInv, DepthOK
    <3>2. QED
      BY <1>1, <2>2, <2>3, <3>1, DepthAssumption DEF DepthOK
  <2>14. QED
    BY <2>5, <2>9, <2>10, <2>11, <2>12, <2>13 DEF IInv, TicketInv
<1>4. QED
  BY <1>2, <1>3

\* Live tickets stay somewhere when no queue changes, no delivery is undone and a
\* sender lets go of a ticket only by delivering it.
LEMMA HeldKept ==
  ASSUME IInv, waiters' = waiters,
         \A q \in Requests : req'[q].pc \in Holding =>
           /\ req[q].pc \in Holding /\ req'[q].on = req[q].on
           /\ ch[q] = TRUE => ch'[q] = TRUE
           /\ \A p \in Requests : req[p].sig = q => req'[p].sig = q \/ ch'[q] = TRUE
  PROVE  HeldOK'
<1> SUFFICES ASSUME NEW q \in Requests, req'[q].pc \in Holding
             PROVE  \/ ch'[q] = TRUE
                    \/ \E p \in Requests : req'[p].sig = q
                    \/ \E i \in 1..Len(waiters'[req'[q].on]) : waiters'[req'[q].on][i] = q
  BY DEF HeldOK, InQueue
<1>1. \/ ch[q] = TRUE
      \/ \E p \in Requests : req[p].sig = q
      \/ \E i \in 1..Len(waiters[req[q].on]) : waiters[req[q].on][i] = q
  BY DEF IInv, TicketInv, HeldOK, InQueue
<1>2. QED
  BY <1>1

\* Queued tickets stay well placed when their owners' locals do.
LEMMA QueuedKept ==
  ASSUME IInv, waiters' = waiters,
         \A c \in Backends : \A i \in 1..Len(waiters[c]) :
           /\ req'[waiters[c][i]].pc \in Holding /\ req'[waiters[c][i]].on = c
           /\ ch'[waiters[c][i]] = FALSE
           /\ \A p \in Requests : req'[p].sig # waiters[c][i]
  PROVE  QueuedOK'
BY DEF IInv, TicketInv, QueuedOK

\* The send delivers the popped ticket, or fills an abandoned channel (waitq.go:98-99).
LEMMA SendStep ==
  ASSUME IInv, NEW r \in Requests, Send(r)
  PROVE  IInv'
<1> DEFINE m == req[r]
           t == m.sig
           l == Resume(m)
<1>1. /\ LocalOK(m) /\ m \in Locals /\ m.pc = "send" /\ t # None
      /\ UNCHANGED << avail, inflight, waiters >> /\ req' = [req EXCEPT ![r] = l]
      /\ avail \subseteq Backends /\ inflight \in [Backends -> Int]
      /\ waiters \in [Backends -> Seq(Requests)] /\ ch \in [Requests -> BOOLEAN]
  BY DEF Send, IInv, TypeInv, LocalOK
<1>2. LocalOK(l) /\ l.sig = None /\ l.pc \notin Holding /\ m.pc \notin Holding
  BY <1>1, ResumeOK DEF Holding
<1> HIDE DEF l
<1>3. ch' \in [Requests -> BOOLEAN]
  BY <1>1 DEF Send
<1>4. TypeInv' /\ req'[r] = l /\ \A p \in Requests \ {r} : req'[p] = req[p]
  BY <1>1, <1>2, <1>3, LocalType DEF IInv
<1>5. \A q \in Requests : /\ req'[q].pc \in Holding <=> req[q].pc \in Holding
                          /\ req[q].pc \in Holding => req'[q].on = req[q].on
                          /\ req'[q].sig = req[q].sig \/ (q = r /\ req'[q].sig = None)
  BY <1>2, <1>4
<1>6. CASE t = Gone
  <2>1. ch' = ch
    BY <1>6 DEF Send
  <2>2. \A p, q \in Requests : req'[p].sig = q <=> req[p].sig = q
    BY <1>2, <1>4, <1>6, NilAssumption
  <2>3. \A b \in Backends : \A i \in 1..Len(waiters[b]) : waiters[b][i] \in Requests
    BY <1>1
  <2>4. QueuedOK'
    BY <1>1, <1>5, <2>1, <2>2, <2>3 DEF IInv, TicketInv, QueuedOK
  <2>5. SignalOK'
    BY <1>2, <1>4, <1>5, <2>1, <2>2, NilAssumption DEF IInv, TicketInv, SignalOK
  <2>6. DeliveredOK' /\ DepthOK'
    BY <1>1, <1>5, <2>1 DEF IInv, TicketInv, DeliveredOK, DepthOK
  <2>7. HeldOK'
    BY <1>1, <1>5, <2>1, <2>2, HeldKept, ZenonT(40)
  <2>8. QED
    BY <1>4, <2>4, <2>5, <2>6, <2>7 DEF IInv, TicketInv
<1>7. CASE t # Gone
  <2>1. t \in Requests /\ ch' = [ch EXCEPT ![t] = TRUE]
    BY <1>1, <1>7 DEF Send, Locals
  <2>2. /\ req[t].pc \in Holding /\ t # r
        /\ \A q \in Requests : req[q].sig = t => q = r
    BY <1>2, <2>1 DEF IInv, TicketInv, SignalOK
  <2>3. \A b \in Backends : \A i \in 1..Len(waiters[b]) :
          waiters[b][i] \in Requests /\ waiters[b][i] # t
    BY <1>1, <2>1 DEF IInv, TicketInv, QueuedOK
  <2>4. \A q \in Requests \ {t} : ch'[q] = ch[q]
    BY <1>1, <2>1
  <2>5. \A p, q \in Requests : req'[p].sig = q <=> (req[p].sig = q /\ q # t)
    BY <1>2, <1>4, <2>1, <2>2, NilAssumption
  <2>6. QueuedOK'
    <3>1. \A c \in Backends : \A i \in 1..Len(waiters[c]) :
            /\ req[waiters[c][i]].pc \in Holding /\ req[waiters[c][i]].on = c
            /\ ch[waiters[c][i]] = FALSE
            /\ \A p \in Requests : req[p].sig # waiters[c][i]
      BY DEF IInv, TicketInv, QueuedOK
    <3>2. \A q \in Requests : \A p \in Requests : req[p].sig # q => req'[p].sig # q
      BY <2>5
    <3>3. \A c \in Backends : \A i \in 1..Len(waiters[c]) :
            /\ req'[waiters[c][i]].pc \in Holding /\ req'[waiters[c][i]].on = c
            /\ ch'[waiters[c][i]] = FALSE
      BY <1>5, <2>3, <2>4, <3>1
    <3>4. \A c \in Backends : \A i \in 1..Len(waiters[c]) :
            \A p \in Requests : req'[p].sig # waiters[c][i]
      BY <2>3, <3>1, <3>2
    <3>5. \A c \in Backends : \A i \in 1..Len(waiters[c]) :
            /\ req'[waiters[c][i]].pc \in Holding /\ req'[waiters[c][i]].on = c
            /\ ch'[waiters[c][i]] = FALSE
            /\ \A p \in Requests : req'[p].sig # waiters[c][i]
      BY <1>1, <3>3, <3>4
    <3>6. waiters' = waiters
      BY <1>1
    <3>7. QED
      BY <3>5, <3>6, QueuedKept
  <2>7. SignalOK'
    BY <1>2, <1>4, <1>5, <2>4, <2>5, NilAssumption DEF IInv, TicketInv, SignalOK
  <2>8. DeliveredOK' /\ DepthOK'
    BY <1>1, <1>5, <2>2, <2>4 DEF IInv, TicketInv, DeliveredOK, DepthOK
  <2>9. HeldOK'
    <3>1. ch'[t] = TRUE
      BY <1>1, <2>1
    <3>2. QED
      BY <1>1, <1>5, <2>1, <2>4, <2>5, <3>1, HeldKept
  <2>10. QED
    BY <1>4, <2>6, <2>7, <2>8, <2>9 DEF IInv, TicketInv
<1>8. QED
  BY <1>6, <1>7

\* Join takes a fresh ticket to the back of the queue, or refuses (waitq.go:51-67).
LEMMA JoinStep ==
  ASSUME IInv, NEW r \in Requests, Join(r)
  PROVE  IInv'
<1> DEFINE m == req[r]
           b == m.on
           n == Len(waiters[b])
<1>1. /\ LocalOK(m) /\ m \in Locals /\ m.pc = "join" /\ m.sig = None /\ b \in Backends
      /\ UNCHANGED << avail, inflight >>
      /\ avail \subseteq Backends /\ inflight \in [Backends -> Int]
      /\ waiters \in [Backends -> Seq(Requests)] /\ ch \in [Requests -> BOOLEAN]
  BY DEF Join, IInv, TypeInv, LocalOK
<1>2. CASE Full(waiters[b])
  <2>1. req' = [req EXCEPT ![r] = Fresh] /\ UNCHANGED << waiters, ch >>
    BY <1>2 DEF Join
  <2>2. QED
    BY <1>1, <2>1, FreshOK, LocalStep DEF Holding
<1>3. CASE ~Full(waiters[b])
  <2> DEFINE l == [m EXCEPT !.pc = "check"]
  <2>1. /\ req' = [req EXCEPT ![r] = l] /\ ch' = [ch EXCEPT ![r] = FALSE]
        /\ waiters' = [waiters EXCEPT ![b] = Append(waiters[b], r)]
    BY <1>3 DEF Join, IInv, TypeInv
  <2>2. LocalOK(l) /\ l.pc = "check" /\ l.on = b /\ l.sig = None
    BY <1>1 DEF LocalOK, Locals, Pcs
  <2> HIDE DEF l
  <2>3. n \in Nat /\ n + 1 <= Depth
    BY <1>1, <1>3, DepthAssumption DEF Full
  <2>4. /\ waiters' \in [Backends -> Seq(Requests)]
        /\ \A c \in Backends \ {b} : waiters'[c] = waiters[c]
        /\ Len(waiters'[b]) = n + 1 /\ waiters'[b][n + 1] = r
        /\ \A i \in 1..n : waiters'[b][i] = waiters[b][i]
    BY <1>1, <2>1
  <2>5. TypeInv' /\ req'[r] = l /\ \A p \in Requests \ {r} : req'[p] = req[p]
    BY <1>1, <2>1, <2>2, <2>4, LocalType DEF IInv
  <2>6. ch' = ch /\ ch[r] = FALSE
    BY <1>1, <2>1 DEF IInv, TicketInv, DeliveredOK, Holding
  <2>7. \A p \in Requests : req[p].sig # r /\ req'[p].sig = req[p].sig
    BY <1>1, <2>2, <2>5 DEF IInv, TicketInv, SignalOK, Holding
  <2>8. \A c \in Backends : \A i \in 1..Len(waiters[c]) :
          waiters[c][i] \in Requests /\ waiters[c][i] # r
    BY <1>1 DEF IInv, TicketInv, QueuedOK, Holding
  <2>9. \A c \in Backends : \A i \in 1..Len(waiters'[c]) :
          \/ c = b /\ i = n + 1 /\ waiters'[c][i] = r
          \/ i \in 1..Len(waiters[c]) /\ waiters'[c][i] = waiters[c][i]
    BY <2>3, <2>4, SMTT(30)
  <2>10. QueuedOK'
    <3> SUFFICES ASSUME NEW c \in Backends, NEW i \in 1..Len(waiters'[c])
                 PROVE  LET q == waiters'[c][i] IN
                          /\ req'[q].pc \in Holding /\ req'[q].on = c /\ ch'[q] = FALSE
                          /\ \A p \in Requests : req'[p].sig # q
                          /\ \A j \in 1..Len(waiters'[c]) : waiters'[c][j] = q => i = j
      BY DEF QueuedOK
    <3>1. CASE c = b /\ i = n + 1 /\ waiters'[c][i] = r
      <4>1. req'[r].pc \in Holding /\ req'[r].on = b
        BY <2>2, <2>5 DEF Holding
      <4>2. QED
        BY <2>6, <2>7, <2>8, <2>9, <3>1, <4>1
    <3>2. CASE i \in 1..Len(waiters[c]) /\ waiters'[c][i] = waiters[c][i]
      <4> DEFINE q == waiters[c][i]
      <4>1. q \in Requests /\ q # r /\ req'[q] = req[q]
        BY <2>5, <2>8, <3>2
      <4>2. /\ req[q].pc \in Holding /\ req[q].on = c /\ ch[q] = FALSE
            /\ \A p \in Requests : req[p].sig # q
            /\ \A j \in 1..Len(waiters[c]) : waiters[c][j] = q => i = j
        BY <3>2 DEF IInv, TicketInv, QueuedOK
      <4> HIDE DEF q
      <4>3. QED
        BY <2>6, <2>7, <2>9, <3>2, <4>1, <4>2 DEF q
    <3>3. QED
      BY <2>9, <3>1, <3>2
  <2>11. SignalOK'
    <3>1. \A p, q \in Requests : req'[p].sig = q => p # r /\ q # r /\ req[p].sig = q
      BY <2>2, <2>5, <2>7, NilAssumption
    <3>2. QED
      BY <2>5, <2>6, <2>7, <3>1 DEF IInv, TicketInv, SignalOK
  <2>12. DeliveredOK'
    BY <2>5, <2>6 DEF IInv, TicketInv, DeliveredOK
  <2>13. HeldOK'
    <3> SUFFICES ASSUME NEW q \in Requests, req'[q].pc \in Holding
                 PROVE  \/ ch'[q] = TRUE
                        \/ \E p \in Requests : req'[p].sig = q
                        \/ \E i \in 1..Len(waiters'[req'[q].on]) : waiters'[req'[q].on][i] = q
      BY DEF HeldOK, InQueue
    <3>1. CASE q = r
      BY <2>2, <2>3, <2>4, <2>5, <3>1, SMTT(30)
    <3>2. CASE q # r
      <4>1. req'[q] = req[q] /\ req[q].on \in Backends
        BY <2>5, <3>2 DEF IInv, TypeInv, LocalOK, Holding
      <4>2. CASE InQueue(q, req[q].on)
        <5>1. PICK i \in 1..Len(waiters[req[q].on]) : waiters[req[q].on][i] = q
          BY <4>2 DEF InQueue
        <5>2. i \in 1..Len(waiters'[req[q].on]) /\ waiters'[req[q].on][i] = q
          <6>1. CASE req[q].on = b
            BY <2>3, <2>4, <5>1, <6>1
          <6>2. CASE req[q].on # b
            BY <2>4, <4>1, <5>1, <6>2
          <6>3. QED
            BY <6>1, <6>2
        <5>3. QED
          BY <4>1, <5>2
      <4>3. QED
        BY <2>6, <2>7, <4>1, <4>2 DEF IInv, TicketInv, HeldOK
    <3>3. QED
      BY <3>1, <3>2
  <2>14. DepthOK'
    BY <2>3, <2>4 DEF IInv, TicketInv, DepthOK
  <2>15. QED
    BY <2>5, <2>10, <2>11, <2>12, <2>13, <2>14 DEF IInv, TicketInv
<1>4. QED
  BY <1>2, <1>3

\* The ticket's wake is received: the ticket is spent (capacity_retry.go:328-333).
LEMMA WokenStep ==
  ASSUME IInv, NEW r \in Requests, Woken(r)
  PROVE  IInv'
<1> DEFINE m == req[r]
           l == [m EXCEPT !.pc = "cands", !.queuedOn = m.on]
<1>1. /\ LocalOK(m) /\ m \in Locals /\ m.pc = "wait" /\ ch[r] = TRUE /\ m.sig = None
      /\ UNCHANGED << avail, inflight, waiters >> /\ req' = [req EXCEPT ![r] = l]
      /\ ch' = [ch EXCEPT ![r] = FALSE]
      /\ avail \subseteq Backends /\ inflight \in [Backends -> Int]
      /\ waiters \in [Backends -> Seq(Requests)] /\ ch \in [Requests -> BOOLEAN]
  BY DEF Woken, IInv, TypeInv, LocalOK
<1>2. LocalOK(l) /\ l.sig = None /\ l.pc \notin Holding
  BY <1>1 DEF LocalOK, Locals, Pcs, Holding
<1> HIDE DEF l
<1>3. ch' \in [Requests -> BOOLEAN] /\ ch'[r] = FALSE /\ \A q \in Requests \ {r} : ch'[q] = ch[q]
  BY <1>1
<1>4. TypeInv' /\ req'[r] = l /\ \A p \in Requests \ {r} : req'[p] = req[p]
  BY <1>1, <1>2, <1>3, LocalType DEF IInv
<1>5. /\ \A p \in Requests : req'[p].sig = req[p].sig /\ req[p].sig # r
      /\ \A b \in Backends : \A i \in 1..Len(waiters[b]) :
           waiters[b][i] \in Requests /\ waiters[b][i] # r
  BY <1>1, <1>2, <1>4 DEF IInv, TicketInv, SignalOK, QueuedOK
<1>6. QueuedOK'
  BY <1>1, <1>3, <1>4, <1>5 DEF IInv, TicketInv, QueuedOK
<1>7. SignalOK'
  BY <1>1, <1>2, <1>3, <1>4, <1>5, NilAssumption DEF IInv, TicketInv, SignalOK
<1>8. DeliveredOK' /\ DepthOK'
  BY <1>1, <1>3, <1>4 DEF IInv, TicketInv, DeliveredOK, DepthOK
<1>9. HeldOK'
  <2>1. \A q \in Requests : req'[q].pc \in Holding => q # r /\ req'[q] = req[q]
    BY <1>2, <1>4
  <2>2. QED
    BY <1>1, <1>3, <1>5, <2>1, HeldKept
<1>10. QED
  BY <1>4, <1>6, <1>7, <1>8, <1>9 DEF IInv, TicketInv

\* What taking the i-th element out of a sequence leaves.
LEMMA WithoutFacts ==
  ASSUME NEW S, NEW q \in Seq(S), NEW i \in 1..Len(q)
  PROVE  /\ Without(q, i) \in Seq(S) /\ Len(Without(q, i)) = Len(q) - 1
         /\ Len(q) \in Nat /\ Len(q) >= 1
         /\ \A j \in 1..(Len(q) - 1) :
              Without(q, i)[j] = IF j < i THEN q[j] ELSE q[j + 1]
<1> DEFINE n == Len(q) - 1
           w == Without(q, i)
<1>1. Len(q) \in Nat /\ Len(q) >= 1 /\ n \in Nat /\ i \in Nat /\ i >= 1 /\ i <= n + 1
  OBVIOUS
<1>2. \A j \in 1..n : q[j] \in S /\ q[j + 1] \in S
  BY <1>1
<1>3. w \in [1..n -> S] /\ \A j \in 1..n : w[j] = IF j < i THEN q[j] ELSE q[j + 1]
  BY <1>1, <1>2 DEF Without
<1> HIDE DEF w
<1>4. w \in Seq(S) /\ Len(w) = n
  BY <1>1, <1>3, SeqDef, LenProperties
<1>5. QED
  BY <1>1, <1>3, <1>4 DEF w

\* Leave gives the ticket up where it finds it: in the queue, or popped, when the
\* wake that is spoken for goes on to the next waiter (waitq.go:103-135).
LEMMA LeaveStep ==
  ASSUME IInv, NEW r \in Requests, Leave(r)
  PROVE  IInv'
<1> DEFINE m == req[r]
           b == m.on
<1>1. /\ LocalOK(m) /\ m \in Locals /\ m.pc = "leave" /\ m.sig = None /\ b \in Backends
      /\ UNCHANGED << avail, inflight >>
      /\ avail \subseteq Backends /\ inflight \in [Backends -> Int]
      /\ waiters \in [Backends -> Seq(Requests)] /\ ch \in [Requests -> BOOLEAN]
  BY DEF Leave, IInv, TypeInv, LocalOK
<1>2. ASSUME NEW i \in 1..Len(waiters[b]), waiters[b][i] = r,
             waiters' = [waiters EXCEPT ![b] = Without(waiters[b], i)],
             req' = [req EXCEPT ![r] = Resume(m)], ch' = ch
      PROVE  IInv'
  <2> DEFINE n == Len(waiters[b])
             l == Resume(m)
  <2>1. LocalOK(l) /\ l.sig = None /\ l.pc \notin Holding
    BY <1>1, ResumeOK DEF Holding
  <2>2. req' = [req EXCEPT ![r] = l]
    BY <1>2
  <2> HIDE DEF l
  <2>3. /\ Without(waiters[b], i) \in Seq(Requests) /\ Len(Without(waiters[b], i)) = n - 1
        /\ n \in Nat /\ n >= 1 /\ i \in Nat /\ i <= n
        /\ \A j \in 1..(n - 1) :
             Without(waiters[b], i)[j] = IF j < i THEN waiters[b][j] ELSE waiters[b][j + 1]
    <3>1. waiters[b] \in Seq(Requests)
      BY <1>1
    <3>2. i \in Nat /\ n \in Nat /\ i <= n /\ n >= 1
      BY <3>1
    <3>3. QED
      BY <3>1, <3>2, WithoutFacts
  <2>4. /\ waiters' \in [Backends -> Seq(Requests)]
        /\ \A c \in Backends \ {b} : waiters'[c] = waiters[c]
        /\ Len(waiters'[b]) = n - 1
        /\ \A j \in 1..(n - 1) :
             waiters'[b][j] = IF j < i THEN waiters[b][j] ELSE waiters[b][j + 1]
    BY <1>1, <1>2, <2>3
  <2>5. TypeInv' /\ req'[r] = l /\ \A p \in Requests \ {r} : req'[p] = req[p]
    BY <1>1, <1>2, <2>1, <2>2, <2>4, LocalType DEF IInv
  <2>6. /\ ch[r] = FALSE /\ \A p \in Requests : req[p].sig # r
        /\ \A j \in 1..n : waiters[b][j] = r => j = i
        /\ \A j, k \in 1..n : waiters[b][j] = waiters[b][k] => j = k
    BY <1>1, <1>2 DEF IInv, TicketInv, QueuedOK
  <2>7. \A p \in Requests : req'[p].sig = req[p].sig
    BY <1>1, <2>1, <2>5
  <2>8. \A j \in 1..Len(waiters'[b]) :
          \E k \in 1..n : /\ k = (IF j < i THEN j ELSE j + 1) /\ k # i
                          /\ waiters'[b][j] = waiters[b][k]
    BY <2>3, <2>4
  <2>9. QueuedOK'
    <3> SUFFICES ASSUME NEW c \in Backends, NEW j \in 1..Len(waiters'[c])
                 PROVE  LET q == waiters'[c][j] IN
                          /\ req'[q].pc \in Holding /\ req'[q].on = c /\ ch'[q] = FALSE
                          /\ \A p \in Requests : req'[p].sig # q
                          /\ \A k \in 1..Len(waiters'[c]) : waiters'[c][k] = q => j = k
      BY DEF QueuedOK
    <3> DEFINE q == waiters'[c][j]
    <3>1. /\ q \in Requests /\ q # r
          /\ req[q].pc \in Holding /\ req[q].on = c /\ ch[q] = FALSE
          /\ \A p \in Requests : req[p].sig # q
      <4>1. CASE c = b
        <5>1. PICK k \in 1..n : k # i /\ q = waiters[b][k]
          BY <2>8, <4>1
        <5>2. QED
          BY <1>1, <2>6, <4>1, <5>1 DEF IInv, TicketInv, QueuedOK
      <4>2. CASE c # b
        <5>1. waiters'[c] = waiters[c]
          BY <2>4, <4>2
        <5>2. q \in Requests /\ req[q].on = c
          BY <1>1, <5>1 DEF IInv, TicketInv, QueuedOK
        <5>3. QED
          BY <1>1, <4>2, <5>1, <5>2 DEF IInv, TicketInv, QueuedOK
      <4>3. QED
        BY <4>1, <4>2
    <3>2. \A k \in 1..Len(waiters'[c]) : waiters'[c][k] = q => j = k
      <4>1. CASE c = b
        <5> SUFFICES ASSUME NEW k \in 1..Len(waiters'[c]), waiters'[c][k] = q PROVE j = k
          OBVIOUS
        <5> DEFINE kk == IF k < i THEN k ELSE k + 1
                   jj == IF j < i THEN j ELSE j + 1
        <5>1. kk \in 1..n /\ waiters'[b][k] = waiters[b][kk]
          BY <2>8, <4>1
        <5>2. jj \in 1..n /\ waiters'[b][j] = waiters[b][jj]
          BY <2>8, <4>1
        <5>3. kk = jj
          BY <2>6, <4>1, <5>1, <5>2
        <5>4. j \in 1..(n - 1) /\ k \in 1..(n - 1)
          BY <2>4, <4>1
        <5>5. QED
          BY <2>3, <5>3, <5>4
      <4>2. CASE c # b
        BY <2>4, <4>2 DEF IInv, TicketInv, QueuedOK
      <4>3. QED
        BY <4>1, <4>2
    <3> HIDE DEF q
    <3>3. QED
      BY <1>2, <2>5, <2>7, <3>1, <3>2 DEF q
  <2>10. SignalOK'
    <3>1. \A p, q \in Requests : req'[p].sig = q => p # r /\ q # r /\ req[p].sig = q
      BY <2>1, <2>5, <2>6, <2>7, NilAssumption
    <3>2. QED
      BY <1>2, <2>5, <2>7, <3>1 DEF IInv, TicketInv, SignalOK
  <2>11. DeliveredOK'
    BY <1>2, <2>5, <2>6 DEF IInv, TicketInv, DeliveredOK
  <2>12. HeldOK'
    <3> SUFFICES ASSUME NEW q \in Requests, req'[q].pc \in Holding
                 PROVE  \/ ch'[q] = TRUE
                        \/ \E p \in Requests : req'[p].sig = q
                        \/ \E k \in 1..Len(waiters'[req'[q].on]) : waiters'[req'[q].on][k] = q
      BY DEF HeldOK, InQueue
    <3>1. q # r /\ req'[q] = req[q] /\ req[q].on \in Backends
      BY <2>1, <2>5 DEF IInv, TypeInv, LocalOK, Holding
    <3>2. CASE InQueue(q, req[q].on)
      <4>1. PICK k \in 1..Len(waiters[req[q].on]) : waiters[req[q].on][k] = q
        BY <3>2 DEF InQueue
      <4>2. CASE req[q].on # b
        BY <2>4, <3>1, <4>1, <4>2
      <4>3. CASE req[q].on = b
        <5> DEFINE j == IF k < i THEN k ELSE k - 1
        <5>1. k # i /\ k \in 1..n
          BY <1>2, <3>1, <4>1, <4>3
        <5>2. j \in 1..(n - 1) /\ waiters'[b][j] = waiters[b][k]
          BY <2>3, <2>4, <5>1, SMTT(30)
        <5>3. QED
          BY <2>4, <3>1, <4>1, <4>3, <5>2, SMTT(30)
      <4>4. QED
        BY <4>2, <4>3
    <3>3. QED
      BY <1>2, <2>7, <3>1, <3>2 DEF IInv, TicketInv, HeldOK
  <2>13. DepthOK'
    <3>1. \A c \in Backends : Len(waiters[c]) \in Nat /\ Len(waiters[c]) <= Depth
      BY <1>1 DEF IInv, TicketInv, DepthOK
    <3>2. n - 1 <= Depth
      BY <1>1, <2>3, <3>1, DepthAssumption
    <3>3. QED
      BY <2>4, <3>1, <3>2 DEF DepthOK
  <2>14. QED
    BY <2>5, <2>9, <2>10, <2>11, <2>12, <2>13 DEF IInv, TicketInv
<1>3. ASSUME ~InQueue(r, b), waiters' = waiters, ch' = [ch EXCEPT ![r] = FALSE],
             req' = [p \in Requests |->
                       IF p = r THEN AlreadyPopped(req[r], b)
                       ELSE IF req[p].sig = r THEN [req[p] EXCEPT !.sig = Gone]
                       ELSE req[p]]
      PROVE  IInv'
  <2> DEFINE l == Waking(m, b, m.ret)
  <2>1. LocalOK(l) /\ l.sig = None /\ l.pc \notin Holding
    <3>1. m.ret \in Rets \ {"idle"} /\ (m.ret \in Settled => m.queuedOn = None)
      BY <1>1 DEF LocalOK, Rets
    <3>2. QED
      BY <1>1, <3>1, WakingOK DEF Holding
  <2>2. req'[r] = l
    BY <1>3 DEF AlreadyPopped
  <2> HIDE DEF l
  <2>3. \A p \in Requests \ {r} :
          /\ LocalOK(req'[p])
          /\ req'[p].pc = req[p].pc /\ req'[p].on = req[p].on /\ req'[p].wq = req[p].wq
          /\ req'[p].sig = IF req[p].sig = r THEN Gone ELSE req[p].sig
    <3> SUFFICES ASSUME NEW p \in Requests \ {r}
                 PROVE  /\ LocalOK(req'[p])
                        /\ req'[p].pc = req[p].pc /\ req'[p].on = req[p].on
                        /\ req'[p].wq = req[p].wq
                        /\ req'[p].sig = IF req[p].sig = r THEN Gone ELSE req[p].sig
      OBVIOUS
    <3>1. LocalOK(req[p])
      BY DEF IInv, TypeInv
    <3>2. CASE req[p].sig # r
      BY <1>3, <3>1, <3>2
    <3>3. CASE req[p].sig = r
      <4>1. req'[p] = [req[p] EXCEPT !.sig = Gone]
        BY <1>3, <3>3
      <4>2. QED
        BY <3>1, <3>3, <4>1, NilAssumption DEF LocalOK, Locals
    <3>4. QED
      BY <3>2, <3>3
  <2>4. TypeInv'
    <3>1. req' = [p \in Requests |-> req'[p]] /\ \A p \in Requests : req'[p] \in Locals
      BY <1>3, <2>1, <2>2, <2>3 DEF LocalOK
    <3>2. req' \in [Requests -> Locals]
      BY <3>1
    <3>3. ch' \in [Requests -> BOOLEAN] /\ waiters' \in [Backends -> Seq(Requests)]
          /\ avail' \subseteq Backends /\ inflight' \in [Backends -> Int]
      BY <1>1, <1>3
    <3>4. \A p \in Requests : LocalOK(req'[p])
      BY <2>1, <2>2, <2>3
    <3>5. QED
      BY <3>2, <3>3, <3>4 DEF TypeInv
  <2>5. \A c \in Backends : \A i \in 1..Len(waiters[c]) :
          waiters[c][i] \in Requests /\ waiters[c][i] # r
    BY <1>1, <1>3 DEF IInv, TicketInv, QueuedOK, InQueue
  <2>6. ch'[r] = FALSE /\ \A q \in Requests \ {r} : ch'[q] = ch[q]
    BY <1>1, <1>3
  <2>7. \A p, q \in Requests : req'[p].sig = q <=> req[p].sig = q /\ q # r
    BY <1>1, <2>1, <2>2, <2>3, NilAssumption
  <2>8. QueuedOK'
    <3>1. \A c \in Backends : \A i \in 1..Len(waiters[c]) :
            /\ req[waiters[c][i]].pc \in Holding /\ req[waiters[c][i]].on = c
            /\ ch[waiters[c][i]] = FALSE
            /\ \A p \in Requests : req[p].sig # waiters[c][i]
      BY DEF IInv, TicketInv, QueuedOK
    <3>2. \A c \in Backends : \A i \in 1..Len(waiters[c]) :
            /\ req'[waiters[c][i]].pc \in Holding /\ req'[waiters[c][i]].on = c
            /\ ch'[waiters[c][i]] = FALSE
      BY <2>3, <2>5, <2>6, <3>1
    <3>3. \A q \in Requests : \A p \in Requests : req[p].sig # q => req'[p].sig # q
      BY <2>7
    <3>4. \A c \in Backends : \A i \in 1..Len(waiters[c]) :
            \A p \in Requests : req'[p].sig # waiters[c][i]
      BY <2>5, <3>1, <3>3
    <3>5. \A c \in Backends : \A i \in 1..Len(waiters[c]) :
            /\ req'[waiters[c][i]].pc \in Holding /\ req'[waiters[c][i]].on = c
            /\ ch'[waiters[c][i]] = FALSE
            /\ \A p \in Requests : req'[p].sig # waiters[c][i]
      BY <1>3, <3>2, <3>4
    <3>6. waiters' = waiters
      BY <1>3
    <3>7. QED
      BY <3>5, <3>6, QueuedKept
  <2>9. SignalOK'
    <3>1. \A p, q \in Requests : req'[p].sig = q => p # r /\ q # r /\ req[p].sig = q
      BY <2>1, <2>2, <2>7, NilAssumption
    <3>2. QED
      BY <2>3, <2>6, <2>7, <3>1 DEF IInv, TicketInv, SignalOK
  <2>10. DeliveredOK' /\ DepthOK'
    BY <1>3, <2>3, <2>6 DEF IInv, TicketInv, DeliveredOK, DepthOK
  <2>11. HeldOK'
    <3>1. \A q \in Requests : req'[q].pc \in Holding => q # r
      BY <2>1, <2>2
    <3>2. ASSUME NEW q \in Requests, req'[q].pc \in Holding
          PROVE  /\ req[q].pc \in Holding /\ req'[q].on = req[q].on
                 /\ ch[q] = TRUE => ch'[q] = TRUE
                 /\ \A p \in Requests : req[p].sig = q => req'[p].sig = q \/ ch'[q] = TRUE
      <4>1. q \in Requests \ {r}
        BY <3>1, <3>2
      <4>2. req[q].pc \in Holding /\ req'[q].on = req[q].on /\ ch'[q] = ch[q]
        BY <2>3, <2>6, <3>2, <4>1
      <4>3. \A p \in Requests : req[p].sig = q => req'[p].sig = q
        BY <2>7, <4>1
      <4>4. QED
        BY <4>2, <4>3
    <3>3. waiters' = waiters
      BY <1>3
    <3>4. QED
      BY <3>2, <3>3, HeldKept
  <2>12. QED
    BY <2>4, <2>8, <2>9, <2>10, <2>11 DEF IInv, TicketInv
<1>4. QED
  BY <1>2, <1>3 DEF Leave

\* The induction.
LEMMA IInvAlways == Spec => []IInv
<1>1. IInv /\ [Next]_vars => IInv'
  <2> SUFFICES ASSUME IInv, [Next]_vars PROVE IInv'
    OBVIOUS
  <2>1. CASE UNCHANGED vars
    <3>1. /\ avail' = avail /\ inflight' = inflight /\ waiters' = waiters
          /\ ch' = ch /\ req' = req
      BY <2>1 DEF vars
    <3>2. TypeInv'
      BY <3>1 DEF IInv, TypeInv
    <3>3. QueuedOK' /\ SignalOK'
      BY <3>1 DEF IInv, TicketInv, QueuedOK, SignalOK
    <3>4. DeliveredOK' /\ HeldOK' /\ DepthOK'
      BY <3>1 DEF IInv, TicketInv, DeliveredOK, HeldOK, DepthOK, InQueue
    <3>5. QED
      BY <3>2, <3>3, <3>4 DEF IInv, TicketInv
  <2>2. ASSUME NEW b \in Flapping, Flap(b) PROVE IInv'
    <3>1. avail' \subseteq Backends
      BY <2>2, FlappingAssumption DEF Flap, IInv, TypeInv
    <3>2. QED
      BY <2>2, <3>1
      DEF Flap, IInv, TypeInv, TicketInv, QueuedOK, SignalOK, DeliveredOK, HeldOK, DepthOK,
          InQueue
  <2>3. ASSUME NEW r \in Requests,
               \/ Arrive(r) \/ BudgetSpent(r) \/ HangUpPolling(r) \/ HangUpWaiting(r)
               \/ Step(r)
        PROVE  IInv'
    BY <2>3, ChoiceStep, ReleaseOrWaitStep, WakeStep, SendStep, JoinStep, WokenStep, LeaveStep
    DEF Step
  <2>4. QED
    BY <2>1, <2>2, <2>3 DEF Next
<1>2. QED
  BY InitIInv, <1>1, PTL DEF Spec

\* A set whose elements are all equal has at most one.
LEMMA AtMostOne ==
  ASSUME NEW S, \A x, y \in S : x = y
  PROVE  Cardinality(S) = IF S = {} THEN 0 ELSE 1
<1>1. CASE S = {}
  BY <1>1, FS_EmptySet
<1>2. CASE S # {}
  <2>1. PICK x \in S : TRUE
    BY <1>2
  <2>2. S = {x}
    BY <2>1
  <2>3. QED
    BY <1>2, <2>2, FS_Singleton
<1>3. QED
  BY <1>1, <1>2

\* waitq's contract for any pool, limit, depth and number of requests
\* (waitq.go:21-23, 51-56, 87-91, 103-108): a live ticket is queued once, or popped
\* by one waker, or delivered, and never two of these, whatever the interleaving
\* of releases, expiries and clients that go away.
THEOREM TicketsWhole == Spec => []TicketInOnePlace
<1>1. IInv => TicketInOnePlace
  <2> SUFFICES ASSUME IInv PROVE TicketInOnePlace
    OBVIOUS
  <2>1. \A b \in Backends : Len(waiters[b]) \in Nat /\ Len(waiters[b]) <= Depth
    BY DEF IInv, TypeInv, TicketInv, DepthOK
  <2>2. ASSUME NEW r \in Requests
        PROVE  LET places == {x \in Backends \X (1..Depth) :
                                x[2] <= Len(waiters[x[1]]) /\ waiters[x[1]][x[2]] = r}
                   copies == Cardinality(places) + Cardinality(Signallers(r))
                               + (IF ch[r] THEN 1 ELSE 0)
               IN  /\ copies = (IF HoldsTicket(r) THEN 1 ELSE 0)
                   /\ \A p \in places : p[1] = req[r].on
    <3> DEFINE P == {x \in Backends \X (1..Depth) :
                       x[2] <= Len(waiters[x[1]]) /\ waiters[x[1]][x[2]] = r}
               G == Signallers(r)
    <3>1. \A x \in P : x[1] \in Backends /\ x[2] \in 1..Len(waiters[x[1]])
                       /\ waiters[x[1]][x[2]] = r /\ x = << x[1], x[2] >>
      BY <2>1
    <3>2. \A x \in P : /\ req[r].pc \in Holding /\ req[r].on = x[1] /\ ch[r] = FALSE
                       /\ \A p \in Requests : req[p].sig # r
                       /\ \A j \in 1..Len(waiters[x[1]]) : waiters[x[1]][j] = r => x[2] = j
      BY <3>1 DEF IInv, TicketInv, QueuedOK
    <3>3. \A x, y \in P : x = y
      BY <3>1, <3>2
    <3>4. \A p, q \in G : p = q
      BY DEF Signallers, IInv, TicketInv, SignalOK
    <3>5. G # {} => req[r].pc \in Holding /\ ch[r] = FALSE /\ P = {}
      BY <3>2 DEF Signallers, IInv, TicketInv, SignalOK
    <3>6. P # {} => req[r].pc \in Holding /\ ch[r] = FALSE /\ G = {}
      BY <3>2 DEF Signallers
    <3>7. ch[r] = TRUE => req[r].pc \in Holding /\ P = {} /\ G = {}
      BY <3>5, <3>6 DEF IInv, TicketInv, DeliveredOK
    <3>8. req[r].pc \in Holding => ch[r] = TRUE \/ G # {} \/ P # {}
      <4>1. CASE InQueue(r, req[r].on) /\ req[r].pc \in Holding
        <5>1. req[r].on \in Backends
          BY <4>1 DEF IInv, TypeInv, LocalOK, Holding
        <5>2. PICK i \in 1..Len(waiters[req[r].on]) : waiters[req[r].on][i] = r
          BY <4>1 DEF InQueue
        <5>3. i \in 1..Depth /\ i <= Len(waiters[req[r].on])
          BY <2>1, <5>1, <5>2, DepthAssumption
        <5>4. << req[r].on, i >> \in P
          BY <5>1, <5>2, <5>3
        <5>5. QED
          BY <5>4
      <4>2. QED
        BY <4>1 DEF IInv, TicketInv, HeldOK, Signallers
    <3>9. /\ Cardinality(P) = IF P = {} THEN 0 ELSE 1
          /\ Cardinality(G) = IF G = {} THEN 0 ELSE 1
      BY <3>3, <3>4, AtMostOne
    <3>10. HoldsTicket(r) <=> req[r].pc \in Holding
      BY DEF HoldsTicket, Holding
    <3>11. ch[r] \in BOOLEAN
      BY DEF IInv, TypeInv
    <3>12. \A x \in P : x[1] = req[r].on
      BY <3>2
    <3> HIDE DEF P, G
    <3>13. Cardinality(P) + Cardinality(G) + (IF ch[r] THEN 1 ELSE 0)
             = (IF HoldsTicket(r) THEN 1 ELSE 0)
      BY <3>5, <3>6, <3>7, <3>8, <3>9, <3>10, <3>11
    <3>14. QED
      BY <3>12, <3>13 DEF P, G
  <2>3. QED
    BY <2>1, <2>2 DEF TicketInOnePlace
<1>2. QED
  BY IInvAlways, <1>1, PTL

----------------------------------------------------------------------------
\* The wake for b that a goroutine not in a queue carries.
Token(l, b) ==
  \/ l.pc = "wake" /\ l.wq = b
  \/ l.pc = "send" /\ l.wq = b /\ l.sig # Gone
  \/ l.pc \notin Holding /\ l.queuedOn = b /\ l.res # b

Carries(r, b) ==
  Token(req[r], b) \/ (req[r].pc \in Holding /\ req[r].on = b /\ ch[r] = TRUE)

Carriers(b) == {r \in Requests : Carries(r, b)}

\* The wake of a panicking attempt is already written off.
UnwoundOK ==
  \A r \in Requests :
    /\ req[r].pc \in {"wake", "send"} /\ req[r].ret = "unwound" /\ MustPassOn(req[r])
    => req[r].queuedOn \in lost

SleepersServed ==
  \A b \in Backends \ lost :
    Parked(b) # {} => Limit - inflight[b] <= Cardinality(Carriers(b))

WakeInv == UnwoundOK /\ SleepersServed

\* Serve's return passes an unspent wake on (capacity_retry.go:196-200).
LEMMA AfterServeToken ==
  ASSUME NEW l \in Locals, NEW b \in Backends, l.queuedOn = b, l.res # b
  PROVE  Token(AfterServe(l), b) /\ Token(NobodyLeft(l), b)
<1> DEFINE done == [l EXCEPT !.queuedOn = None, !.rem = {}]
<1>1. MustPassOn(l)
  BY NilAssumption DEF MustPassOn
<1>2. AfterServe(l) = Waking(done, b, "decide") /\ NobodyLeft(l) = Waking(done, b, "ended")
  BY <1>1 DEF AfterServe, NobodyLeft
<1>3. done \in Locals
  BY DEF Locals, Maybe
<1> HIDE DEF done
<1>4. QED
  BY <1>2, <1>3 DEF Waking, Token, Locals

\* A goroutine that Wake or Leave returns to keeps its own unspent wake, unless it
\* is unwinding.
LEMMA ResumeToken ==
  ASSUME NEW l, LocalOK(l), l.pc \in {"wake", "send", "leave"}, l.ret # "unwound",
         NEW b \in Backends, l.queuedOn = b, l.res # b
  PROVE  Token(Resume(l), b)
<1> DEFINE back == [l EXCEPT !.wq = None, !.sig = None, !.ret = "idle"]
<1>1. back \in Locals /\ back.queuedOn = b /\ back.res # b
  BY DEF LocalOK, Locals, Maybe, Rets
<1>2. l.ret \in {"after", "walk", "cands"}
  BY NilAssumption DEF LocalOK, Locals, Rets, Settled
<1>3. CASE l.ret = "after"
  <2>1. Resume(l) = AfterServe(back)
    BY <1>3 DEF Resume
  <2> HIDE DEF back
  <2>2. QED
    BY <1>1, <2>1, AfterServeToken
<1>4. CASE l.ret = "walk"
  <2>1. Resume(l) = [back EXCEPT !.pc = "select", !.rem = back.rem \ {l.on}]
    BY <1>4 DEF Resume
  <2> HIDE DEF back
  <2>2. Resume(l).pc = "select" /\ Resume(l).queuedOn = b /\ Resume(l).res # b
    BY <1>1, <2>1 DEF Locals
  <2>3. QED
    BY <2>2 DEF Token, Holding
<1>5. CASE l.ret = "cands"
  <2>1. Resume(l) = [back EXCEPT !.pc = "cands"]
    BY <1>5 DEF Resume
  <2> HIDE DEF back
  <2>2. Resume(l).pc = "cands" /\ Resume(l).queuedOn = b /\ Resume(l).res # b
    BY <1>1, <2>1 DEF Locals
  <2>3. QED
    BY <2>2 DEF Token, Holding
<1>6. QED
  BY <1>2, <1>3, <1>4, <1>5

\* Only Release makes a wake that returns to a panic.
LEMMA NeverUnwound ==
  /\ \A l \in Locals : /\ AfterServe(l).pc = "wake" => AfterServe(l).ret # "unwound"
                       /\ NobodyLeft(l).pc = "wake" => NobodyLeft(l).ret # "unwound"
                       /\ AfterServe(l).pc # "send" /\ NobodyLeft(l).pc # "send"
  /\ \A l : LocalOK(l) /\ l.pc \in {"wake", "send", "leave"} =>
       /\ Resume(l).pc = "wake" => Resume(l).ret # "unwound"
       /\ Resume(l).pc # "send"
<1>1. ASSUME NEW l \in Locals
      PROVE  /\ AfterServe(l).pc = "wake" => AfterServe(l).ret # "unwound"
             /\ NobodyLeft(l).pc = "wake" => NobodyLeft(l).ret # "unwound"
             /\ AfterServe(l).pc # "send" /\ NobodyLeft(l).pc # "send"
  <2> DEFINE done == [l EXCEPT !.queuedOn = None, !.rem = {}]
  <2>1. done \in Locals
    BY DEF Locals, Maybe
  <2>2. /\ AfterServe(l) = IF MustPassOn(l) THEN Waking(done, l.queuedOn, "decide")
                           ELSE Decide(done)
        /\ NobodyLeft(l) = IF MustPassOn(l) THEN Waking(done, l.queuedOn, "ended")
                           ELSE Fresh
    BY DEF AfterServe, NobodyLeft
  <2> HIDE DEF done
  <2>3. Decide(done).pc \in {"idle", "join", "poll"} /\ Fresh.pc = "idle"
    BY <2>1 DEF Decide, Fresh, Locals
  <2>4. \A b : /\ Waking(done, b, "decide").pc = "wake" /\ Waking(done, b, "decide").ret = "decide"
               /\ Waking(done, b, "ended").pc = "wake" /\ Waking(done, b, "ended").ret = "ended"
    BY <2>1 DEF Waking, Locals
  <2>5. QED
    BY <2>2, <2>3, <2>4
<1>2. ASSUME NEW l, LocalOK(l), l.pc \in {"wake", "send", "leave"}
      PROVE  (Resume(l).pc = "wake" => Resume(l).ret # "unwound") /\ Resume(l).pc # "send"
  <2> DEFINE back == [l EXCEPT !.wq = None, !.sig = None, !.ret = "idle"]
  <2>1. back \in Locals
    BY <1>2 DEF LocalOK, Locals, Maybe, Rets
  <2>2. \/ Resume(l) = AfterServe(back)
        \/ Resume(l).pc # "wake"
    <3>1. CASE l.ret = "after"
      BY <3>1 DEF Resume
    <3>2. CASE l.ret # "after"
      <4>1. Resume(l) \in {Decide(back), [back EXCEPT !.pc = "select", !.rem = back.rem \ {l.on}],
                           [back EXCEPT !.pc = "cands"], Fresh}
        BY <3>2 DEF Resume
      <4>2. Decide(back).pc # "wake" /\ Fresh.pc # "wake"
        BY <2>1 DEF Decide, Fresh, Locals
      <4>3. [back EXCEPT !.pc = "select", !.rem = back.rem \ {l.on}].pc = "select"
            /\ [back EXCEPT !.pc = "cands"].pc = "cands"
        BY <2>1 DEF Locals
      <4>4. QED
        BY <4>1, <4>2, <4>3
    <3>3. QED
      BY <3>1, <3>2
  <2>3. Resume(l).pc # "send"
    BY <1>2, ResumeOK
  <2> HIDE DEF back
  <2>4. QED
    BY <1>1, <2>1, <2>2, <2>3
<1>3. QED
  BY <1>1, <1>2

\* The carriers of b before and after a step, counted.
LEMMA Counting ==
  ASSUME NEW b
  PROVE  /\ Cardinality(Carriers(b)) \in Nat /\ Cardinality(Carriers(b)') \in Nat
         /\ Carriers(b) \subseteq Carriers(b)'
              => Cardinality(Carriers(b)) <= Cardinality(Carriers(b)')
         /\ \A p : Carriers(b) \ {p} \subseteq Carriers(b)'
              => Cardinality(Carriers(b)) - 1 <= Cardinality(Carriers(b)')
         /\ \A q : q \in Carriers(b)' /\ q \notin Carriers(b)
                     /\ Carriers(b) \subseteq Carriers(b)'
              => Cardinality(Carriers(b)) + 1 <= Cardinality(Carriers(b)')
         /\ \A p, q : q \in Carriers(b)' /\ q \notin Carriers(b)
                     /\ Carriers(b) \ {p} \subseteq Carriers(b)'
              => Cardinality(Carriers(b)) <= Cardinality(Carriers(b)')
<1> DEFINE S == Carriers(b)
           T == Carriers(b)'
<1>1. IsFiniteSet(S) /\ IsFiniteSet(T)
  BY RequestsAssumption, FS_Subset DEF Carriers
<1> HIDE DEF S, T
<1>2. Cardinality(S) \in Nat /\ Cardinality(T) \in Nat
  BY <1>1, FS_CardinalityType
<1>3. \A U : U \subseteq T => IsFiniteSet(U) /\ Cardinality(U) <= Cardinality(T)
  BY <1>1, FS_Subset
<1>4. ASSUME NEW p
      PROVE  /\ IsFiniteSet(S \ {p}) /\ Cardinality(S \ {p}) \in Nat
             /\ Cardinality(S) - 1 <= Cardinality(S \ {p})
  <2>1. IsFiniteSet(S \ {p})
        /\ Cardinality(S \ {p}) = IF p \in S THEN Cardinality(S) - 1 ELSE Cardinality(S)
    BY <1>1, FS_RemoveElement
  <2>2. Cardinality(S \ {p}) \in Nat
    BY <2>1, FS_CardinalityType
  <2>3. QED
    BY <1>2, <2>1, <2>2
<1>5. ASSUME NEW q, q \in T, q \notin S, S \subseteq T
      PROVE  Cardinality(S) + 1 <= Cardinality(T)
  <2>1. S \cup {q} \subseteq T
    BY <1>5
  <2>2. Cardinality(S \cup {q}) = Cardinality(S) + 1
    BY <1>1, <1>5, FS_AddElement
  <2>3. QED
    BY <1>3, <2>1, <2>2
<1>6. ASSUME NEW p, NEW q, q \in T, q \notin S, S \ {p} \subseteq T
      PROVE  Cardinality(S) <= Cardinality(T)
  <2>1. (S \ {p}) \cup {q} \subseteq T /\ q \notin S \ {p}
    BY <1>6
  <2>2. Cardinality((S \ {p}) \cup {q}) = Cardinality(S \ {p}) + 1
    BY <1>4, <2>1, FS_AddElement
  <2>3. Cardinality((S \ {p}) \cup {q}) <= Cardinality(T)
    BY <1>3, <2>1
  <2>4. Cardinality(S \ {p}) \in Nat /\ Cardinality(S) - 1 <= Cardinality(S \ {p})
    BY <1>4
  <2>5. QED
    BY <1>2, <2>2, <2>3, <2>4
<1>7. ASSUME NEW p, S \ {p} \subseteq T PROVE Cardinality(S) - 1 <= Cardinality(T)
  <2>1. Cardinality(S \ {p}) <= Cardinality(T)
    BY <1>3, <1>7
  <2>2. Cardinality(S \ {p}) \in Nat /\ Cardinality(S) - 1 <= Cardinality(S \ {p})
    BY <1>4
  <2>3. QED
    BY <1>2, <2>1, <2>2
<1>8. QED
  BY <1>2, <1>3, <1>5, <1>6, <1>7 DEF S, T

\* A wake kept is kept by every goroutine whose locals do not change.
LEMMA OthersCarry ==
  ASSUME TypeInv, NEW r \in Requests, NEW l,
         req' = [req EXCEPT ![r] = l]
  PROVE  /\ req'[r] = l /\ \A p \in Requests \ {r} : req'[p] = req[p]
         /\ \A p \in Requests \ {r} : \A b :
              Carries(p, b) /\ (ch[p] = TRUE => ch'[p] = TRUE) => Carries(p, b)'
<1>1. req'[r] = l /\ \A p \in Requests \ {r} : req'[p] = req[p]
  BY DEF TypeInv
<1>2. QED
  BY <1>1 DEF Carries, Token

\* The panicking attempts after a step of one goroutine.
LEMMA UnwoundStep ==
  ASSUME TypeInv, UnwoundOK, NEW r \in Requests, NEW l,
         req' = [req EXCEPT ![r] = l], lost \subseteq lost',
         l.pc \in {"wake", "send"} /\ l.ret = "unwound" /\ MustPassOn(l) => l.queuedOn \in lost'
  PROVE  UnwoundOK'
<1>1. req'[r] = l /\ \A p \in Requests \ {r} : req'[p] = req[p]
  BY DEF TypeInv
<1>2. QED
  BY <1>1 DEF UnwoundOK, MustPassOn

\* A step of one goroutine that touches no queue, channel or slot, puts nobody to
\* sleep and drops no wake.
LEMMA QuietServed ==
  ASSUME IInv, WakeInv, NEW r \in Requests, NEW l,
         req' = [req EXCEPT ![r] = l], UNCHANGED << waiters, ch, inflight >>,
         lost \subseteq lost', l.pc = "wait" => req[r].pc = "wait",
         l.pc \in {"wake", "send"} /\ l.ret = "unwound" /\ MustPassOn(l) => l.queuedOn \in lost',
         \A b \in Backends \ lost' : Carries(r, b) =>
           Token(l, b) \/ (l.pc \in Holding /\ l.on = b /\ ch[r] = TRUE)
  PROVE  WakeInv'
<1>1. req'[r] = l /\ \A p \in Requests \ {r} : req'[p] = req[p]
  BY OthersCarry DEF IInv
<1>2. UnwoundOK'
  BY UnwoundStep DEF IInv, WakeInv
<1>3. ASSUME NEW b \in Backends \ lost', Parked(b)' # {}
      PROVE  Limit - inflight'[b] <= Cardinality(Carriers(b)')
  <2>1. Parked(b) # {} /\ b \notin lost
    BY <1>1, <1>3 DEF Parked, InQueue
  <2>2. \A p \in Requests : Carries(p, b) => Carries(p, b)'
    <3> SUFFICES ASSUME NEW p \in Requests, Carries(p, b) PROVE Carries(p, b)'
      OBVIOUS
    <3>1. CASE p = r
      BY <1>1, <1>3, <3>1 DEF Carries, Token
    <3>2. CASE p # r
      BY <1>1, <3>2 DEF Carries, Token
    <3>3. QED
      BY <3>1, <3>2
  <2>3. Cardinality(Carriers(b)) <= Cardinality(Carriers(b)')
        /\ Cardinality(Carriers(b)) \in Nat /\ Cardinality(Carriers(b)') \in Nat
    BY <2>2, Counting DEF Carriers
  <2>4. Limit - inflight[b] <= Cardinality(Carriers(b)) /\ inflight[b] \in Int
    BY <2>1 DEF WakeInv, SleepersServed, IInv, TypeInv
  <2>5. QED
    BY <2>3, <2>4, LimitAssumption
<1>4. QED
  BY <1>2, <1>3 DEF WakeInv, SleepersServed

\* Before it is served, and giving up the poll: a wake is passed on or written off
\* with the candidate set found empty (capacity_retry.go:142-200).
LEMMA ChoiceServed ==
  ASSUME IInv, WakeInv, NEW r \in Requests,
         \/ Arrive(r) \/ BudgetSpent(r) \/ HangUpPolling(r) \/ HangUpWaiting(r)
         \/ WaitExpired(r) \/ Candidates(r)
         \/ SelectBackend(r) \/ SelectSaturated(r) \/ SelectGuardBlocked(r)
         \/ Denied(r)
  PROVE  WakeInv'
<1> DEFINE m == req[r]
<1>1. LocalOK(m) /\ m \in Locals /\ UNCHANGED << waiters, ch, inflight >>
  BY DEF IInv, TypeInv, Arrive, BudgetSpent, HangUpPolling, HangUpWaiting, WaitExpired,
         Candidates, SelectBackend, SelectSaturated, SelectGuardBlocked, Denied
<1>2. CASE \/ Arrive(r) \/ BudgetSpent(r) \/ HangUpWaiting(r) \/ WaitExpired(r)
           \/ SelectBackend(r)
  <2>1. PICK l : /\ req' = [req EXCEPT ![r] = l]
                 /\ l.queuedOn = m.queuedOn /\ l.res = m.res
                 /\ \/ /\ m.pc = "wait" /\ l.on = m.on
                       /\ l.pc \in {"wait", "leave"}
                    \/ /\ m.pc \in {"idle", "select"}
                       /\ l.pc \in {"cands", "select", "acquire"}
    <3>1. CASE Arrive(r)
      <4> WITNESS [m EXCEPT !.pc = "cands"]
      <4>1. QED
        BY <1>1, <3>1 DEF Arrive, Locals
    <3>2. CASE BudgetSpent(r)
      <4> WITNESS [m EXCEPT !.expired = TRUE]
      <4>1. QED
        BY <1>1, <3>2 DEF BudgetSpent, Locals
    <3>3. CASE HangUpWaiting(r)
      <4> WITNESS [m EXCEPT !.pc = "leave", !.ret = "abandoned"]
      <4>1. QED
        BY <1>1, <3>3 DEF HangUpWaiting, Locals
    <3>4. CASE WaitExpired(r)
      <4> WITNESS [m EXCEPT !.pc = "leave", !.ret = "expired"]
      <4>1. QED
        BY <1>1, <3>4 DEF WaitExpired, Locals
    <3>5. CASE SelectBackend(r)
      <4>1. PICK b : req' = [req EXCEPT ![r].pc = "acquire", ![r].on = b] /\ m.pc = "select"
        BY <3>5 DEF SelectBackend
      <4> WITNESS [m EXCEPT !.pc = "acquire", !.on = b]
      <4>2. QED
        BY <1>1, <4>1 DEF Locals
    <3>6. QED
      BY <1>2, <3>1, <3>2, <3>3, <3>4, <3>5
  <2>2. lost' = lost
    BY <1>2 DEF Arrive, BudgetSpent, HangUpWaiting, WaitExpired, SelectBackend
  <2>3. \A b \in Backends : Carries(r, b) =>
          Token(l, b) \/ (l.pc \in Holding /\ l.on = b /\ ch[r] = TRUE)
    BY <2>1 DEF Carries, Token, Holding
  <2>4. QED
    BY <1>1, <2>1, <2>2, <2>3, QuietServed DEF Holding
<1>3. CASE HangUpPolling(r)
  <2>1. m.pc = "poll" /\ req' = [req EXCEPT ![r] = Fresh] /\ lost' = lost
    BY <1>3 DEF HangUpPolling
  <2>2. \A b \in Backends : ~Carries(r, b)
    BY <1>1, <2>1, NilAssumption DEF Carries, Token, LocalOK, Holding
  <2>3. QED
    BY <1>1, <2>1, <2>2, FreshOK, QuietServed
<1>4. CASE Candidates(r)
  <2>1. m.pc \in {"cands", "poll"}
    BY <1>4 DEF Candidates
  <2>2. CASE avail = {}
    <3>1. req' = [req EXCEPT ![r] = Fresh] /\ lost' = lost \cup Unspent(r)
      BY <1>4, <2>2 DEF Candidates
    <3>2. \A b \in Backends \ lost' : ~Carries(r, b)
      BY <2>1, <3>1, NilAssumption DEF Carries, Token, Holding, Unspent
    <3>3. QED
      BY <1>1, <3>1, <3>2, FreshOK, QuietServed
  <2>3. CASE avail # {}
    <3> DEFINE l == [m EXCEPT !.pc = "select", !.rem = avail, !.on = None, !.res = None]
    <3>1. req' = [req EXCEPT ![r] = l] /\ lost' = lost
      BY <1>4, <2>3 DEF Candidates
    <3>2. l.pc = "select" /\ l.queuedOn = m.queuedOn /\ l.res = None
      BY <1>1 DEF Locals
    <3> HIDE DEF l
    <3>3. \A b \in Backends : Carries(r, b) => Token(l, b)
      BY <2>1, <3>2, NilAssumption DEF Carries, Token, Holding
    <3>4. QED
      BY <1>1, <3>1, <3>2, <3>3, QuietServed
  <2>4. QED
    BY <2>2, <2>3
<1>5. CASE SelectSaturated(r) \/ SelectGuardBlocked(r)
  <2>1. PICK b \in m.rem \cup {None} :
          req' = [req EXCEPT ![r] = AfterServe([m EXCEPT !.on = b])]
    BY <1>5 DEF SelectSaturated, SelectGuardBlocked
  <2> DEFINE k == [m EXCEPT !.on = b]
  <2>2. lost' = lost /\ m.pc = "select"
    BY <1>5 DEF SelectSaturated, SelectGuardBlocked
  <2>3. k \in Locals /\ k.sig = None /\ k.queuedOn = m.queuedOn /\ k.res = m.res
    BY <1>1, <2>2 DEF LocalOK, Locals, Maybe
  <2> HIDE DEF k
  <2> DEFINE l == AfterServe(k)
  <2>4. req' = [req EXCEPT ![r] = l]
    BY <2>1 DEF k
  <2>5. l.pc # "wait" /\ (l.pc \in {"wake", "send"} => l.ret # "unwound")
    BY <2>3, AfterServeOK, NeverUnwound
  <2>6. \A c \in Backends : Carries(r, c) => Token(l, c)
    BY <2>2, <2>3, AfterServeToken DEF Carries, Token, Holding
  <2> HIDE DEF l
  <2>7. QED
    BY <1>1, <2>2, <2>4, <2>5, <2>6, QuietServed
<1>6. CASE Denied(r)
  <2>1. m.pc = "acquire" /\ lost' = lost
    BY <1>6 DEF Denied
  <2>2. CASE req' = [req EXCEPT ![r] = NobodyLeft(m)]
    <3> DEFINE l == NobodyLeft(m)
    <3>1. l.pc # "wait" /\ (l.pc \in {"wake", "send"} => l.ret # "unwound")
      BY <1>1, <2>1, NobodyLeftOK, NeverUnwound DEF LocalOK
    <3>2. \A c \in Backends : Carries(r, c) => Token(l, c)
      BY <1>1, <2>1, AfterServeToken DEF Carries, Token, Holding
    <3>3. req' = [req EXCEPT ![r] = l]
      BY <2>2
    <3> HIDE DEF l
    <3>4. QED
      BY <1>1, <2>1, <3>1, <3>2, <3>3, QuietServed
  <2>3. CASE req' = [req EXCEPT ![r] = [m EXCEPT !.pc = "select", !.rem = m.rem \ {m.on}]]
    <3> DEFINE l == [m EXCEPT !.pc = "select", !.rem = m.rem \ {m.on}]
    <3>1. l.pc = "select" /\ l.queuedOn = m.queuedOn /\ l.res = m.res
      BY <1>1 DEF Locals
    <3>2. req' = [req EXCEPT ![r] = l]
      BY <2>3
    <3> HIDE DEF l
    <3>3. \A c \in Backends : Carries(r, c) => Token(l, c)
      BY <2>1, <3>1 DEF Carries, Token, Holding
    <3>4. QED
      BY <1>1, <2>1, <3>1, <3>2, <3>3, QuietServed
  <2>4. QED
    BY <1>6, <2>2, <2>3 DEF Denied
<1>7. QED
  BY <1>2, <1>3, <1>4, <1>5, <1>6

\* Nobody falls asleep on a backend with a free slot: the re-check after Join
\* (capacity_retry.go:318-326).
LEMMA CheckServed ==
  ASSUME IInv, WakeInv, NEW r \in Requests, Check(r)
  PROVE  WakeInv'
<1> DEFINE m == req[r]
<1>1. LocalOK(m) /\ m \in Locals /\ UNCHANGED << waiters, ch, inflight, lost >> /\ m.pc = "check"
  BY DEF IInv, TypeInv, Check
<1>2. CASE SlotFree(m.on)
  <2> DEFINE l == [m EXCEPT !.pc = "leave", !.ret = "cands", !.queuedOn = m.on]
  <2>1. req' = [req EXCEPT ![r] = l]
    BY <1>2 DEF Check
  <2>2. l.pc = "leave" /\ l.on = m.on
    BY <1>1 DEF Locals
  <2> HIDE DEF l
  <2>3. \A b \in Backends : Carries(r, b) =>
          Token(l, b) \/ (l.pc \in Holding /\ l.on = b /\ ch[r] = TRUE)
    BY <1>1, <2>2 DEF Carries, Token, Holding
  <2>4. QED
    BY <1>1, <2>1, <2>2, <2>3, QuietServed
<1>3. CASE ~SlotFree(m.on)
  <2> DEFINE l == [m EXCEPT !.pc = "wait"]
  <2>1. req' = [req EXCEPT ![r] = l]
    BY <1>3 DEF Check
  <2>2. l.pc = "wait" /\ l.on = m.on
    BY <1>1 DEF Locals
  <2> HIDE DEF l
  <2>3. req'[r] = l /\ \A p \in Requests \ {r} : req'[p] = req[p]
    BY <2>1, OthersCarry DEF IInv
  <2>4. UnwoundOK'
    BY <1>1, <2>1, <2>2, UnwoundStep DEF IInv, WakeInv
  <2>5. ASSUME NEW b \in Backends \ lost', Parked(b)' # {}
        PROVE  Limit - inflight'[b] <= Cardinality(Carriers(b)')
    <3>1. \A p \in Requests : Carries(p, b) => Carries(p, b)'
      BY <1>1, <2>2, <2>3 DEF Carries, Token, Holding
    <3>2. Cardinality(Carriers(b)) <= Cardinality(Carriers(b)')
          /\ Cardinality(Carriers(b)) \in Nat /\ Cardinality(Carriers(b)') \in Nat
      BY <3>1, Counting DEF Carriers
    <3>3. inflight[b] \in Int
      BY DEF IInv, TypeInv
    <3>4. CASE b = m.on
      BY <1>1, <1>3, <3>2, <3>3, <3>4, LimitAssumption DEF SlotFree
    <3>5. CASE b # m.on
      <4>1. ~InQueue(r, b)
        BY <3>5 DEF InQueue, IInv, TicketInv, QueuedOK
      <4>2. Parked(b) # {}
        BY <1>1, <2>3, <2>5, <4>1 DEF Parked, InQueue
      <4>3. Limit - inflight[b] <= Cardinality(Carriers(b))
        BY <1>1, <2>5, <4>2 DEF WakeInv, SleepersServed
      <4>4. QED
        BY <1>1, <3>2, <3>3, <4>3, LimitAssumption
    <3>6. QED
      BY <3>4, <3>5
  <2>6. QED
    BY <2>4, <2>5 DEF WakeInv, SleepersServed
<1>4. QED
  BY <1>2, <1>3

\* Acquire takes the slot its wake announced (lease.go:127-131).
LEMMA AcquireServed ==
  ASSUME IInv, WakeInv, NEW r \in Requests, Acquire(r)
  PROVE  WakeInv'
<1> DEFINE m == req[r]
           l == [m EXCEPT !.pc = "serving", !.res = m.on]
<1>1. /\ LocalOK(m) /\ m \in Locals /\ UNCHANGED << waiters, ch, lost >> /\ m.pc = "acquire"
      /\ m.on \in Backends /\ req' = [req EXCEPT ![r] = l]
      /\ inflight' = [inflight EXCEPT ![m.on] = inflight[m.on] + 1]
      /\ inflight \in [Backends -> Int]
  BY DEF IInv, TypeInv, Acquire, LocalOK
<1>2. l.pc = "serving" /\ l.queuedOn = m.queuedOn /\ l.res = m.on
  BY <1>1 DEF Locals
<1> HIDE DEF l
<1>3. req'[r] = l /\ \A p \in Requests \ {r} : req'[p] = req[p]
  BY <1>1, OthersCarry DEF IInv
<1>4. UnwoundOK'
  BY <1>1, <1>2, UnwoundStep DEF IInv, WakeInv
<1>5. ASSUME NEW b \in Backends \ lost', Parked(b)' # {}
      PROVE  Limit - inflight'[b] <= Cardinality(Carriers(b)')
  <2>1. Parked(b) # {}
    BY <1>1, <1>2, <1>3, <1>5 DEF Parked, InQueue
  <2>2. Limit - inflight[b] <= Cardinality(Carriers(b)) /\ inflight[b] \in Int
    BY <1>1, <1>5, <2>1 DEF WakeInv, SleepersServed
  <2>3. \A p \in Requests \ {r} : Carries(p, b) => Carries(p, b)'
    BY <1>1, <1>3 DEF Carries, Token
  <2>4. CASE b = m.on
    <3>1. Carriers(b) \ {r} \subseteq Carriers(b)'
      BY <2>3 DEF Carriers
    <3>2. Cardinality(Carriers(b)) - 1 <= Cardinality(Carriers(b)')
          /\ Cardinality(Carriers(b)) \in Nat /\ Cardinality(Carriers(b)') \in Nat
      BY <3>1, Counting
    <3>3. inflight'[b] = inflight[b] + 1
      BY <1>1, <2>4
    <3>4. QED
      BY <2>2, <3>2, <3>3, LimitAssumption
  <2>5. CASE b # m.on
    <3>1. Carries(r, b) => Carries(r, b)'
      BY <1>1, <1>2, <1>3, <2>5 DEF Carries, Token, Holding
    <3>2. Carriers(b) \subseteq Carriers(b)'
      BY <2>3, <3>1 DEF Carriers
    <3>3. Cardinality(Carriers(b)) <= Cardinality(Carriers(b)')
          /\ Cardinality(Carriers(b)) \in Nat /\ Cardinality(Carriers(b)') \in Nat
      BY <3>2, Counting
    <3>4. inflight'[b] = inflight[b]
      BY <1>1, <2>5
    <3>5. QED
      BY <2>2, <3>3, <3>4, LimitAssumption
  <2>6. QED
    BY <2>4, <2>5
<1>6. QED
  BY <1>4, <1>5 DEF WakeInv, SleepersServed

\* Release frees the slot and goes on to wake its queue (lease.go:184-188).
LEMMA ReleaseServed ==
  ASSUME IInv, WakeInv, NEW r \in Requests, NEW how \in {"after", "walk", "unwound"},
         Release(r, how)
  PROVE  WakeInv'
<1> DEFINE m == req[r]
           l == Waking(m, m.on, how)
<1>1. /\ LocalOK(m) /\ m \in Locals /\ UNCHANGED << waiters, ch >> /\ m.pc = "serving"
      /\ m.on \in Backends /\ req' = [req EXCEPT ![r] = l] /\ m.res = m.on
      /\ inflight' = [inflight EXCEPT ![m.on] = inflight[m.on] - 1]
      /\ inflight \in [Backends -> Int]
      /\ lost' = IF how = "unwound" THEN lost \cup Unspent(r) ELSE lost
  BY DEF IInv, TypeInv, Release, LocalOK, Lowered
<1>2. l.pc = "wake" /\ l.queuedOn = m.queuedOn /\ l.res = m.res /\ l.wq = m.on /\ l.ret = how
  BY <1>1 DEF Locals, Waking
<1> HIDE DEF l
<1>3. req'[r] = l /\ \A p \in Requests \ {r} : req'[p] = req[p]
  BY <1>1, OthersCarry DEF IInv
<1>4. UnwoundOK'
  <2>1. lost \subseteq lost'
    BY <1>1
  <2>2. l.ret = "unwound" /\ MustPassOn(l) => l.queuedOn \in lost'
    BY <1>1, <1>2 DEF MustPassOn, Unspent
  <2>3. QED
    BY <1>1, <2>1, <2>2, UnwoundStep DEF IInv, WakeInv
<1>5. ASSUME NEW b \in Backends \ lost', Parked(b)' # {}
      PROVE  Limit - inflight'[b] <= Cardinality(Carriers(b)')
  <2>1. Parked(b) # {} /\ b \notin lost
    BY <1>1, <1>2, <1>3, <1>5 DEF Parked, InQueue
  <2>2. Limit - inflight[b] <= Cardinality(Carriers(b)) /\ inflight[b] \in Int
    BY <1>1, <1>5, <2>1 DEF WakeInv, SleepersServed
  <2>3. \A p \in Requests : Carries(p, b) => Carries(p, b)'
    BY <1>1, <1>2, <1>3 DEF Carries, Token, Holding
  <2>4. Carriers(b) \subseteq Carriers(b)'
    BY <2>3 DEF Carriers
  <2>5. CASE b = m.on
    <3>1. r \in Carriers(b)'
      BY <1>2, <1>3, <2>5 DEF Carriers, Carries, Token
    <3>2. r \notin Carriers(b)
      BY <1>1, <2>5 DEF Carriers, Carries, Token, Holding
    <3>3. Cardinality(Carriers(b)) + 1 <= Cardinality(Carriers(b)')
          /\ Cardinality(Carriers(b)) \in Nat /\ Cardinality(Carriers(b)') \in Nat
      BY <2>4, <3>1, <3>2, Counting
    <3>4. inflight'[b] = inflight[b] - 1
      BY <1>1, <2>5
    <3>5. QED
      BY <2>2, <3>3, <3>4, LimitAssumption
  <2>6. CASE b # m.on
    <3>1. Cardinality(Carriers(b)) <= Cardinality(Carriers(b)')
          /\ Cardinality(Carriers(b)) \in Nat /\ Cardinality(Carriers(b)') \in Nat
      BY <2>4, Counting
    <3>2. inflight'[b] = inflight[b]
      BY <1>1, <2>6
    <3>3. QED
      BY <2>2, <3>1, <3>2, LimitAssumption
  <2>7. QED
    BY <2>5, <2>6
<1>6. QED
  BY <1>4, <1>5 DEF WakeInv, SleepersServed

\* A step that frees no slot, puts nobody to sleep and leaves at least as many
\* carriers.
LEMMA NoFewerCarriers ==
  ASSUME IInv, WakeInv, inflight' = inflight, lost' = lost, UnwoundOK',
         \A b \in Backends : Parked(b)' # {} =>
           /\ Parked(b) # {}
           /\ b \notin lost => Cardinality(Carriers(b)) <= Cardinality(Carriers(b)')
  PROVE  WakeInv'
<1> SUFFICES ASSUME NEW b \in Backends \ lost', Parked(b)' # {}
             PROVE  Limit - inflight'[b] <= Cardinality(Carriers(b)')
  BY DEF WakeInv, SleepersServed
<1>1. Limit - inflight[b] <= Cardinality(Carriers(b)) /\ inflight[b] \in Int
  BY DEF WakeInv, SleepersServed, IInv, TypeInv
<1>2. Cardinality(Carriers(b)) \in Nat /\ Cardinality(Carriers(b)') \in Nat
  BY Counting
<1>3. QED
  BY <1>1, <1>2, LimitAssumption

\* The wake goes from the waker to the ticket it popped, and only a wake of an empty
\* queue vanishes (waitq.go:73-99).
LEMMA WakeServed ==
  ASSUME IInv, WakeInv, NEW r \in Requests, Wake(r)
  PROVE  WakeInv'
<1> DEFINE m == req[r]
           b == m.wq
<1>1. /\ LocalOK(m) /\ m \in Locals /\ m.pc = "wake" /\ b \in Backends
      /\ UNCHANGED << inflight, ch, lost >>
      /\ waiters \in [Backends -> Seq(Requests)] /\ req \in [Requests -> Locals]
  BY DEF Wake, IInv, TypeInv, LocalOK
<1>2. CASE waiters[b] = << >>
  <2> DEFINE l == Resume(m)
  <2>1. l.pc # "wait" /\ (l.pc \in {"wake", "send"} => l.ret # "unwound")
    BY <1>1, ResumeOK, NeverUnwound
  <2>2. req' = [req EXCEPT ![r] = l] /\ waiters' = waiters
    BY <1>2 DEF Wake
  <2>3. \A c \in Backends \ lost : c # b /\ Carries(r, c) => Token(l, c)
    <3> SUFFICES ASSUME NEW c \in Backends \ lost, c # b, Carries(r, c) PROVE Token(l, c)
      OBVIOUS
    <3>1. m.queuedOn = c /\ m.res # c
      BY <1>1 DEF Carries, Token, Holding
    <3>2. m.ret # "unwound"
      BY <1>1, <3>1, NilAssumption DEF WakeInv, UnwoundOK, MustPassOn
    <3>3. QED
      BY <1>1, <3>1, <3>2, ResumeToken
  <2> HIDE DEF l
  <2>4. req'[r] = l /\ \A p \in Requests \ {r} : req'[p] = req[p]
    BY <2>2, OthersCarry DEF IInv
  <2>5. UnwoundOK'
    BY <1>1, <2>1, <2>2, UnwoundStep DEF IInv, WakeInv
  <2>6. ASSUME NEW c \in Backends, Parked(c)' # {}
        PROVE  /\ Parked(c) # {}
               /\ c \notin lost => Cardinality(Carriers(c)) <= Cardinality(Carriers(c)')
    <3>1. Parked(c) # {}
      BY <2>1, <2>2, <2>4, <2>6 DEF Parked, InQueue
    <3>2. c # b
      BY <1>2, <3>1 DEF Parked, InQueue
    <3>3. c \notin lost => \A p \in Requests : Carries(p, c) => Carries(p, c)'
      BY <1>1, <2>3, <2>4, <3>2 DEF Carries, Token
    <3>4. QED
      BY <3>1, <3>3, Counting DEF Carriers
  <2>7. QED
    BY <1>1, <2>5, <2>6, NoFewerCarriers
<1>3. CASE waiters[b] # << >>
  <2> DEFINE t == Head(waiters[b])
             l == [m EXCEPT !.pc = "send", !.sig = t]
             n == Len(waiters[b])
  <2>1. req' = [req EXCEPT ![r] = l] /\ waiters' = [waiters EXCEPT ![b] = Tail(waiters[b])]
    BY <1>1, <1>3 DEF Wake, PopHead
  <2>2. /\ n \in Nat /\ n >= 1 /\ t \in Requests
        /\ Tail(waiters[b]) \in Seq(Requests) /\ Len(Tail(waiters[b])) = n - 1
        /\ \A i \in 1..(n - 1) : Tail(waiters[b])[i] = waiters[b][i + 1]
    BY <1>1, <1>3
  <2>3. /\ l.pc = "send" /\ l.wq = b /\ l.sig = t /\ l.sig # Gone /\ l.ret = m.ret
        /\ l.queuedOn = m.queuedOn /\ l.res = m.res
    BY <1>1, <2>2, NilAssumption DEF Locals
  <2> HIDE DEF l
  <2>4. req'[r] = l /\ \A p \in Requests \ {r} : req'[p] = req[p]
    BY <2>1, OthersCarry DEF IInv
  <2>5. UnwoundOK'
    <3>1. l.ret = "unwound" /\ MustPassOn(l) => l.queuedOn \in lost
      BY <1>1, <2>3 DEF WakeInv, UnwoundOK, MustPassOn
    <3>2. QED
      BY <1>1, <2>1, <3>1, UnwoundStep DEF IInv, WakeInv
  <2>6. ASSUME NEW c \in Backends, Parked(c)' # {}
        PROVE  /\ Parked(c) # {}
               /\ c \notin lost => Cardinality(Carriers(c)) <= Cardinality(Carriers(c)')
    <3>1. PICK q \in Requests : req'[q].pc = "wait"
                  /\ \E i \in 1..Len(waiters'[c]) : waiters'[c][i] = q
      BY <2>6 DEF Parked, InQueue
    <3>2. q # r /\ req[q].pc = "wait"
      BY <2>3, <2>4, <3>1
    <3>3. InQueue(q, c)
      <4>1. PICK i \in 1..Len(waiters'[c]) : waiters'[c][i] = q
        BY <3>1
      <4>2. CASE c = b
        <5>1. waiters'[b] = Tail(waiters[b])
          BY <1>1, <2>1
        <5>2. i + 1 \in 1..n /\ waiters[b][i + 1] = q
          BY <2>2, <4>1, <4>2, <5>1
        <5>3. QED
          BY <4>2, <5>2 DEF InQueue
      <4>3. CASE c # b
        BY <1>1, <2>1, <4>1, <4>3 DEF InQueue
      <4>4. QED
        BY <4>2, <4>3
    <3>4. Parked(c) # {}
      BY <3>2, <3>3 DEF Parked
    <3>5. \A p \in Requests : Carries(p, c) => Carries(p, c)'
      <4> SUFFICES ASSUME NEW p \in Requests, Carries(p, c) PROVE Carries(p, c)'
        OBVIOUS
      <4>1. CASE p = r
        BY <1>1, <2>3, <2>4, <4>1 DEF Carries, Token, Holding
      <4>2. CASE p # r
        BY <1>1, <2>4, <4>2 DEF Carries, Token
      <4>3. QED
        BY <4>1, <4>2
    <3>6. QED
      BY <3>4, <3>5, Counting DEF Carriers
  <2>7. QED
    BY <1>1, <2>5, <2>6, NoFewerCarriers
<1>4. QED
  BY <1>2, <1>3

\* The send of Wake (waitq.go:87-91): the wake was a sender's and is now the
\* ticket's.
LEMMA SendServed ==
  ASSUME IInv, WakeInv, NEW r \in Requests, Send(r)
  PROVE  WakeInv'
<1> DEFINE m == req[r]
           t == m.sig
           l == Resume(m)
<1>1. /\ LocalOK(m) /\ m \in Locals /\ m.pc = "send" /\ t # None /\ m.wq \in Backends
      /\ UNCHANGED << inflight, waiters, lost >> /\ req' = [req EXCEPT ![r] = l]
      /\ ch \in [Requests -> BOOLEAN]
  BY DEF Send, IInv, TypeInv, LocalOK
<1>2. l.pc # "wait" /\ (l.pc \in {"wake", "send"} => l.ret # "unwound")
  BY <1>1, ResumeOK, NeverUnwound
<1>3. \A c \in Backends \ lost : m.queuedOn = c /\ m.res # c => Token(l, c)
  <2> SUFFICES ASSUME NEW c \in Backends \ lost, m.queuedOn = c, m.res # c PROVE Token(l, c)
    OBVIOUS
  <2>1. m.ret # "unwound"
    BY <1>1, NilAssumption DEF WakeInv, UnwoundOK, MustPassOn
  <2>2. QED
    BY <1>1, <2>1, ResumeToken
<1> HIDE DEF l
<1>4. req'[r] = l /\ \A p \in Requests \ {r} : req'[p] = req[p]
  BY <1>1, OthersCarry DEF IInv
<1>5. UnwoundOK'
  BY <1>1, <1>2, UnwoundStep DEF IInv, WakeInv
<1>6. \A q \in Requests : ch[q] = TRUE => ch'[q] = TRUE
  BY <1>1 DEF Send, Locals
<1>7. \A c : \A p \in Requests \ {r} : Carries(p, c) => Carries(p, c)'
  BY <1>4, <1>6 DEF Carries, Token
<1>8. ASSUME NEW c \in Backends, Parked(c)' # {}
      PROVE  /\ Parked(c) # {}
             /\ c \notin lost => Cardinality(Carriers(c)) <= Cardinality(Carriers(c)')
  <2>1. Parked(c) # {}
    BY <1>1, <1>2, <1>4, <1>8 DEF Parked, InQueue
  <2>2. CASE c \notin lost /\ Carries(r, c) /\ ~(m.queuedOn = c /\ m.res # c)
    <3>1. c = m.wq /\ t # Gone
      BY <1>1, <2>2 DEF Carries, Token, Holding
    <3>2. t \in Requests /\ ch' = [ch EXCEPT ![t] = TRUE]
      BY <1>1, <3>1 DEF Send, Locals
    <3>3. req[t].pc \in Holding /\ req[t].on = c /\ ch[t] = FALSE /\ t # r
      BY <1>1, <3>1, <3>2 DEF IInv, TicketInv, SignalOK, Holding
    <3>4. t \in Carriers(c)'
      BY <1>1, <1>4, <3>2, <3>3 DEF Carriers, Carries
    <3>5. t \notin Carriers(c)
      BY <3>3 DEF Carriers, Carries, Token, Holding
    <3>6. Carriers(c) \ {r} \subseteq Carriers(c)'
      BY <1>7 DEF Carriers
    <3>7. QED
      BY <2>1, <3>4, <3>5, <3>6, Counting
  <2>3. CASE c \notin lost /\ (~Carries(r, c) \/ (m.queuedOn = c /\ m.res # c))
    <3>1. Carriers(c) \subseteq Carriers(c)'
      BY <1>3, <1>4, <1>7, <2>3 DEF Carriers, Carries
    <3>2. QED
      BY <2>1, <3>1, Counting
  <2>4. QED
    BY <2>1, <2>2, <2>3
<1>9. QED
  BY <1>1, <1>5, <1>8, NoFewerCarriers

\* Joining and being woken drop no wake.
LEMMA JoinServed ==
  ASSUME IInv, WakeInv, NEW r \in Requests, Join(r)
  PROVE  WakeInv'
<1> DEFINE m == req[r]
           b == m.on
<1>1. /\ LocalOK(m) /\ m \in Locals /\ m.pc = "join" /\ b \in Backends
      /\ UNCHANGED << inflight, lost >>
      /\ waiters \in [Backends -> Seq(Requests)] /\ ch \in [Requests -> BOOLEAN]
      /\ req \in [Requests -> Locals]
  BY DEF Join, IInv, TypeInv, LocalOK
<1>2. \A c \in Backends : ~Carries(r, c)
  BY <1>1, NilAssumption DEF Carries, Token, LocalOK, Holding
<1>3. CASE Full(waiters[b])
  <2>1. req' = [req EXCEPT ![r] = Fresh] /\ UNCHANGED << waiters, ch >>
    BY <1>3 DEF Join
  <2>2. QED
    BY <1>1, <1>2, <2>1, FreshOK, QuietServed
<1>4. CASE ~Full(waiters[b])
  <2> DEFINE l == [m EXCEPT !.pc = "check"]
             n == Len(waiters[b])
  <2>1. /\ req' = [req EXCEPT ![r] = l] /\ ch' = [ch EXCEPT ![r] = FALSE]
        /\ waiters' = [waiters EXCEPT ![b] = Append(waiters[b], r)]
    BY <1>1, <1>4 DEF Join
  <2>2. l.pc = "check"
    BY <1>1 DEF Locals
  <2> HIDE DEF l
  <2>3. req'[r] = l /\ \A p \in Requests \ {r} : req'[p] = req[p]
    BY <2>1, OthersCarry DEF IInv
  <2>4. UnwoundOK'
    BY <1>1, <2>1, <2>2, UnwoundStep DEF IInv, WakeInv
  <2>5. \A p \in Requests \ {r} : ch'[p] = ch[p]
    BY <1>1, <2>1
  <2>6. ASSUME NEW c \in Backends, Parked(c)' # {}
        PROVE  /\ Parked(c) # {}
               /\ c \notin lost => Cardinality(Carriers(c)) <= Cardinality(Carriers(c)')
    <3>1. PICK q \in Requests : req'[q].pc = "wait"
                  /\ \E i \in 1..Len(waiters'[c]) : waiters'[c][i] = q
      BY <2>6 DEF Parked, InQueue
    <3>2. q # r /\ req[q].pc = "wait"
      BY <2>2, <2>3, <3>1
    <3>3. InQueue(q, c)
      <4>1. PICK i \in 1..Len(waiters'[c]) : waiters'[c][i] = q
        BY <3>1
      <4>2. CASE c = b
        <5>1. waiters'[b] = Append(waiters[b], r) /\ waiters[b] \in Seq(Requests)
          BY <1>1, <2>1
        <5>2. Len(waiters'[b]) = n + 1 /\ waiters'[b][n + 1] = r /\ n \in Nat
              /\ \A j \in 1..n : waiters'[b][j] = waiters[b][j]
          BY <5>1
        <5>3. i \in 1..n /\ waiters[b][i] = q
          BY <3>2, <4>1, <4>2, <5>2, SMTT(30)
        <5>4. QED
          BY <4>2, <5>3 DEF InQueue
      <4>3. CASE c # b
        BY <1>1, <2>1, <4>1, <4>3 DEF InQueue
      <4>4. QED
        BY <4>2, <4>3
    <3>4. Parked(c) # {}
      BY <3>2, <3>3 DEF Parked
    <3>5. \A p \in Requests : Carries(p, c) => Carries(p, c)'
      BY <1>2, <2>3, <2>5 DEF Carries, Token
    <3>6. QED
      BY <3>4, <3>5, Counting DEF Carriers
  <2>7. QED
    BY <1>1, <2>4, <2>6, NoFewerCarriers
<1>5. QED
  BY <1>3, <1>4

\* A woken request takes its wake along (capacity_retry.go:296-298).
LEMMA WokenServed ==
  ASSUME IInv, WakeInv, NEW r \in Requests, Woken(r)
  PROVE  WakeInv'
<1> DEFINE m == req[r]
           l == [m EXCEPT !.pc = "cands", !.queuedOn = m.on]
<1>1. /\ LocalOK(m) /\ m \in Locals /\ m.pc = "wait"
      /\ UNCHANGED << inflight, waiters, lost >> /\ req' = [req EXCEPT ![r] = l]
      /\ ch' = [ch EXCEPT ![r] = FALSE] /\ ch \in [Requests -> BOOLEAN]
  BY DEF Woken, IInv, TypeInv
<1>2. l.pc = "cands" /\ l.queuedOn = m.on /\ l.res = None
  BY <1>1 DEF LocalOK, Locals
<1> HIDE DEF l
<1>3. req'[r] = l /\ \A p \in Requests \ {r} : req'[p] = req[p]
  BY <1>1, OthersCarry DEF IInv
<1>4. UnwoundOK'
  BY <1>1, <1>2, UnwoundStep DEF IInv, WakeInv
<1>5. \A p \in Requests \ {r} : ch'[p] = ch[p]
  BY <1>1
<1>6. ASSUME NEW c \in Backends, Parked(c)' # {}
      PROVE  /\ Parked(c) # {}
             /\ c \notin lost => Cardinality(Carriers(c)) <= Cardinality(Carriers(c)')
  <2>1. Parked(c) # {}
    BY <1>1, <1>2, <1>3, <1>6 DEF Parked, InQueue
  <2>2. Carries(r, c) => Carries(r, c)'
    BY <1>1, <1>2, <1>3, NilAssumption DEF Carries, Token, Holding
  <2>3. \A p \in Requests : Carries(p, c) => Carries(p, c)'
    BY <1>3, <1>5, <2>2 DEF Carries, Token
  <2>4. QED
    BY <2>1, <2>3, Counting DEF Carriers
<1>7. QED
  BY <1>1, <1>4, <1>6, NoFewerCarriers

\* Leave on a popped ticket takes the wake over from its sender or its channel
\* (waitq.go:120-135).
LEMMA LeaveServed ==
  ASSUME IInv, WakeInv, NEW r \in Requests, Leave(r)
  PROVE  WakeInv'
<1> DEFINE m == req[r]
           b == m.on
<1>1. /\ LocalOK(m) /\ m \in Locals /\ m.pc = "leave" /\ m.sig = None /\ b \in Backends
      /\ UNCHANGED << inflight, lost >>
      /\ waiters \in [Backends -> Seq(Requests)] /\ ch \in [Requests -> BOOLEAN]
      /\ req \in [Requests -> Locals]
  BY DEF Leave, IInv, TypeInv, LocalOK
<1>2. ASSUME NEW i \in 1..Len(waiters[b]), waiters[b][i] = r,
             waiters' = [waiters EXCEPT ![b] = Without(waiters[b], i)],
             req' = [req EXCEPT ![r] = Resume(m)], ch' = ch
      PROVE  WakeInv'
  <2> DEFINE n == Len(waiters[b])
             l == Resume(m)
  <2>1. l.pc # "wait" /\ (l.pc \in {"wake", "send"} => l.ret # "unwound")
    BY <1>1, ResumeOK, NeverUnwound
  <2>2. req' = [req EXCEPT ![r] = l]
    BY <1>2
  <2> HIDE DEF l
  <2>3. req'[r] = l /\ \A p \in Requests \ {r} : req'[p] = req[p]
    BY <2>2, OthersCarry DEF IInv
  <2>4. UnwoundOK'
    BY <1>1, <2>1, <2>2, UnwoundStep DEF IInv, WakeInv
  <2>5. \A c \in Backends : ~Carries(r, c)
    <3>1. ch[r] = FALSE
      BY <1>1, <1>2 DEF IInv, TicketInv, QueuedOK
    <3>2. QED
      BY <1>1, <3>1 DEF Carries, Token, Holding
  <2>6. waiters[b] \in Seq(Requests)
    BY <1>1
  <2>7. /\ Len(Without(waiters[b], i)) = n - 1 /\ n \in Nat /\ n >= 1
        /\ \A j \in 1..(n - 1) :
             Without(waiters[b], i)[j] = IF j < i THEN waiters[b][j] ELSE waiters[b][j + 1]
    BY <2>6, WithoutFacts
  <2>8. waiters'[b] = Without(waiters[b], i) /\ \A c \in Backends \ {b} : waiters'[c] = waiters[c]
    BY <1>1, <1>2
  <2>9. ASSUME NEW c \in Backends, Parked(c)' # {}
        PROVE  /\ Parked(c) # {}
               /\ c \notin lost => Cardinality(Carriers(c)) <= Cardinality(Carriers(c)')
    <3>1. PICK q \in Requests : req'[q].pc = "wait"
                  /\ \E k \in 1..Len(waiters'[c]) : waiters'[c][k] = q
      BY <2>9 DEF Parked, InQueue
    <3>2. q # r /\ req[q].pc = "wait"
      BY <2>1, <2>3, <3>1
    <3>3. InQueue(q, c)
      <4>1. PICK k \in 1..Len(waiters'[c]) : waiters'[c][k] = q
        BY <3>1
      <4>2. CASE c = b
        <5>1. k \in 1..(n - 1)
          BY <2>7, <2>8, <4>1, <4>2
        <5>2. (IF k < i THEN k ELSE k + 1) \in 1..n
          BY <2>7, <5>1
        <5>3. waiters[b][IF k < i THEN k ELSE k + 1] = q
          BY <2>7, <2>8, <4>1, <4>2, <5>1
        <5>4. QED
          BY <4>2, <5>2, <5>3 DEF InQueue
      <4>3. CASE c # b
        BY <2>8, <4>1, <4>3 DEF InQueue
      <4>4. QED
        BY <4>2, <4>3
    <3>4. Parked(c) # {}
      BY <3>2, <3>3 DEF Parked
    <3>5. \A p \in Requests : Carries(p, c) => Carries(p, c)'
      BY <1>2, <2>3, <2>5 DEF Carries, Token
    <3>6. QED
      BY <3>4, <3>5, Counting DEF Carriers
  <2>10. QED
    BY <1>1, <2>4, <2>9, NoFewerCarriers
<1>3. ASSUME ~InQueue(r, b), waiters' = waiters, ch' = [ch EXCEPT ![r] = FALSE],
             req' = [p \in Requests |->
                       IF p = r THEN AlreadyPopped(req[r], b)
                       ELSE IF req[p].sig = r THEN [req[p] EXCEPT !.sig = Gone]
                       ELSE req[p]]
      PROVE  WakeInv'
  <2>1. req'[r].pc = "wake" /\ req'[r].wq = b /\ req'[r].ret # "unwound"
    <3>1. req'[r] = Waking(m, b, m.ret)
      BY <1>3 DEF AlreadyPopped
    <3>2. m.ret # "unwound"
      BY <1>1 DEF LocalOK
    <3>3. QED
      BY <1>1, <3>1, <3>2 DEF Waking, Locals
  <2>2. \A p \in Requests \ {r} :
          /\ req'[p].pc = req[p].pc /\ req'[p].on = req[p].on /\ req'[p].wq = req[p].wq
          /\ req'[p].queuedOn = req[p].queuedOn /\ req'[p].res = req[p].res
          /\ req'[p].ret = req[p].ret
          /\ req[p].sig # r => req'[p].sig = req[p].sig
    <3> SUFFICES ASSUME NEW p \in Requests \ {r}
                 PROVE  /\ req'[p].pc = req[p].pc /\ req'[p].on = req[p].on
                        /\ req'[p].wq = req[p].wq
                        /\ req'[p].queuedOn = req[p].queuedOn /\ req'[p].res = req[p].res
                        /\ req'[p].ret = req[p].ret
                        /\ req[p].sig # r => req'[p].sig = req[p].sig
      OBVIOUS
    <3>1. req[p] \in Locals
      BY <1>1
    <3>2. req'[p] = req[p] \/ (req[p].sig = r /\ req'[p] = [req[p] EXCEPT !.sig = Gone])
      BY <1>3
    <3>3. QED
      BY <3>1, <3>2 DEF Locals
  <2>3. UnwoundOK'
    BY <1>1, <2>1, <2>2 DEF WakeInv, UnwoundOK, MustPassOn
  <2>4. \A p \in Requests \ {r} : ch'[p] = ch[p]
    BY <1>1, <1>3
  <2>5. \A c \in Backends : \A p \in Requests \ {r} :
          Carries(p, c) /\ (c # b \/ req[p].sig # r) => Carries(p, c)'
    <3> SUFFICES ASSUME NEW c \in Backends, NEW p \in Requests \ {r}, Carries(p, c),
                        c # b \/ req[p].sig # r
                 PROVE  Carries(p, c)'
      OBVIOUS
    <3>1. CASE req[p].sig # r
      BY <2>2, <2>4, <3>1 DEF Carries, Token
    <3>2. CASE req[p].sig = r
      <4>1. req[p].wq = b /\ req[p].pc = "send"
        BY <3>2, NilAssumption DEF IInv, TicketInv, SignalOK, TypeInv, LocalOK
      <4>2. req[p].queuedOn = c /\ req[p].res # c
        BY <3>2, <4>1 DEF Carries, Token, Holding
      <4>3. QED
        BY <2>2, <4>1, <4>2 DEF Carries, Token, Holding
    <3>3. QED
      BY <3>1, <3>2
  <2>6. ASSUME NEW c \in Backends, Parked(c)' # {}
        PROVE  /\ Parked(c) # {}
               /\ c \notin lost => Cardinality(Carriers(c)) <= Cardinality(Carriers(c)')
    <3>1. Parked(c) # {}
      BY <1>3, <2>1, <2>2, <2>6 DEF Parked, InQueue
    <3>2. CASE c # b
      <4>1. ~Carries(r, c)
        BY <1>1, <3>2 DEF Carries, Token, Holding
      <4>2. Carriers(c) \subseteq Carriers(c)'
        BY <2>5, <3>2, <4>1 DEF Carriers
      <4>3. QED
        BY <3>1, <4>2, Counting
    <3>3. CASE c = b
      <4>1. r \in Carriers(c)'
        BY <2>1, <3>3 DEF Carriers, Carries, Token
      <4>2. CASE ch[r] = TRUE
        <5>1. \A p \in Requests : req[p].sig # r
          BY <4>2 DEF IInv, TicketInv, SignalOK
        <5>2. Carriers(c) \subseteq Carriers(c)'
          BY <1>1, <2>5, <4>1, <5>1 DEF Carriers
        <5>3. QED
          BY <3>1, <3>3, <5>2, Counting
      <4>3. CASE ch[r] # TRUE
        <5>1. PICK p \in Requests : req[p].sig = r
          BY <1>1, <1>3, <4>3 DEF IInv, TicketInv, HeldOK, Holding
        <5>2. \A q \in Requests : req[q].sig = r => q = p
          BY <5>1 DEF IInv, TicketInv, SignalOK
        <5>3. r \notin Carriers(c)
          BY <1>1, <3>3, <4>3 DEF Carriers, Carries, Token, Holding
        <5>4. Carriers(c) \ {p} \subseteq Carriers(c)'
          BY <1>1, <2>5, <5>2, <5>3 DEF Carriers
        <5>5. QED
          BY <3>1, <3>3, <4>1, <5>3, <5>4, Counting
      <4>4. QED
        BY <4>2, <4>3
    <3>4. QED
      BY <3>2, <3>3
  <2>7. QED
    BY <1>1, <2>3, <2>6, NoFewerCarriers
<1>4. QED
  BY <1>2, <1>3 DEF Leave

\* Every free slot a sleeper could use has a wake under way, at every step.
LEMMA WakeInvAlways == Spec => [](IInv /\ WakeInv)
<1>1. Init => WakeInv
  <2> SUFFICES ASSUME Init PROVE WakeInv
    OBVIOUS
  <2>1. \A b \in Backends : Parked(b) = {}
    BY DEF Init, Parked, Fresh
  <2>2. UnwoundOK
    BY DEF Init, UnwoundOK, Fresh
  <2>3. QED
    BY <2>1, <2>2 DEF WakeInv, SleepersServed
<1>2. IInv /\ WakeInv /\ [Next]_vars => WakeInv'
  <2> SUFFICES ASSUME IInv, WakeInv, [Next]_vars PROVE WakeInv'
    OBVIOUS
  <2>1. CASE UNCHANGED << inflight, waiters, ch, req, lost >>
    <3>1. \A b : Parked(b)' = Parked(b) /\ Carriers(b)' = Carriers(b)
      BY <2>1 DEF Parked, InQueue, Carriers, Carries, Token
    <3>2. QED
      BY <2>1, <3>1 DEF WakeInv, UnwoundOK, MustPassOn, SleepersServed
  <2>2. ASSUME NEW r \in Requests,
               \/ Arrive(r) \/ BudgetSpent(r) \/ HangUpPolling(r) \/ HangUpWaiting(r)
               \/ Step(r)
        PROVE  WakeInv'
    BY <2>2, ChoiceServed, CheckServed, AcquireServed, ReleaseServed, WakeServed, SendServed,
       JoinServed, WokenServed, LeaveServed
    DEF Step
  <2>3. QED
    BY <2>1, <2>2 DEF Next, Flap, vars
<1>3. QED
  BY IInvAlways, <1>1, <1>2, PTL DEF Spec

\* No freed slot is forgotten, for any pool, limit, depth and number of requests
\* (waitq.go:69-72, lease.go:184-188, capacity_retry.go:196-200): while a request
\* sleeps in a queue, every free slot of its backend has a wake on its way, through
\* any interleaving of releases, expiries, refusals and re-checks, unless a wake
\* died with a panicking or candidate-less holder.
THEOREM NoSlotForgotten == Spec => []FreeSlotHasWake
<1>1. IInv /\ WakeInv => FreeSlotHasWake
  <2> SUFFICES ASSUME IInv, WakeInv, NEW b \in Backends \ lost, Parked(b) # {}
               PROVE  Limit - inflight[b]
                        <= Cardinality({r \in Requests : CarriesWake(r, b)})
    BY DEF FreeSlotHasWake
  <2> DEFINE C == {r \in Requests : CarriesWake(r, b)}
  <2>1. Carriers(b) \subseteq C
    <3>1. \A r \in Requests : ch[r] \in BOOLEAN
      BY DEF IInv, TypeInv
    <3>2. QED
      BY <3>1 DEF Carriers, Carries, Token, CarriesWake, HoldsTicket, Holding
  <2>2. IsFiniteSet(C)
    BY RequestsAssumption, FS_Subset
  <2> HIDE DEF C
  <2>3. Cardinality(Carriers(b)) <= Cardinality(C)
        /\ Cardinality(Carriers(b)) \in Nat /\ Cardinality(C) \in Nat
    BY <2>1, <2>2, FS_Subset, FS_CardinalityType, Counting
  <2>4. Limit - inflight[b] <= Cardinality(Carriers(b)) /\ inflight[b] \in Int
    BY DEF WakeInv, SleepersServed, IInv, TypeInv
  <2>5. Limit - inflight[b] <= Cardinality(C)
    BY <2>3, <2>4, LimitAssumption
  <2>6. QED
    BY <2>5 DEF C
<1>2. QED
  BY WakeInvAlways, <1>1, PTL
============================================================================
