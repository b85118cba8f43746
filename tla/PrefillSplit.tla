---------------------------- MODULE PrefillSplit ----------------------------
(***************************************************************************)
(* The prefill split: the Manager that moves nodes between decode,         *)
(* draining and prefill (prefill/manager.go), and the requests that use it *)
(* (gateway/prefill_split.go), each refused by its backend as a large      *)
(* prefill.                                                                *)
(*                                                                         *)
(* A node object is named <<url, epoch>>: Prune forgets a departed URL     *)
(* while jobs still point to its object, and a URL that returns gets a new *)
(* one.  Every method runs under the manager's lock and is one action;     *)
(* WaitReady's loop is one action per pass, because the lock is dropped    *)
(* between passes.  Ordinary decode requests are counted per URL: chosen   *)
(* from DecodeNodes, then in flight once they hold their lease.            *)
(***************************************************************************)
EXTENDS Integers, Sequences, FiniteSets, FiniteSetsExt, SequencesExt

CONSTANTS
  Urls,          \* the pool's backends
  Jobs,          \* rejected requests
  Sizes,         \* the prompt sizes a rejection may name, 0 for none
  Budget,        \* Config.NodeBudgetTokens
  Share,         \* Config.MaxFleetFraction, in percent
  Slots,         \* Config.NodeConcurrency, 0 for none
  ConvertAfter,  \* Config.ConvertAfter, in ticks
  ReleaseIdle,   \* Config.ReleaseIdle, in ticks
  MaxDecode,     \* bound: decode requests chosen or in flight on one backend
  MaxEpoch,      \* bound: times a URL is forgotten
  Flaky,         \* the backends that may leave or fail
  Busy,          \* bound: the backends that ordinary requests choose
  Off            \* the zero time

ASSUME SplitAssumption ==
  /\ IsFiniteSet(Urls) /\ Urls # {} /\ IsFiniteSet(Jobs) /\ Flaky \subseteq Urls
  /\ Off \notin Nat \cup (Urls \X Nat)
  /\ Sizes \subseteq Nat /\ Budget \in Nat \ {0} /\ Share \in 1..100
  /\ Slots \in Nat /\ ConvertAfter \in Nat /\ ReleaseIdle \in Nat
  /\ MaxDecode \in Nat /\ MaxEpoch \in Nat

VARIABLES
  node,    \* object -> [mode, pending, running, queue, over, idle]
  epoch,   \* url -> its current object
  job,     \* request -> [at, obj, held, tokens]
  chosen,  \* url -> decode requests that chose it and hold no lease yet
  decode,  \* url -> decode requests in flight
  known,   \* the registry's backends
  up       \* those that are available

splitVars == << node, epoch, job, chosen, decode, known, up >>

Objs == (Urls \X {0}) \cup (Flaky \X (1..MaxEpoch))
Fresh == [mode |-> "decode", pending |-> 0, running |-> 0, queue |-> << >>,
          over |-> Off, idle |-> Off]
NoJob == [at |-> "rejected", obj |-> Off, held |-> FALSE, tokens |-> 0]
Cur(u) == << u, epoch[u] >>
Mode(u) == node[Cur(u)].mode

SplitInit ==
  /\ node = [o \in Objs |-> Fresh]
  /\ epoch = [u \in Urls |-> 0]
  /\ job = [j \in Jobs |-> NoJob]
  /\ chosen = [u \in Urls |-> 0] /\ decode = [u \in Urls |-> 0]
  /\ known = Urls /\ up = Urls

\* In WaitReady: its first loop, which a job enters as it is reserved, and its second.
InWaitReady == {"draining", "waiting"}

\* What the job was charged.
Tokens(j) == job[j].tokens

\* Backend.Inflight: decode requests and dispatched jobs.
Inflight(u) ==
  decode[u] + Cardinality({j \in Jobs : job[j].at = "running" /\ job[j].obj[1] = u})

----------------------------------------------------------------------------
(* Ordinary routing. *)

\* Manager.DecodeNodes: never nothing.
DecodeNodes(cands) ==
  LET d == {u \in cands : Mode(u) = "decode"} IN IF d = {} THEN cands ELSE d

\* A decode request selects u ...
ChooseDecode(u) ==
  /\ u \in DecodeNodes(up) \cap Busy
  /\ MapThenSumSet(LAMBDA v : chosen[v] + decode[v], Urls) < MaxDecode
  /\ chosen' = [chosen EXCEPT ![u] = @ + 1]
  /\ UNCHANGED << node, epoch, job, decode, known, up >>

\* ... takes its lease ...
StartDecode(u) ==
  /\ chosen[u] > 0
  /\ chosen' = [chosen EXCEPT ![u] = @ - 1]
  /\ decode' = [decode EXCEPT ![u] = @ + 1]
  /\ UNCHANGED << node, epoch, job, known, up >>

\* ... and ends.
EndDecode(u) ==
  /\ decode[u] > 0
  /\ decode' = [decode EXCEPT ![u] = @ - 1]
  /\ UNCHANGED << node, epoch, job, chosen, known, up >>

----------------------------------------------------------------------------
(* Reserve. *)

\* canConvertLocked: floor of the share, and the last decode node never.
CanConvert(cands, spare, plain) ==
  plain > 1 /\ spare < Min({(cands * Share) \div 100, cands - 1})

\* overflowedLongEnoughLocked: of the least pending nodes, any may be looked at.
OverflowedLongEnough(spare) ==
  \/ ConvertAfter = 0 \/ spare = {}
  \/ \E u \in spare : /\ \A v \in spare : node[Cur(u)].pending <= node[Cur(v)].pending
                      /\ node[Cur(u)].over # Off /\ node[Cur(u)].over >= ConvertAfter

\* trackBudgetLocked.
Tracked(n) ==
  [n EXCEPT !.over = IF n.pending <= Budget THEN Off ELSE IF @ = Off THEN 0 ELSE @]

Spare(cands) == {u \in cands : Mode(u) # "decode"}
Eligible(cands, t) ==
  {u \in Spare(cands) : node[Cur(u)].pending = 0 \/ node[Cur(u)].pending + t <= Budget}

\* The node a job of t tokens goes to, and whether it is drained for it.
Placements(cands, t) ==
  LET fit == Eligible(cands, t)
      spare == Spare(cands)
      plain == cands \ spare
      p(u) == node[Cur(u)].pending
  IN  IF fit # {} THEN {[to |-> u, drain |-> FALSE] : u \in {v \in fit : \A w \in fit : p(w) <= p(v)}}
      ELSE IF CanConvert(Cardinality(cands), Cardinality(spare), Cardinality(plain))
              /\ OverflowedLongEnough(spare)
      THEN {[to |-> u, drain |-> TRUE] :
              u \in {v \in plain : \A w \in plain : Inflight(v) <= Inflight(w)}}
      ELSE {[to |-> u, drain |-> FALSE] : u \in {v \in spare : \A w \in spare : p(v) <= p(w)}}

\* The node as the job joins its queue.
Joined(n, j, t, drain) ==
  [n EXCEPT !.mode = IF drain THEN "draining" ELSE @, !.pending = @ + t, !.idle = Off,
            !.queue = Append(@, j)]

\* Manager.Reserve from splitAndServe: at least a token is charged.
Reserve(j, size) ==
  LET t == Max({1, size}) IN
  /\ job[j].at = "rejected"
  /\ \E q \in Placements(up, t) :
       LET o == Cur(q.to) IN
       /\ node' = [node EXCEPT ![o] = Tracked(Joined(node[o], j, t, q.drain))]
       /\ job' = [job EXCEPT ![j] = [at |-> "draining", obj |-> o, held |-> FALSE, tokens |-> t]]
  /\ UNCHANGED << epoch, chosen, decode, known, up >>

\* ErrNoPrefillNode: serveOnOriginal.
NoNode(j) ==
  /\ job[j].at = "rejected" /\ Placements(up, 1) = {}
  /\ job' = [job EXCEPT ![j].at = "over"]
  /\ UNCHANGED << node, epoch, chosen, decode, known, up >>

----------------------------------------------------------------------------
(* WaitReady and Done. *)

\* The jobs grantLocked gives a slot, in the queue's order.
Granted(o, n) ==
  LET free == IF Slots = 0 THEN Len(n.queue)
              ELSE IF Inflight(o[1]) >= Slots THEN 0 ELSE Max({0, Slots - n.running})
  IN  IF n.mode = "draining" THEN << >> ELSE SubSeq(n.queue, 1, Min({free, Len(n.queue)}))

Grant(o, n) ==
  LET g == Granted(o, n) IN
  [n EXCEPT !.running = @ + Len(g), !.queue = SubSeq(@, Len(g) + 1, Len(@))]

Holding(o, n, f) == [i \in Jobs |-> IF i \in ToSet(Granted(o, n)) THEN [f[i] EXCEPT !.held = TRUE] ELSE f[i]]

\* A pass of WaitReady: in its first loop while the node drains, then in its second.
Poll(j) ==
  LET o == job[j].obj
      n == IF node[o].mode = "draining" /\ Inflight(o[1]) = 0
           THEN [node[o] EXCEPT !.mode = "prefill"] ELSE node[o]
  IN  /\ job[j].at \in InWaitReady
      /\ node' = [node EXCEPT ![o] = Grant(o, n)]
      /\ job' = [Holding(o, n, job) EXCEPT
                   ![j].at = IF n.mode = "draining" THEN "draining" ELSE "waiting"]
      /\ UNCHANGED << epoch, chosen, decode, known, up >>

\* dequeueLocked, and the slot handed on if the job held one.
Dequeued(j, n) ==
  LET at == {i \in DOMAIN n.queue : n.queue[i] = j} IN
  IF at = {} THEN n ELSE [n EXCEPT !.queue = RemoveAt(@, Min(at))]
Returned(j, o, n) ==
  IF job[j].held THEN Grant(o, [n EXCEPT !.running = @ - 1]) ELSE n
ReturnedJobs(j, o, n) ==
  LET f == [job EXCEPT ![j].held = FALSE] IN
  IF job[j].held THEN Holding(o, [n EXCEPT !.running = @ - 1], f) ELSE f

\* The caller leaves while its job waits: only the second loop cleans up.
Leave(j) ==
  LET o == job[j].obj
      n == Dequeued(j, node[o])
  IN  /\ \/ /\ job[j].at = "draining"
            /\ job' = [job EXCEPT ![j].at = "leaving"]
            /\ UNCHANGED node
         \/ /\ job[j].at = "waiting"
            /\ node' = [node EXCEPT ![o] = Returned(j, o, n)]
            /\ job' = [ReturnedJobs(j, o, n) EXCEPT ![j].at = "leaving"]
      /\ UNCHANGED << epoch, chosen, decode, known, up >>

\* runPrefillJob: an attempt begins, on the job's slot.
Dispatch(j) ==
  /\ job[j].at \in {"waiting", "backoff"} /\ job[j].held
  /\ job' = [job EXCEPT ![j].at = "running"]
  /\ UNCHANGED << node, epoch, chosen, decode, known, up >>

\* The node answers 429: the slot is kept.
JobRefused(j) ==
  /\ job[j].at = "running"
  /\ job' = [job EXCEPT ![j].at = "backoff"]
  /\ UNCHANGED << node, epoch, chosen, decode, known, up >>

\* The job ends, well or badly, or its caller leaves while it backs off.
JobEnds(j) ==
  /\ job[j].at \in {"running", "backoff"}
  /\ job' = [job EXCEPT ![j].at = "leaving"]
  /\ UNCHANGED << node, epoch, chosen, decode, known, up >>

Idle(n) == n.pending = 0 /\ n.running = 0 /\ n.queue = << >>

\* releaseIfIdleLocked.
Released(n) ==
  IF n.mode = "decode" \/ ~Idle(n) THEN n
  ELSE IF n.mode = "prefill" /\ ReleaseIdle > 0
  THEN [n EXCEPT !.idle = IF @ = Off THEN 0 ELSE @]
  ELSE [n EXCEPT !.mode = "decode", !.idle = Off]

\* Mutant: the slot of a finished job is not handed on.
Done_KeepsSlot(j) ==
  LET o == job[j].obj
      n == Dequeued(j, node[o])
  IN  /\ job[j].at = "leaving"
      /\ node' = [node EXCEPT ![o] = Released(Tracked([n EXCEPT !.pending = @ - Tokens(j)]))]
      /\ job' = [job EXCEPT ![j] = [NoJob EXCEPT !.at = "over"]]
      /\ UNCHANGED << epoch, chosen, decode, known, up >>

\* Job.Done, after which the request is served by a decode node, or its caller gone.
Done(j) ==
  LET o == job[j].obj
      n == Dequeued(j, node[o])
  IN  /\ job[j].at = "leaving"
      /\ node' = [node EXCEPT ![o] =
           Released(Tracked([Returned(j, o, n) EXCEPT !.pending = @ - Tokens(j)]))]
      /\ job' = [ReturnedJobs(j, o, n) EXCEPT ![j] = [NoJob EXCEPT !.at = "over"]]
      /\ UNCHANGED << epoch, chosen, decode, known, up >>

----------------------------------------------------------------------------
(* Manager.Run, the registry, time, and the next rejected request. *)

\* releaseExpired.
ReleaseExpired ==
  LET late == {o \in Objs : /\ o = Cur(o[1]) /\ node[o].mode = "prefill"
                            /\ node[o].idle # Off /\ node[o].idle >= ReleaseIdle}
  IN  /\ late # {}
      /\ node' = [o \in Objs |->
           IF o \in late THEN [node[o] EXCEPT !.mode = "decode", !.idle = Off] ELSE node[o]]
      /\ UNCHANGED << epoch, job, chosen, decode, known, up >>

\* Prune: a departed URL's object is forgotten, not changed.
Prune ==
  LET out == {u \in Urls \ known : node[Cur(u)] # Fresh} IN
  /\ out # {} /\ MapThenSumSet(LAMBDA u : epoch[u], Urls) + Cardinality(out) <= MaxEpoch
  /\ epoch' = [u \in Urls |-> IF u \in out THEN epoch[u] + 1 ELSE epoch[u]]
  /\ UNCHANGED << node, job, chosen, decode, known, up >>

\* Backends fail, recover, leave and return.
Membership(k, h) ==
  /\ h \subseteq k /\ << k, h >> # << known, up >>
  /\ Urls \ h \subseteq Flaky
  /\ known' = k /\ up' = h
  /\ UNCHANGED << node, epoch, job, chosen, decode >>

\* Time passes.
SplitTick ==
  LET Later(t, max) == IF t = Off \/ t >= max THEN t ELSE t + 1
      next == [o \in Objs |-> [node[o] EXCEPT !.over = Later(@, ConvertAfter),
                                              !.idle = Later(@, ReleaseIdle)]]
  IN  /\ next # node
      /\ node' = next
      /\ UNCHANGED << epoch, job, chosen, decode, known, up >>

\* Another request is refused.
Another(j) ==
  /\ job[j].at = "over"
  /\ job' = [job EXCEPT ![j] = NoJob]
  /\ UNCHANGED << node, epoch, chosen, decode, known, up >>

JobStep(j) == NoNode(j) \/ (\E t \in Sizes : Reserve(j, t)) \/ Dispatch(j) \/ JobEnds(j) \/ Done(j)

SplitNext ==
  \/ \E j \in Jobs : JobStep(j) \/ Poll(j) \/ Leave(j) \/ JobRefused(j) \/ Another(j)
  \/ \E u \in Urls : ChooseDecode(u) \/ StartDecode(u) \/ EndDecode(u)
  \/ ReleaseExpired \/ Prune \/ SplitTick
  \/ \E k \in SUBSET Urls, h \in SUBSET Urls : Membership(k, h)

SplitSpec == SplitInit /\ [][SplitNext]_splitVars

----------------------------------------------------------------------------
Charged(o) == {j \in Jobs : job[j].obj = o /\ job[j].at \notin {"rejected", "over"}}

\* The charge of a node is exactly its unfinished jobs, its slots exactly the jobs
\* that hold one, its queue exactly the others in some order (manager.go:156-171,
\* 362-393): through cancellations that race a grant, retries and forgotten nodes.
JobsAccounted ==
  \A o \in Objs :
    LET mine == Charged(o)
        waits == {j \in mine : ~job[j].held /\ j \in ToSet(node[o].queue)}
    IN  /\ node[o].pending = MapThenSumSet(Tokens, mine)
        /\ node[o].running = Cardinality({j \in mine : job[j].held})
        /\ Len(node[o].queue) = Cardinality(waits)
        /\ \A j \in mine : job[j].at \in InWaitReady => job[j].held \/ j \in waits

\* A job has a slot only on a node that is out of decode (manager.go:8-15, 456-459):
\* no node goes back while a job that counts on it is left.
SlotsOnPrefill ==
  \A j \in Jobs : job[j].held => node[job[j].obj].mode = "prefill"

\* "At least one node always stays in decode" (manager.go:68): whatever subset of the
\* fleet was healthy at each conversion.
DecodeRemains == \E u \in Urls : Mode(u) = "decode"

\* The three together: the manager's books agree with the jobs under way, and the
\* fleet keeps a decode node.
SplitSound == JobsAccounted /\ SlotsOnPrefill /\ DecodeRemains
============================================================================
