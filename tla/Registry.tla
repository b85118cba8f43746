------------------------------ MODULE Registry ------------------------------
(***************************************************************************)
(* Backend membership (internal/registry), with the affinity policy's own  *)
(* index of backends that follows it through the OnAdd and OnDrop hooks.   *)
(*                                                                         *)
(* Writers are the admin endpoints and the discovery loop; every Remove    *)
(* starts a goroutine that waits for the backend to drain, and unlinks it. *)
(* Requests use a candidate they read from some earlier snapshot.          *)
(* Registry.mu covers Add with its hook, and the publication in unlink;    *)
(* OnDrop runs after it is released.                                       *)
(*                                                                         *)
(* The hooks' other effect, on the slots of the prefix tree, is module     *)
(* PrefixSlots.  Health and circuit state are left open: a request may use *)
(* any backend that is registered and not draining.                        *)
(***************************************************************************)
EXTENDS Integers, FiniteSets

CONSTANTS
  Urls,      \* canonical backend URLs
  Objects,   \* *Backend values; one nothing refers to is collected and reused
  Writers,   \* admin and discovery calls under way at once
  Drainers,  \* bound: awaitDrain goroutines alive at once
  Requests,  \* inference requests under way at once
  None       \* nil

ASSUME NoneAssumption == None \notin Urls \cup Objects \cup Writers

VARIABLES
  cur,       \* the current Snapshot: URL -> *Backend
  obj,       \* the backends: url, prov, draining, inflight
  mu,        \* the holder of Registry.mu while Add runs its hook
  writer,    \* locals of each writer
  drainer,   \* locals of each awaitDrain goroutine
  request,   \* locals of each request
  index,     \* affinity.Policy.backends
  raced,     \* history: URLs last added with an OnDrop for them still to come
  revived    \* history: what others put in service during each writer's sweep

history == << raced, revived >>
vars == << cur, obj, mu, writer, drainer, request, index, history >>

\* A writer is one admin call or one ReconcileDiscovered: the backend it is
\* working on, the desired set, what is left to add, and what is left of the
\* snapshot to drain.
NoCall == [pc |-> "idle", o |-> None, want |-> {}, todo |-> {}, left |-> {}]
Idle == [pc |-> "idle", o |-> None]
Collected == [url |-> None, prov |-> "static", draining |-> FALSE, inflight |-> 0]

Init ==
  /\ cur = [u \in Urls |-> None]
  /\ obj = [o \in Objects |-> Collected]
  /\ mu = None
  /\ writer = [w \in Writers |-> NoCall]
  /\ drainer = [d \in Drainers |-> Idle]
  /\ request = [r \in Requests |-> Idle]
  /\ index = [u \in Urls |-> None]
  /\ raced = {} /\ revived = [w \in Writers |-> {}]

Registered == {o \in Objects : \E u \in Urls : cur[u] = o}

Referenced(o) ==
  \/ o \in Registered
  \/ \E u \in Urls : index[u] = o
  \/ \E w \in Writers : writer[w].o = o \/ o \in writer[w].left
  \/ \E d \in Drainers : drainer[d].o = o
  \/ \E r \in Requests : request[r].o = o

\* A step leaves the backends as f; those nothing refers to any more are collected.
Heap(f) == obj' = [o \in Objects |-> IF Referenced(o)' THEN f[o] ELSE Collected]

Url(l) == obj[l.o].url

----------------------------------------------------------------------------
(* Writers. *)

\* Discovery must never override a static entry.
MayUpdate(b, prov) == ~(b.prov = "static" /\ prov = "discovered")

\* What has been put in service during each sweep, u now too.
Revived(u) ==
  [w \in Writers |-> IF writer[w].pc = "sweep" THEN revived[w] \cup {u} ELSE revived[w]]

\* Add of a URL that is registered: updated in place, and no longer draining.
AddExisting(u, prov) ==
  /\ cur[u] # None
  /\ UNCHANGED << cur, mu, drainer, request, index, raced >>
  /\ IF MayUpdate(obj[cur[u]], prov)
     THEN /\ Heap([obj EXCEPT ![cur[u]].draining = FALSE])
          /\ revived' = IF obj[cur[u]].draining THEN Revived(u) ELSE revived
     ELSE Heap(obj) /\ UNCHANGED revived

\* The OnDrop hook of a backend that was taken out of u is still to run.
DropPending(u) == \E d \in Drainers : drainer[d].pc = "drop" /\ Url(drainer[d]) = u

\* Add of a new URL up to publishLocked; mu stays held for the hook.
AddNew(w, u, prov, o) ==
  /\ cur[u] = None
  /\ ~Referenced(o)
  /\ cur' = [cur EXCEPT ![u] = o]
  /\ mu' = w
  /\ raced' = IF DropPending(u) THEN raced \cup {u} ELSE raced \ {u}
  /\ revived' = Revived(u)
  /\ UNCHANGED << drainer, request, index >>
  /\ Heap([obj EXCEPT ![o] =
        [url |-> u, prov |-> prov, draining |-> FALSE, inflight |-> 0]])

\* An admin call registers a backend.
AdminAdd(w, u) ==
  /\ writer[w].pc = "idle" /\ mu = None
  /\ \/ UNCHANGED writer /\ AddExisting(u, "static")
     \/ \E o \in Objects :
          /\ writer' = [writer EXCEPT ![w].pc = "hook", ![w].o = o]
          /\ AddNew(w, u, "static", o)

\* The OnAdd hook: the backend enters the policy's index, and Add returns to its
\* caller or to the loop of ReconcileDiscovered.
AddHook(w) ==
  /\ writer[w].pc = "hook"
  /\ index' = [index EXCEPT ![Url(writer[w])] = writer[w].o]
  /\ mu' = None
  /\ writer' = [writer EXCEPT ![w] =
       IF @.want = {} THEN NoCall ELSE [@ EXCEPT !.pc = "add", !.o = None]]
  /\ UNCHANGED << cur, drainer, request, history >>
  /\ Heap(obj)

\* Remove up to its unlock: the backend is looked up.
Remove(w, u) ==
  /\ writer[w].pc = "idle" /\ mu = None
  /\ cur[u] # None
  /\ writer' = [writer EXCEPT ![w].pc = "drain", ![w].o = cur[u]]
  /\ UNCHANGED << cur, obj, mu, drainer, request, index, history >>

\* drain: only the call that sets draining starts the goroutine.
StartsDrain(o) == ~obj[o].draining

\* drain, on an object whether or not it is still registered.
Drain(o) ==
  /\ IF StartsDrain(o)
     THEN \E d \in Drainers :
            /\ drainer[d].pc = "idle"
            /\ drainer' = [drainer EXCEPT ![d] = [pc |-> "watch", o |-> o]]
     ELSE UNCHANGED drainer
  /\ Heap([obj EXCEPT ![o].draining = TRUE])

\* Remove after its unlock.
RemoveDrain(w) ==
  /\ writer[w].pc = "drain"
  /\ writer' = [writer EXCEPT ![w] = NoCall]
  /\ UNCHANGED << cur, mu, request, index, history >>
  /\ Drain(writer[w].o)

\* ReconcileDiscovered is called with a desired set.  Nothing keeps two calls
\* apart: the one discovery makes after its first sync can overlap an event's.
Reconcile(w, want) ==
  /\ writer[w].pc = "idle"
  /\ writer' = [writer EXCEPT ![w] =
       [NoCall EXCEPT !.pc = "add", !.want = want, !.todo = want]]
  /\ UNCHANGED << cur, obj, mu, drainer, request, index, history >>

\* Its first loop, in the order of a map: Add each.
ReconcileAdd(w, u) ==
  /\ writer[w].pc = "add" /\ mu = None
  /\ u \in writer[w].todo
  /\ \/ /\ writer' = [writer EXCEPT ![w].todo = @ \ {u}]
        /\ AddExisting(u, "discovered")
     \/ \E o \in Objects :
          /\ writer' = [writer EXCEPT ![w].pc = "hook", ![w].o = o, ![w].todo = @ \ {u}]
          /\ AddNew(w, u, "discovered", o)

\* The snapshot its second loop ranges over.
ReconcileLoad(w) ==
  /\ writer[w].pc = "add" /\ writer[w].todo = {}
  /\ writer' = [writer EXCEPT ![w].pc = "sweep", ![w].left = Registered]
  /\ UNCHANGED << cur, obj, mu, drainer, request, index, history >>

\* Mutant: a backend that is no longer desired is left alone.
Undesired_Never(l, b) == FALSE

\* A discovered backend the desired set no longer has.
Undesired(l, b) == b.prov = "discovered" /\ b.url \notin l.want

\* Its second loop: drain each one that is not wanted.
ReconcileDrain(w, o) ==
  /\ writer[w].pc = "sweep" /\ o \in writer[w].left
  /\ writer' = [writer EXCEPT ![w].left = @ \ {o}]
  /\ UNCHANGED << cur, mu, request, index, history >>
  /\ IF Undesired(writer[w], obj[o]) THEN Drain(o)
     ELSE UNCHANGED drainer /\ Heap(obj)

ReconcileDone(w) ==
  /\ writer[w].pc = "sweep" /\ writer[w].left = {}
  /\ writer' = [writer EXCEPT ![w] = NoCall]
  /\ revived' = [revived EXCEPT ![w] = {}]
  /\ UNCHANGED << cur, obj, mu, drainer, request, index, raced >>

----------------------------------------------------------------------------
(* awaitDrain and unlink. *)

\* awaitDrain's loop finds the backend idle.
WatchIdle(d) ==
  /\ drainer[d].pc = "watch"
  /\ obj[drainer[d].o].inflight <= 0
  /\ drainer' = [drainer EXCEPT ![d].pc = "unlink"]
  /\ UNCHANGED << cur, obj, mu, writer, request, index, history >>

\* Mutant: the goroutine gives up at the deadline.
AtDeadline_GivesUp(l) == Idle

\* At the deadline awaitDrain unlinks the backend, its requests still attached.
AtDeadline(l) == [l EXCEPT !.pc = "unlink"]

WatchDeadline(d) ==
  /\ drainer[d].pc = "watch"
  /\ drainer' = [drainer EXCEPT ![d] = AtDeadline(@)]
  /\ UNCHANGED << cur, mu, writer, request, index, history >>
  /\ Heap(obj)

\* unlink up to its unlock: whatever the URL names is taken out.
Unlink(d) ==
  /\ drainer[d].pc = "unlink" /\ mu = None
  /\ LET u == Url(drainer[d]) IN
       /\ cur' = [cur EXCEPT ![u] = None]
       /\ drainer' = [drainer EXCEPT ![d] =
            IF cur[u] = None THEN Idle ELSE [@ EXCEPT !.pc = "drop"]]
  /\ UNCHANGED << mu, writer, request, index, history >>
  /\ Heap(obj)

\* Mutant: the hook keeps an entry that is not the drained backend's own.
Unindexed_OnlyOwn(l) ==
  IF index[Url(l)] = l.o THEN [index EXCEPT ![Url(l)] = None] ELSE index

\* DropBackend deletes by URL.
Unindexed(l) == [index EXCEPT ![Url(l)] = None]

\* The OnDrop hook takes the backend's URL out of the policy's index.
Drop(d) ==
  /\ drainer[d].pc = "drop"
  /\ index' = Unindexed(drainer[d])
  /\ drainer' = [drainer EXCEPT ![d] = Idle]
  /\ UNCHANGED << cur, mu, writer, request, history >>
  /\ Heap(obj)

----------------------------------------------------------------------------
(* Requests. *)

\* A request reads the snapshot's available backends, one of which it will use.
Candidate(r, u) ==
  /\ request[r].pc = "idle"
  /\ cur[u] # None /\ ~obj[cur[u]].draining
  /\ request' = [request EXCEPT ![r] = [pc |-> "acquire", o |-> cur[u]]]
  /\ UNCHANGED << cur, obj, mu, writer, drainer, index, history >>

\* inflight with one more lease.
Leased(n) == n + 1

\* The attempt takes its lease, some time after the snapshot was read.
Acquire(r) ==
  /\ request[r].pc = "acquire"
  /\ request' = [request EXCEPT ![r].pc = "stream"]
  /\ UNCHANGED << cur, mu, writer, drainer, index, history >>
  /\ Heap([obj EXCEPT ![request[r].o].inflight = Leased(@)])

\* The attempt ends.
Release(r) ==
  /\ request[r].pc = "stream"
  /\ request' = [request EXCEPT ![r] = Idle]
  /\ UNCHANGED << cur, mu, writer, drainer, index, history >>
  /\ Heap([obj EXCEPT ![request[r].o].inflight = @ - 1])

----------------------------------------------------------------------------
WriterStep(w) ==
  \/ AddHook(w) \/ RemoveDrain(w)
  \/ \E u \in Urls : ReconcileAdd(w, u)
  \/ ReconcileLoad(w)
  \/ \E o \in Objects : ReconcileDrain(w, o)
  \/ ReconcileDone(w)

DrainerStep(d) == WatchIdle(d) \/ WatchDeadline(d) \/ Unlink(d) \/ Drop(d)

Next ==
  \/ \E w \in Writers :
       \/ \E u \in Urls : AdminAdd(w, u) \/ Remove(w, u)
       \/ \E want \in SUBSET Urls : Reconcile(w, want)
       \/ WriterStep(w)
  \/ \E d \in Drainers : DrainerStep(d)
  \/ \E r \in Requests :
       \/ \E u \in Urls : Candidate(r, u)
       \/ Acquire(r) \/ Release(r)

\* Goroutines that can run do, the drain deadline fires, and sync.Mutex lets
\* every waiter in.  Nothing is assumed of callers; a request may stream for ever.
Fairness ==
  /\ \A w \in Writers : WF_vars(WriterStep(w))
  /\ \A d \in Drainers : SF_vars(DrainerStep(d))

Spec == Init /\ [][Next]_vars /\ Fairness

----------------------------------------------------------------------------

\* A draining backend always has somebody to take it out (registry.go:196-219):
\* however adds, removes and reconciliations interleave, a registered backend
\* marked draining has a goroutine watching it, and is not half removed for ever.
DrainHasWatcher ==
  \A o \in Registered :
    obj[o].draining =>
      \E d \in Drainers : drainer[d].o = o /\ drainer[d].pc \in {"watch", "unlink"}

\* WRK-6 (registry.go:178-180): a backend that is draining does not stay
\* registered for ever, even if its requests never end.
DrainEnds ==
  \A o \in Objects :
    (o \in Registered /\ obj[o].draining) ~> ~(o \in Registered /\ obj[o].draining)

\* SD-7 (registry.go:247-252): whatever other writers do meanwhile, a reconciliation
\* leaves no discovered backend in service that its desired set does not have, unless
\* another writer put that URL in service after its second loop's snapshot was read.
ReconcileDrains ==
  [][\A w \in Writers :
       writer[w].pc = "sweep" /\ writer'[w].pc = "idle" =>
         \A o \in Registered :
           obj[o].prov = "discovered" /\ ~obj[o].draining =>
             obj[o].url \in writer[w].want \cup revived[w]]_vars

\* Stated by registry.go:147: re-adding cancels a pending drain.  So nothing but
\* a draining backend is ever taken out of the snapshot.
OnlyDrainingLeaves ==
  [][\A u \in Urls : cur[u] # None /\ cur'[u] = None => obj[cur[u]].draining]_vars

\* No writer and no drain is under way.
AtRest ==
  /\ \A w \in Writers : writer[w].pc = "idle"
  /\ \A d \in Drainers : drainer[d].pc = "idle"

\* The index follows the registry (registry.go:237-241, the leak E2 and E3 of the
\* earlier router): with no writer and no drain under way it holds for each URL what the
\* registry holds, in both directions, but for one case: a URL added again between the
\* unlock of unlink and its OnDrop may have lost its new entry to that late hook, and
\* only that URL, and only until it is next added.
IndexFollows ==
  AtRest =>
    \A u \in Urls : index[u] = cur[u] \/ (index[u] = None /\ u \in raced)
============================================================================
