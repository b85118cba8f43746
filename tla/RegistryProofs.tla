--------------------------- MODULE RegistryProofs ---------------------------
(***************************************************************************)
(* What module Registry promises for any sets of URLs, writers, drains and *)
(* requests: a draining backend always has a goroutine that will take it   *)
(* out; with nothing under way the policy's index holds what the registry  *)
(* does, but for URLs added again before a late OnDrop; and a              *)
(* reconciliation drains what it does not want, whatever others do.        *)
(*                                                                         *)
(* The invariant says who answers for what: the snapshot's entries carry   *)
(* their own URL, the writer in its hook holds Registry.mu and its backend *)
(* is still the one published, and an index entry that differs from the    *)
(* snapshot has a drop or a hook for its URL to come.                      *)
(***************************************************************************)
EXTENDS Registry, TLAPS

WriterPcs == {"idle", "hook", "drain", "add", "sweep"}
DrainerPcs == {"idle", "watch", "unlink", "drop"}
RequestPcs == {"idle", "acquire", "stream"}

Backend == [url : Urls \cup {None}, prov : {"static", "discovered"},
            draining : BOOLEAN, inflight : Int]
Ref == Objects \cup {None}
Call == [pc : WriterPcs, o : Ref, want : SUBSET Urls, todo : SUBSET Urls,
         left : SUBSET Objects]

TypeInv ==
  /\ cur \in [Urls -> Ref] /\ index \in [Urls -> Ref]
  /\ obj \in [Objects -> Backend]
  /\ mu \in Writers \cup {None}
  /\ writer \in [Writers -> Call]
  /\ drainer \in [Drainers -> [pc : DrainerPcs, o : Ref]]
  /\ request \in [Requests -> [pc : RequestPcs, o : Ref]]

\* What is referred to exists, and the snapshot's entries carry their own URL.
RefsOK ==
  /\ \A w \in Writers : writer[w].pc \in {"hook", "drain"} => writer[w].o \in Objects
  /\ \A d \in Drainers : drainer[d].pc # "idle" => drainer[d].o \in Objects
  /\ \A r \in Requests : request[r].pc # "idle" => request[r].o \in Objects
  /\ \A o \in Objects : Referenced(o) => obj[o].url \in Urls
  /\ \A u \in Urls : cur[u] # None => obj[cur[u]].url = u

\* The writer in its hook holds mu, and what it published is still published.
HookOK ==
  /\ \A w \in Writers : writer[w].pc = "hook" <=> mu = w
  /\ \A w \in Writers : writer[w].pc = "hook" => cur[Url(writer[w])] = writer[w].o

\* Somebody will still set u's index entry right.
Pending(u) ==
  \/ \E d \in Drainers : drainer[d].pc = "drop" /\ Url(drainer[d]) = u
  \/ \E w \in Writers : writer[w].pc = "hook" /\ Url(writer[w]) = u

IndexOK == \A u \in Urls : index[u] # None => index[u] = cur[u] \/ Pending(u)

IInv == TypeInv /\ RefsOK /\ HookOK /\ IndexOK /\ DrainHasWatcher

----------------------------------------------------------------------------
\* An empty registry that nobody works on.
LEMMA InitIInv == Init => IInv
<1> SUFFICES ASSUME Init PROVE IInv
  OBVIOUS
<1>1. TypeInv
  <2>1. Collected \in Backend
    BY DEF Collected, Backend
  <2>2. QED
    BY <2>1 DEF Init, TypeInv, Ref, Call, NoCall, Idle, WriterPcs, DrainerPcs, RequestPcs
<1>2. \A o \in Objects : ~Referenced(o)
  BY NoneAssumption DEF Init, Referenced, Registered, NoCall, Idle
<1>3. RefsOK /\ HookOK /\ IndexOK /\ DrainHasWatcher
  BY <1>2, NoneAssumption
  DEF Init, RefsOK, HookOK, IndexOK, DrainHasWatcher, Registered, NoCall, Idle
<1>4. QED
  BY <1>1, <1>3 DEF IInv

\* What a step that leaves the backends as f leaves.
LEMMA HeapFacts ==
  ASSUME NEW f \in [Objects -> Backend], Heap(f)
  PROVE  /\ obj' \in [Objects -> Backend]
         /\ \A o \in Objects : Referenced(o)' => obj'[o] = f[o]
<1>1. Collected \in Backend
  BY DEF Collected, Backend
<1>2. QED
  BY <1>1 DEF Heap

\* What refers to a backend, spelled out.
LEMMA Refers ==
  ASSUME TypeInv
  PROVE  /\ \A u \in Urls : cur[u] # None => Referenced(cur[u]) /\ cur[u] \in Objects
         /\ \A d \in Drainers : drainer[d].o # None => Referenced(drainer[d].o)
         /\ \A w \in Writers : writer[w].o # None => Referenced(writer[w].o)
         /\ \A w \in Writers : \A o \in writer[w].left : Referenced(o) /\ o \in Objects
BY DEF TypeInv, Ref, Call, Referenced, Registered

\* A step that leaves the snapshot, the index, the drops and the hooks alone, and
\* brings nothing to life.
LEMMA Unmoved ==
  ASSUME IInv, TypeInv',
         UNCHANGED << cur, index, mu >>,
         \A d \in Drainers :
           /\ drainer[d].pc = "drop" => drainer'[d] = drainer[d]
           /\ drainer'[d].pc # "idle" => drainer'[d].o \in Objects,
         \A w \in Writers :
           /\ writer'[w].pc = "hook" <=> writer[w].pc = "hook"
           /\ writer[w].pc = "hook" => writer'[w].o = writer[w].o
           /\ writer'[w].pc = "drain" => writer'[w].o \in Objects,
         \A r \in Requests : request'[r].pc # "idle" => request'[r].o \in Objects,
         \A o \in Objects : Referenced(o)' => Referenced(o) /\ obj'[o].url = obj[o].url,
         DrainHasWatcher'
  PROVE  IInv'
<1>1. RefsOK'
  <2>1. \A u \in Urls : cur'[u] # None => Referenced(cur[u])' /\ cur'[u] \in Objects
    BY DEF Referenced, Registered, TypeInv, Ref
  <2>2. \A w \in Writers : writer'[w].pc \in {"hook", "drain"} => writer'[w].o \in Objects
    BY DEF IInv, RefsOK
  <2>3. \A o \in Objects : Referenced(o)' => obj'[o].url \in Urls
    BY DEF IInv, RefsOK
  <2>4. \A u \in Urls : cur'[u] # None => obj'[cur'[u]].url = u
    BY <2>1 DEF IInv, RefsOK
  <2>5. QED
    BY <2>2, <2>3, <2>4 DEF RefsOK
<1>2. \A w \in Writers : writer[w].pc = "hook" => Url(writer[w])' = Url(writer[w])
  <2> SUFFICES ASSUME NEW w \in Writers, writer[w].pc = "hook"
               PROVE  obj'[writer'[w].o].url = obj[writer[w].o].url
    BY DEF Url
  <2>1. writer[w].o \in Objects /\ writer'[w].o = writer[w].o
    BY DEF IInv, RefsOK
  <2>2. Referenced(writer[w].o)'
    BY <2>1 DEF Referenced
  <2>3. QED
    BY <2>1, <2>2
<1>3. HookOK'
  BY <1>2 DEF IInv, HookOK, Url
<1>4. \A d \in Drainers : drainer[d].pc = "drop" => Url(drainer[d])' = Url(drainer[d])
  <2> SUFFICES ASSUME NEW d \in Drainers, drainer[d].pc = "drop"
               PROVE  obj'[drainer'[d].o].url = obj[drainer[d].o].url
    BY DEF Url
  <2>1. drainer[d].o \in Objects /\ drainer'[d].o = drainer[d].o
    BY DEF IInv, RefsOK
  <2>2. Referenced(drainer[d].o)'
    BY <2>1 DEF Referenced
  <2>3. QED
    BY <2>1, <2>2
<1>5. \A u \in Urls : Pending(u) => Pending(u)'
  BY <1>2, <1>4 DEF Pending
<1>6. IndexOK'
  BY <1>5 DEF IInv, IndexOK
<1>7. QED
  BY <1>1, <1>3, <1>6 DEF IInv

\* A watch goes on watching while the snapshot only loses backends, and no
\* registered one is set draining.
LEMMA StillWatched ==
  ASSUME IInv, TypeInv',
         \A o \in Registered' :
           /\ o \in Registered
           /\ obj'[o].draining = TRUE => obj[o].draining = TRUE
           /\ \A d \in Drainers : drainer[d].o = o /\ drainer[d].pc \in {"watch", "unlink"}
                => drainer'[d].o = o /\ drainer'[d].pc \in {"watch", "unlink"}
  PROVE  DrainHasWatcher'
<1>1. \A o \in Objects : obj'[o].draining \in BOOLEAN /\ obj[o].draining \in BOOLEAN
  BY DEF IInv, TypeInv, Backend
<1>2. \A o \in Registered' : o \in Objects
  BY DEF Registered
<1>3. QED
  BY <1>1, <1>2 DEF IInv, DrainHasWatcher

\* The backends a step with the snapshot unchanged leaves registered, and referred to.
LEMMA SameSnapshot ==
  ASSUME UNCHANGED cur
  PROVE  /\ Registered' = Registered
         /\ \A o \in Registered : o \in Objects /\ Referenced(o) /\ Referenced(o)'
BY DEF Registered, Referenced

----------------------------------------------------------------------------
(* One step per action. *)

\* Add of a URL that is registered, whichever writer's.
LEMMA AddExistingStep ==
  ASSUME IInv, NEW u \in Urls, NEW prov, AddExisting(u, prov),
         writer' \in [Writers -> Call],
         \A w \in Writers : /\ writer'[w].pc = writer[w].pc
                            /\ writer'[w].o = writer[w].o
                            /\ writer'[w].left = writer[w].left
  PROVE  IInv'
<1> DEFINE b == cur[u]
<1>1. b \in Objects /\ UNCHANGED << cur, mu, drainer, request, index >>
  BY DEF IInv, TypeInv, Ref, AddExisting
<1>2. PICK f \in [Objects -> Backend] :
        /\ Heap(f)
        /\ \A o \in Objects : /\ f[o].url = obj[o].url
                              /\ f[o].draining = TRUE => obj[o].draining = TRUE
  <2> DEFINE g == [obj EXCEPT ![b].draining = FALSE]
  <2>1. obj \in [Objects -> Backend]
    BY DEF IInv, TypeInv
  <2>2. /\ g \in [Objects -> Backend]
        /\ \A o \in Objects : /\ g[o].url = obj[o].url
                              /\ g[o].draining = TRUE => obj[o].draining = TRUE
    BY <1>1, <2>1 DEF Backend
  <2>3. Heap(g) \/ Heap(obj)
    BY DEF AddExisting
  <2>4. QED
    BY <2>1, <2>2, <2>3
<1>3. /\ obj' \in [Objects -> Backend]
      /\ \A o \in Objects : Referenced(o)' => obj'[o] = f[o]
  BY <1>2, HeapFacts
<1>4. \A o \in Objects : Referenced(o)' => Referenced(o)
  BY <1>1 DEF Referenced, Registered
<1>5. TypeInv'
  BY <1>1, <1>3 DEF IInv, TypeInv
<1>6. DrainHasWatcher'
  BY <1>1, <1>2, <1>3, <1>5, StillWatched, SameSnapshot
<1>7. QED
  BY <1>1, <1>2, <1>3, <1>4, <1>5, <1>6, Unmoved DEF IInv, RefsOK

\* A step that moves only locals, and refers to nothing that was not referred to.
LEMMA LocalStep ==
  ASSUME IInv, UNCHANGED << cur, index, mu, drainer >>,
         writer' \in [Writers -> Call],
         request' \in [Requests -> [pc : RequestPcs, o : Ref]],
         NEW f \in [Objects -> Backend],
         \/ obj' = obj /\ f = obj
         \/ Heap(f),
         \A o \in Objects : f[o].url = obj[o].url /\ f[o].draining = obj[o].draining,
         \A w \in Writers :
           /\ writer'[w].pc = "hook" <=> writer[w].pc = "hook"
           /\ writer[w].pc = "hook" => writer'[w].o = writer[w].o
           /\ writer'[w].pc = "drain" => writer'[w].o \in Objects
           /\ writer'[w].o # None => Referenced(writer'[w].o)
           /\ \A o \in writer'[w].left : Referenced(o),
         \A r \in Requests :
           /\ request'[r].pc # "idle" => request'[r].o \in Objects
           /\ request'[r].o # None => Referenced(request'[r].o)
  PROVE  IInv'
<1>1. /\ obj' \in [Objects -> Backend]
      /\ \A o \in Objects : Referenced(o)' => obj'[o] = f[o]
  BY HeapFacts
<1>2. \A o \in Objects : Referenced(o)' => Referenced(o)
  <2> SUFFICES ASSUME NEW o \in Objects, Referenced(o)' PROVE Referenced(o)
    OBVIOUS
  <2>1. o # None
    BY NoneAssumption
  <2>2. CASE \E w \in Writers : writer'[w].o = o \/ o \in writer'[w].left
    BY <2>1, <2>2
  <2>3. CASE \E r \in Requests : request'[r].o = o
    BY <2>1, <2>3
  <2>4. CASE \/ \E x \in Urls : cur'[x] = o \/ index'[x] = o
             \/ \E d \in Drainers : drainer'[d].o = o
    BY <2>4 DEF Referenced, Registered
  <2>5. QED
    BY <2>2, <2>3, <2>4 DEF Referenced, Registered
<1>3. TypeInv'
  BY <1>1 DEF IInv, TypeInv
<1>4. DrainHasWatcher'
  BY <1>1, <1>3, StillWatched, SameSnapshot
<1>5. QED
  BY <1>1, <1>2, <1>3, <1>4, Unmoved DEF IInv, RefsOK

\* Remove, Reconcile, ReconcileLoad and ReconcileDone move the writer alone.
LEMMA WriterLocals ==
  ASSUME IInv, NEW w \in Writers,
         \/ \E u \in Urls : Remove(w, u)
         \/ \E want \in SUBSET Urls : Reconcile(w, want)
         \/ ReconcileLoad(w)
         \/ ReconcileDone(w)
  PROVE  IInv'
<1>1. /\ UNCHANGED << cur, obj, mu, drainer, request, index >>
      /\ writer[w].pc # "hook" /\ obj \in [Objects -> Backend]
      /\ writer \in [Writers -> Call]
  BY DEF IInv, TypeInv, Remove, Reconcile, ReconcileLoad, ReconcileDone
<1>2. PICK l \in Call :
        /\ writer' = [writer EXCEPT ![w] = l]
        /\ l.pc # "hook"
        /\ l.pc = "drain" => l.o \in Objects
        /\ l.o # None => Referenced(l.o)
        /\ \A o \in l.left : Referenced(o)
  <2>1. CASE \E u \in Urls : Remove(w, u)
    <3>1. PICK u \in Urls : Remove(w, u)
      BY <2>1
    <3> DEFINE l == [writer[w] EXCEPT !.pc = "drain", !.o = cur[u]]
    <3>2. cur[u] \in Objects /\ Referenced(cur[u])
      BY <3>1, Refers DEF IInv, Remove
    <3>3. l \in Call /\ l.pc = "drain" /\ l.o = cur[u] /\ l.left = writer[w].left
      BY <1>1, <3>2 DEF Call, WriterPcs, Ref
    <3>4. writer' = [writer EXCEPT ![w] = l]
      BY <3>1 DEF Remove
    <3>5. \A o \in l.left : Referenced(o)
      BY <3>3, Refers DEF IInv
    <3>6. QED
      BY <3>2, <3>3, <3>4, <3>5
  <2>2. CASE \E want \in SUBSET Urls : Reconcile(w, want)
    <3>1. PICK want \in SUBSET Urls : Reconcile(w, want)
      BY <2>2
    <3> DEFINE l == [NoCall EXCEPT !.pc = "add", !.want = want, !.todo = want]
    <3>2. l \in Call /\ l.pc = "add" /\ l.o = None /\ l.left = {}
      BY DEF Call, WriterPcs, Ref, NoCall
    <3>3. writer' = [writer EXCEPT ![w] = l]
      BY <3>1 DEF Reconcile
    <3>4. QED
      BY <3>2, <3>3
  <2>3. CASE ReconcileLoad(w)
    <3> DEFINE l == [writer[w] EXCEPT !.pc = "sweep", !.left = Registered]
    <3>1. l \in Call /\ l.pc = "sweep" /\ l.o = writer[w].o /\ l.left = Registered
      BY <1>1 DEF Call, WriterPcs, Registered
    <3>2. writer' = [writer EXCEPT ![w] = l]
      BY <2>3 DEF ReconcileLoad
    <3>3. l.o # None => Referenced(l.o)
      BY <3>1, Refers DEF IInv
    <3>4. \A o \in l.left : Referenced(o)
      BY <3>1 DEF Referenced
    <3>5. QED
      BY <3>1, <3>2, <3>3, <3>4
  <2>4. CASE ReconcileDone(w)
    <3>1. /\ NoCall \in Call /\ NoCall.pc = "idle" /\ NoCall.o = None /\ NoCall.left = {}
          /\ writer' = [writer EXCEPT ![w] = NoCall]
      BY <2>4 DEF ReconcileDone, Call, WriterPcs, Ref, NoCall
    <3>2. QED
      BY <3>1
  <2>5. QED
    BY <2>1, <2>2, <2>3, <2>4
<1>3. writer' \in [Writers -> Call]
  BY <1>1, <1>2
<1>4. \A v \in Writers :
        /\ writer'[v].pc = "hook" <=> writer[v].pc = "hook"
        /\ writer[v].pc = "hook" => writer'[v].o = writer[v].o
        /\ writer'[v].pc = "drain" => writer'[v].o \in Objects
        /\ writer'[v].o # None => Referenced(writer'[v].o)
        /\ \A o \in writer'[v].left : Referenced(o)
  BY <1>1, <1>2, Refers DEF IInv, RefsOK
<1>5. \A r \in Requests :
        /\ request'[r].pc # "idle" => request'[r].o \in Objects
        /\ request'[r].o # None => Referenced(request'[r].o)
  BY <1>1 DEF IInv, RefsOK, TypeInv, Ref, Referenced
<1>6. request' \in [Requests -> [pc : RequestPcs, o : Ref]]
  BY <1>1 DEF IInv, TypeInv
<1>7. QED
  BY <1>1, <1>3, <1>4, <1>5, <1>6, LocalStep

\* Candidate, Acquire and Release move the request, and its backend's inflight.
LEMMA RequestSteps ==
  ASSUME IInv, NEW r \in Requests,
         (\E u \in Urls : Candidate(r, u)) \/ Acquire(r) \/ Release(r)
  PROVE  IInv'
<1>1. /\ UNCHANGED << cur, mu, writer, drainer, index >>
      /\ obj \in [Objects -> Backend] /\ writer \in [Writers -> Call]
      /\ request \in [Requests -> [pc : RequestPcs, o : Ref]]
  BY DEF IInv, TypeInv, Candidate, Acquire, Release
<1>2. request[r].pc # "idle" => request[r].o \in Objects /\ Referenced(request[r].o)
  BY DEF IInv, RefsOK, Referenced
<1>3. PICK l \in [pc : RequestPcs, o : Ref], f \in [Objects -> Backend] :
        /\ request' = [request EXCEPT ![r] = l]
        /\ l.pc # "idle" => l.o \in Objects
        /\ l.o # None => Referenced(l.o)
        /\ \/ obj' = obj /\ f = obj
           \/ Heap(f)
        /\ \A o \in Objects : f[o].url = obj[o].url /\ f[o].draining = obj[o].draining
  <2>1. CASE \E u \in Urls : Candidate(r, u)
    <3>1. PICK u \in Urls : Candidate(r, u)
      BY <2>1
    <3> DEFINE l == [pc |-> "acquire", o |-> cur[u]]
    <3>2. cur[u] \in Objects /\ Referenced(cur[u])
      BY <3>1, Refers DEF IInv, Candidate
    <3>3. l \in [pc : RequestPcs, o : Ref] /\ l.o = cur[u]
      BY <3>2 DEF RequestPcs, Ref
    <3>4. request' = [request EXCEPT ![r] = l] /\ obj' = obj
      BY <3>1 DEF Candidate
    <3>5. QED
      BY <1>1, <3>2, <3>3, <3>4
  <2>2. CASE Acquire(r)
    <3> DEFINE l == [request[r] EXCEPT !.pc = "stream"]
               f == [obj EXCEPT ![request[r].o].inflight = Leased(@)]
    <3>1. request[r].o \in Objects /\ Referenced(request[r].o)
      BY <1>2, <2>2 DEF Acquire
    <3>2. l \in [pc : RequestPcs, o : Ref] /\ l.o = request[r].o
      BY <1>1 DEF RequestPcs
    <3>3. f \in [Objects -> Backend] /\ \A o \in Objects :
             f[o].url = obj[o].url /\ f[o].draining = obj[o].draining
      BY <1>1, <3>1 DEF Backend, Leased
    <3>4. request' = [request EXCEPT ![r] = l] /\ Heap(f)
      BY <2>2 DEF Acquire
    <3>5. QED
      BY <3>1, <3>2, <3>3, <3>4
  <2>3. CASE Release(r)
    <3> DEFINE f == [obj EXCEPT ![request[r].o].inflight = @ - 1]
    <3>1. request[r].o \in Objects
      BY <1>2, <2>3 DEF Release
    <3>2. Idle \in [pc : RequestPcs, o : Ref] /\ Idle.o = None /\ Idle.pc = "idle"
      BY DEF RequestPcs, Ref, Idle
    <3>3. f \in [Objects -> Backend] /\ \A o \in Objects :
             f[o].url = obj[o].url /\ f[o].draining = obj[o].draining
      BY <1>1, <3>1 DEF Backend
    <3>4. request' = [request EXCEPT ![r] = Idle] /\ Heap(f)
      BY <2>3 DEF Release
    <3>5. QED
      BY <3>2, <3>3, <3>4
  <2>4. QED
    BY <2>1, <2>2, <2>3
<1>4. request' \in [Requests -> [pc : RequestPcs, o : Ref]]
  BY <1>1, <1>3
<1>5. \A x \in Requests :
        /\ request'[x].pc # "idle" => request'[x].o \in Objects
        /\ request'[x].o # None => Referenced(request'[x].o)
  BY <1>1, <1>3 DEF IInv, RefsOK, TypeInv, Ref, Referenced
<1>6. \A v \in Writers :
        /\ writer'[v].pc = "hook" <=> writer[v].pc = "hook"
        /\ writer[v].pc = "hook" => writer'[v].o = writer[v].o
        /\ writer'[v].pc = "drain" => writer'[v].o \in Objects
        /\ writer'[v].o # None => Referenced(writer'[v].o)
        /\ \A o \in writer'[v].left : Referenced(o)
  BY <1>1, Refers DEF IInv, RefsOK
<1>7. QED
  BY <1>1, <1>3, <1>4, <1>5, <1>6, LocalStep

\* Drain starts a watch or finds one, for a backend somebody refers to.
LEMMA DrainStep ==
  ASSUME IInv, NEW w \in Writers, NEW l \in Call,
         NEW b \in Objects, Referenced(b), Drain(b),
         UNCHANGED << cur, mu, request, index >>,
         writer' = [writer EXCEPT ![w] = l],
         writer[w].pc # "hook", l.pc # "hook", l.pc # "drain",
         l.o = None \/ l.o = writer[w].o, l.left \subseteq writer[w].left
  PROVE  IInv'
<1> DEFINE f == [obj EXCEPT ![b].draining = TRUE]
<1>1. /\ obj \in [Objects -> Backend] /\ writer \in [Writers -> Call]
      /\ drainer \in [Drainers -> [pc : DrainerPcs, o : Ref]]
  BY DEF IInv, TypeInv
<1>2. /\ f \in [Objects -> Backend]
      /\ \A o \in Objects : /\ f[o].url = obj[o].url
                            /\ o # b => f[o] = obj[o]
  BY <1>1 DEF Backend
<1>3. /\ obj' \in [Objects -> Backend]
      /\ \A o \in Objects : Referenced(o)' => obj'[o] = f[o]
  BY <1>2, HeapFacts DEF Drain
<1>4. \/ drainer' = drainer /\ obj[b].draining = TRUE
      \/ \E d \in Drainers : drainer[d].pc = "idle"
           /\ drainer' = [drainer EXCEPT ![d] = [pc |-> "watch", o |-> b]]
  BY <1>1 DEF Drain, StartsDrain, Backend
<1>5. drainer' \in [Drainers -> [pc : DrainerPcs, o : Ref]]
  BY <1>1, <1>4 DEF DrainerPcs, Ref
<1>6. /\ writer' \in [Writers -> Call]
      /\ \A v \in Writers :
        /\ writer'[v].pc = "hook" <=> writer[v].pc = "hook"
        /\ writer[v].pc = "hook" => writer'[v].o = writer[v].o
        /\ writer'[v].pc = "drain" => writer'[v].o \in Objects
  BY <1>1 DEF IInv, RefsOK
<1>7. TypeInv'
  BY <1>3, <1>5, <1>6 DEF IInv, TypeInv
<1>8. \A d \in Drainers :
        /\ drainer[d].pc # "idle" => drainer'[d] = drainer[d]
        /\ drainer'[d].pc # "idle" => drainer'[d].o \in Objects
        /\ drainer'[d].o = drainer[d].o \/ drainer'[d].o = b
  BY <1>1, <1>4 DEF IInv, RefsOK
<1>9. \A o \in Objects : Referenced(o)' => Referenced(o)
  <2> SUFFICES ASSUME NEW o \in Objects, Referenced(o)' PROVE Referenced(o)
    OBVIOUS
  <2>1. o # None
    BY NoneAssumption
  <2>2. CASE \E v \in Writers : writer'[v].o = o \/ o \in writer'[v].left
    BY <1>1, <2>1, <2>2 DEF Referenced
  <2>3. CASE \E d \in Drainers : drainer'[d].o = o
    BY <1>8, <2>3 DEF Referenced
  <2>4. CASE \/ \E x \in Urls : cur'[x] = o \/ index'[x] = o
             \/ \E r \in Requests : request'[r].o = o
    BY <2>4 DEF Referenced, Registered
  <2>5. QED
    BY <2>2, <2>3, <2>4 DEF Referenced, Registered
<1>10. DrainHasWatcher'
  <2> SUFFICES ASSUME NEW o \in Registered, obj'[o].draining
               PROVE  \E d \in Drainers : /\ drainer'[d].o = o
                                          /\ drainer'[d].pc \in {"watch", "unlink"}
    BY SameSnapshot DEF DrainHasWatcher
  <2>1. o \in Objects /\ Referenced(o)'
    BY SameSnapshot
  <2>2. CASE obj[o].draining
    BY <1>8, <2>2 DEF IInv, DrainHasWatcher
  <2>3. CASE ~obj[o].draining
    <3>1. o = b
      BY <1>2, <1>3, <2>1, <2>3
    <3>2. PICK d \in Drainers :
            drainer' = [drainer EXCEPT ![d] = [pc |-> "watch", o |-> b]]
      BY <1>4, <2>3, <3>1
    <3>3. drainer'[d] = [pc |-> "watch", o |-> b]
      BY <1>1, <3>2
    <3>4. QED
      BY <3>1, <3>3
  <2>4. QED
    BY <2>2, <2>3
<1>11. \A r \in Requests : request'[r].pc # "idle" => request'[r].o \in Objects
  BY DEF IInv, RefsOK
<1>12. QED
  BY <1>2, <1>3, <1>6, <1>7, <1>8, <1>9, <1>10, <1>11, Unmoved, ZenonT(40)

\* Remove after its unlock, and the second loop of ReconcileDiscovered.
LEMMA DrainSteps ==
  ASSUME IInv, NEW w \in Writers,
         RemoveDrain(w) \/ \E o \in Objects : ReconcileDrain(w, o)
  PROVE  IInv'
<1>1. /\ obj \in [Objects -> Backend] /\ writer \in [Writers -> Call]
      /\ request \in [Requests -> [pc : RequestPcs, o : Ref]]
  BY DEF IInv, TypeInv
<1>2. CASE RemoveDrain(w)
  <2>1. writer[w].o \in Objects
    BY <1>2 DEF RemoveDrain, IInv, RefsOK
  <2>2. Referenced(writer[w].o)
    BY <2>1 DEF Referenced
  <2>3. NoCall \in Call /\ NoCall.pc = "idle" /\ NoCall.o = None /\ NoCall.left = {}
    BY DEF NoCall, Call, WriterPcs, Ref
  <2>4. QED
    BY <1>2, <2>1, <2>2, <2>3, DrainStep DEF RemoveDrain
<1>3. CASE \E o \in Objects : ReconcileDrain(w, o)
  <2>1. PICK o \in Objects : ReconcileDrain(w, o)
    BY <1>3
  <2> DEFINE l == [writer[w] EXCEPT !.left = @ \ {o}]
  <2>2. /\ l \in Call /\ l.pc = writer[w].pc /\ l.o = writer[w].o
        /\ l.left = writer[w].left \ {o}
    BY <1>1 DEF Call
  <2>3. /\ writer' = [writer EXCEPT ![w] = l] /\ writer[w].pc = "sweep"
        /\ o \in writer[w].left
        /\ UNCHANGED << cur, mu, request, index >>
    BY <2>1 DEF ReconcileDrain
  <2>4. Referenced(o)
    BY <2>3, Refers DEF IInv
  <2> HIDE DEF l
  <2>5. CASE Drain(o)
    BY <2>2, <2>3, <2>4, <2>5, DrainStep
  <2>6. CASE UNCHANGED drainer /\ Heap(obj)
    <3>1. /\ writer' \in [Writers -> Call]
          /\ \A v \in Writers :
               /\ writer'[v].pc = writer[v].pc /\ writer'[v].o = writer[v].o
               /\ writer'[v].left \subseteq writer[v].left
      BY <1>1, <2>2, <2>3
    <3>2. \A v \in Writers :
            /\ writer'[v].pc = "drain" => writer'[v].o \in Objects
            /\ writer'[v].o # None => Referenced(writer'[v].o)
            /\ \A x \in writer'[v].left : Referenced(x)
      BY <3>1, Refers DEF IInv, RefsOK
    <3>3. \A r \in Requests :
            /\ request'[r].pc # "idle" => request'[r].o \in Objects
            /\ request'[r].o # None => Referenced(request'[r].o)
      BY <1>1, <2>3 DEF IInv, RefsOK, Ref, Referenced
    <3>4. QED
      BY <1>1, <2>3, <2>6, <3>1, <3>2, <3>3, LocalStep
  <2>7. QED
    BY <2>1, <2>5, <2>6 DEF ReconcileDrain
<1>4. QED
  BY <1>2, <1>3

\* awaitDrain ends its wait, by an idle backend or at the deadline.
LEMMA WatchSteps ==
  ASSUME IInv, NEW d \in Drainers, WatchIdle(d) \/ WatchDeadline(d)
  PROVE  IInv'
<1>1. /\ obj \in [Objects -> Backend] /\ writer \in [Writers -> Call]
      /\ drainer \in [Drainers -> [pc : DrainerPcs, o : Ref]]
      /\ UNCHANGED << cur, mu, writer, request, index >>
      /\ drainer' = [drainer EXCEPT ![d] = [@ EXCEPT !.pc = "unlink"]]
      /\ drainer[d].pc = "watch"
  BY DEF IInv, TypeInv, WatchIdle, WatchDeadline, AtDeadline
<1>2. \A x \in Drainers :
        /\ drainer'[x].o = drainer[x].o
        /\ drainer[x].pc # "watch" => drainer'[x] = drainer[x]
        /\ drainer'[x].pc # "idle" => drainer'[x].o \in Objects
        /\ drainer[x].pc = "watch" => drainer'[x].pc \in {"watch", "unlink"}
  BY <1>1 DEF IInv, RefsOK
<1>3. drainer' \in [Drainers -> [pc : DrainerPcs, o : Ref]]
  BY <1>1 DEF DrainerPcs
<1>4. /\ obj' \in [Objects -> Backend]
      /\ \A o \in Objects : Referenced(o)' => obj'[o] = obj[o]
  BY <1>1, HeapFacts DEF WatchIdle, WatchDeadline
<1>5. \A o \in Objects : Referenced(o)' => Referenced(o)
  BY <1>1, <1>2 DEF Referenced, Registered
<1>6. TypeInv'
  BY <1>1, <1>3, <1>4 DEF IInv, TypeInv
<1>7. DrainHasWatcher'
  BY <1>1, <1>2, <1>4, <1>6, StillWatched, SameSnapshot
<1>8. /\ \A w \in Writers : writer[w].pc = "drain" => writer[w].o \in Objects
      /\ \A r \in Requests : request'[r].pc # "idle" => request'[r].o \in Objects
  BY <1>1 DEF IInv, RefsOK
<1>9. QED
  BY <1>1, <1>2, <1>4, <1>5, <1>6, <1>7, <1>8, Unmoved

\* Add of a new URL, up to its hook.
LEMMA AddNewStep ==
  ASSUME IInv, NEW w \in Writers, NEW u \in Urls, NEW b \in Objects, NEW l \in Call,
         NEW prov \in {"static", "discovered"}, mu = None, AddNew(w, u, prov, b),
         writer' = [writer EXCEPT ![w] = l],
         l.pc = "hook", l.o = b, l.left = writer[w].left
  PROVE  IInv'
<1> DEFINE new == [url |-> u, prov |-> prov, draining |-> FALSE, inflight |-> 0]
           f == [obj EXCEPT ![b] = new]
<1>1. /\ cur \in [Urls -> Ref] /\ index \in [Urls -> Ref]
      /\ obj \in [Objects -> Backend] /\ writer \in [Writers -> Call]
      /\ cur' = [cur EXCEPT ![u] = b] /\ mu' = w
      /\ UNCHANGED << drainer, request, index >>
      /\ ~Referenced(b) /\ cur[u] = None
  BY DEF IInv, TypeInv, AddNew
<1>2. new \in Backend /\ f \in [Objects -> Backend]
  BY <1>1 DEF Backend
<1>3. /\ obj' \in [Objects -> Backend]
      /\ \A o \in Objects : Referenced(o)' => obj'[o] = f[o]
  BY <1>2, HeapFacts DEF AddNew
<1>4. writer' \in [Writers -> Call] /\ cur' \in [Urls -> Ref]
  BY <1>1 DEF Ref
<1>5. TypeInv'
  BY <1>1, <1>3, <1>4 DEF IInv, TypeInv
<1>6. \A o \in Objects : Referenced(o)' => o = b \/ Referenced(o)
  <2> SUFFICES ASSUME NEW o \in Objects, Referenced(o)', o # b PROVE Referenced(o)
    OBVIOUS
  <2>1. CASE \E v \in Writers : writer'[v].o = o \/ o \in writer'[v].left
    BY <1>1, <2>1 DEF Referenced
  <2>2. CASE \E x \in Urls : cur'[x] = o
    BY <1>1, <2>2 DEF Referenced, Registered
  <2>3. CASE \/ \E x \in Urls : index'[x] = o
             \/ \E r \in Requests : request'[r].o = o
             \/ \E d \in Drainers : drainer'[d].o = o
    BY <1>1, <2>3 DEF Referenced
  <2>4. QED
    BY <2>1, <2>2, <2>3 DEF Referenced, Registered
<1>7. /\ Referenced(b)' /\ obj'[b] = new
      /\ \A o \in Objects : Referenced(o)' /\ o # b => obj'[o] = obj[o]
  <2>1. Referenced(b)'
    BY <1>1 DEF Referenced, Registered
  <2>2. QED
    BY <1>1, <1>3, <2>1
<1>8. RefsOK'
  <2>1. \A v \in Writers : writer'[v].pc \in {"hook", "drain"} => writer'[v].o \in Objects
    BY <1>1 DEF IInv, RefsOK
  <2>2. \A o \in Objects : Referenced(o)' => obj'[o].url \in Urls
    BY <1>6, <1>7 DEF IInv, RefsOK
  <2>3. \A x \in Urls : cur'[x] # None => obj'[cur'[x]].url = x
    <3> SUFFICES ASSUME NEW x \in Urls, cur'[x] # None PROVE obj'[cur'[x]].url = x
      OBVIOUS
    <3>1. CASE x = u
      BY <1>1, <1>7, <3>1
    <3>2. CASE x # u
      <4>1. cur'[x] = cur[x] /\ cur[x] \in Objects /\ cur[x] # b
        BY <1>1, <3>2, Refers DEF IInv
      <4>2. Referenced(cur[x])'
        BY <4>1 DEF Referenced, Registered
      <4>3. QED
        BY <1>7, <4>1, <4>2 DEF IInv, RefsOK
    <3>3. QED
      BY <3>1, <3>2
  <2>4. QED
    BY <1>1, <2>1, <2>2, <2>3 DEF IInv, RefsOK
<1>9. \A v \in Writers : writer[v].pc # "hook"
  BY NoneAssumption DEF IInv, HookOK
<1>10. HookOK'
  BY <1>1, <1>7, <1>9 DEF HookOK, Url
<1>11. IndexOK'
  <2> SUFFICES ASSUME NEW x \in Urls, index'[x] # None
               PROVE  index'[x] = cur'[x] \/ Pending(x)'
    BY DEF IndexOK
  <2>1. CASE x = u
    BY <1>1, <1>7, <2>1 DEF Pending, Url
  <2>2. CASE x # u
    <3>1. index[x] = cur[x] \/ Pending(x)
      BY <1>1 DEF IInv, IndexOK
    <3>2. CASE index[x] = cur[x]
      BY <1>1, <2>2, <3>2
    <3>3. CASE Pending(x)
      <4>1. PICK d \in Drainers : drainer[d].pc = "drop" /\ Url(drainer[d]) = x
        BY <1>9, <3>3 DEF Pending
      <4>2. drainer[d].o \in Objects /\ Referenced(drainer[d].o)
        BY <4>1 DEF IInv, RefsOK, Referenced
      <4>3. Referenced(drainer[d].o)' /\ drainer[d].o # b
        BY <1>1, <4>2 DEF Referenced
      <4>4. obj'[drainer'[d].o] = obj[drainer[d].o]
        BY <1>1, <1>7, <4>2, <4>3
      <4>5. QED
        BY <1>1, <4>1, <4>4 DEF Pending, Url
    <3>4. QED
      BY <3>1, <3>2, <3>3
  <2>3. QED
    BY <2>1, <2>2
<1>12. DrainHasWatcher'
  <2> SUFFICES ASSUME NEW o \in Registered', obj'[o].draining
               PROVE  \E d \in Drainers : /\ drainer'[d].o = o
                                          /\ drainer'[d].pc \in {"watch", "unlink"}
    BY DEF DrainHasWatcher
  <2>1. o \in Objects /\ Referenced(o)'
    BY DEF Referenced, Registered
  <2>2. o # b /\ o \in Registered
    BY <1>1, <1>7 DEF Registered
  <2>3. QED
    BY <1>1, <1>7, <2>1, <2>2 DEF IInv, DrainHasWatcher
<1>13. QED
  BY <1>5, <1>8, <1>10, <1>11, <1>12 DEF IInv

\* Every Add: of an admin call, or in the first loop of ReconcileDiscovered.
LEMMA AddSteps ==
  ASSUME IInv, NEW w \in Writers, NEW u \in Urls,
         AdminAdd(w, u) \/ ReconcileAdd(w, u)
  PROVE  IInv'
<1>1. writer \in [Writers -> Call] /\ mu = None
  BY DEF IInv, TypeInv, AdminAdd, ReconcileAdd
<1>2. CASE AdminAdd(w, u)
  <2>1. CASE UNCHANGED writer /\ AddExisting(u, "static")
    BY <1>1, <2>1, AddExistingStep
  <2>2. ASSUME NEW b \in Objects,
               writer' = [writer EXCEPT ![w].pc = "hook", ![w].o = b],
               AddNew(w, u, "static", b)
        PROVE  IInv'
    <3> DEFINE l == [writer[w] EXCEPT !.pc = "hook", !.o = b]
    <3>1. l \in Call /\ l.pc = "hook" /\ l.o = b /\ l.left = writer[w].left
      BY <1>1 DEF Call, WriterPcs, Ref
    <3>2. writer' = [writer EXCEPT ![w] = l]
      BY <1>1, <2>2
    <3> HIDE DEF l
    <3>3. QED
      BY <1>1, <2>2, <3>1, <3>2, AddNewStep
  <2>3. QED
    BY <1>2, <2>1, <2>2 DEF AdminAdd
<1>3. CASE ReconcileAdd(w, u)
  <2>1. CASE writer' = [writer EXCEPT ![w].todo = @ \ {u}] /\ AddExisting(u, "discovered")
    <3>1. writer' \in [Writers -> Call]
      BY <1>1, <2>1 DEF Call
    <3>2. \A v \in Writers : /\ writer'[v].pc = writer[v].pc
                             /\ writer'[v].o = writer[v].o
                             /\ writer'[v].left = writer[v].left
      BY <1>1, <2>1 DEF Call
    <3>3. QED
      BY <2>1, <3>1, <3>2, AddExistingStep
  <2>2. ASSUME NEW b \in Objects,
               writer' = [writer EXCEPT ![w].pc = "hook", ![w].o = b, ![w].todo = @ \ {u}],
               AddNew(w, u, "discovered", b)
        PROVE  IInv'
    <3> DEFINE l == [writer[w] EXCEPT !.pc = "hook", !.o = b, !.todo = @ \ {u}]
    <3>1. l \in Call /\ l.pc = "hook" /\ l.o = b /\ l.left = writer[w].left
      BY <1>1 DEF Call, WriterPcs, Ref
    <3>2. writer' = [writer EXCEPT ![w] = l]
      BY <1>1, <2>2
    <3> HIDE DEF l
    <3>3. QED
      BY <1>1, <2>2, <3>1, <3>2, AddNewStep
  <2>3. QED
    BY <1>3, <2>1, <2>2 DEF ReconcileAdd
<1>4. QED
  BY <1>2, <1>3

\* The drops still to come keep the backend, and so the URL, they are about.
LEMMA DropKept ==
  ASSUME RefsOK, NEW d \in Drainers, drainer[d].pc = "drop", drainer'[d] = drainer[d],
         \A o \in Objects : Referenced(o)' => obj'[o] = obj[o],
         NEW x \in Urls, Url(drainer[d]) = x
  PROVE  Pending(x)'
<1>1. drainer[d].o \in Objects
  BY DEF RefsOK
<1>2. Referenced(drainer[d].o)'
  BY <1>1 DEF Referenced
<1>3. QED
  BY <1>1, <1>2 DEF Pending, Url

\* The snapshot's entries after a step that changes no backend and publishes none.
LEMMA EntriesKept ==
  ASSUME RefsOK, cur' \in [Urls -> Ref],
         \A x \in Urls : cur'[x] # None => cur'[x] = cur[x],
         \A o \in Objects : Referenced(o)' => Referenced(o) /\ obj'[o] = obj[o]
  PROVE  /\ \A x \in Urls : cur'[x] # None => obj'[cur'[x]].url = x
         /\ \A o \in Objects : Referenced(o)' => obj'[o].url \in Urls
         /\ \A o \in Registered' : o \in Objects /\ o \in Registered /\ obj'[o] = obj[o]
<1>1. \A x \in Urls : cur'[x] # None => Referenced(cur[x])' /\ cur'[x] \in Objects
  BY NoneAssumption DEF Referenced, Registered, Ref
<1>2. \A o \in Registered' : o \in Objects /\ o \in Registered /\ Referenced(o)'
  BY NoneAssumption DEF Referenced, Registered
<1>3. QED
  BY <1>1, <1>2 DEF RefsOK

\* The OnAdd hook: the published backend enters the index.
LEMMA AddHookStep ==
  ASSUME IInv, NEW w \in Writers, AddHook(w)
  PROVE  IInv'
<1> DEFINE b == writer[w].o
           u == obj[b].url
           l == IF writer[w].want = {} THEN NoCall
                ELSE [writer[w] EXCEPT !.pc = "add", !.o = None]
<1>1. /\ writer[w].pc = "hook" /\ mu = w /\ mu' = None
      /\ writer \in [Writers -> Call] /\ index \in [Urls -> Ref] /\ cur \in [Urls -> Ref]
      /\ obj \in [Objects -> Backend]
      /\ UNCHANGED << cur, drainer, request >>
      /\ b \in Objects /\ cur[u] = b
      /\ index' = [index EXCEPT ![u] = b]
      /\ writer' = [writer EXCEPT ![w] = l]
  BY DEF IInv, TypeInv, RefsOK, HookOK, AddHook, Url
<1>2. u \in Urls
  BY <1>1 DEF IInv, RefsOK, Referenced
<1>3. /\ l \in Call /\ l.pc \in {"idle", "add"} /\ l.o = None
      /\ l.left \subseteq writer[w].left
  BY <1>1 DEF NoCall, Call, WriterPcs, Ref
<1>4. /\ obj' \in [Objects -> Backend]
      /\ \A o \in Objects : Referenced(o)' => obj'[o] = obj[o]
  BY <1>1, HeapFacts DEF AddHook
<1> HIDE DEF l
<1>5. \A o \in Objects : Referenced(o)' => Referenced(o)
  <2> SUFFICES ASSUME NEW o \in Objects, Referenced(o)' PROVE Referenced(o)
    OBVIOUS
  <2>1. o # None
    BY NoneAssumption
  <2>2. CASE \E v \in Writers : writer'[v].o = o \/ o \in writer'[v].left
    BY <1>1, <1>3, <2>1, <2>2 DEF Referenced
  <2>3. CASE \E x \in Urls : index'[x] = o
    BY <1>1, <1>2, <2>3 DEF Referenced
  <2>4. CASE \/ \E x \in Urls : cur'[x] = o
             \/ \E r \in Requests : request'[r].o = o
             \/ \E d \in Drainers : drainer'[d].o = o
    BY <1>1, <2>4 DEF Referenced, Registered
  <2>5. QED
    BY <2>2, <2>3, <2>4 DEF Referenced, Registered
<1>6. TypeInv'
  <2>1. writer' \in [Writers -> Call] /\ index' \in [Urls -> Ref]
    BY <1>1, <1>2, <1>3 DEF Ref
  <2>2. QED
    BY <1>1, <1>4, <2>1 DEF IInv, TypeInv
<1>7. \A v \in Writers : writer'[v].pc # "hook" /\ (v # w => writer'[v] = writer[v])
  BY <1>1, <1>3 DEF IInv, HookOK
<1>8. RefsOK'
  <2>1. \A v \in Writers : writer'[v].pc \in {"hook", "drain"} => writer'[v].o \in Objects
    BY <1>1, <1>3, <1>7 DEF IInv, RefsOK
  <2>2. QED
    BY <1>1, <1>4, <1>5, <2>1, EntriesKept DEF IInv, RefsOK
<1>9. HookOK'
  BY <1>1, <1>7, NoneAssumption DEF HookOK
<1>10. IndexOK'
  <2> SUFFICES ASSUME NEW x \in Urls, index'[x] # None, x # u
               PROVE  index'[x] = cur'[x] \/ Pending(x)'
    BY <1>1, <1>2 DEF IndexOK
  <2>1. index'[x] = index[x] /\ (index[x] = cur[x] \/ Pending(x))
    BY <1>1 DEF IInv, IndexOK
  <2>2. ASSUME Pending(x) PROVE Pending(x)'
    <3>1. \A v \in Writers : writer[v].pc = "hook" => v = w
      BY <1>1 DEF IInv, HookOK
    <3>2. PICK d \in Drainers : drainer[d].pc = "drop" /\ Url(drainer[d]) = x
      BY <2>2, <3>1 DEF Pending, Url
    <3>3. QED
      BY <1>1, <1>4, <3>2, DropKept DEF IInv
  <2>3. QED
    BY <1>1, <2>1, <2>2
<1>11. DrainHasWatcher'
  BY <1>1, <1>4, <1>6, StillWatched, SameSnapshot
<1>12. QED
  BY <1>6, <1>8, <1>9, <1>10, <1>11 DEF IInv

\* unlink, up to its unlock.
LEMMA UnlinkStep ==
  ASSUME IInv, NEW d \in Drainers, Unlink(d)
  PROVE  IInv'
<1> DEFINE b == drainer[d].o
           u == obj[b].url
           l == IF cur[u] = None THEN Idle ELSE [drainer[d] EXCEPT !.pc = "drop"]
<1>1. /\ drainer[d].pc = "unlink" /\ mu = None
      /\ cur \in [Urls -> Ref] /\ drainer \in [Drainers -> [pc : DrainerPcs, o : Ref]]
      /\ obj \in [Objects -> Backend]
      /\ UNCHANGED << mu, writer, request, index >>
      /\ b \in Objects
      /\ cur' = [cur EXCEPT ![u] = None]
      /\ drainer' = [drainer EXCEPT ![d] = l]
  BY DEF IInv, TypeInv, RefsOK, Unlink, Url
<1>2. u \in Urls
  BY <1>1 DEF IInv, RefsOK, Referenced
<1>3. /\ l \in [pc : DrainerPcs, o : Ref] /\ l.pc \in {"idle", "drop"}
      /\ l.o \in {None, b}
      /\ cur[u] # None => l.pc = "drop" /\ l.o = b
      /\ l.pc # "idle" => l.o = b
  BY <1>1 DEF Idle, DrainerPcs, Ref
<1>4. /\ obj' \in [Objects -> Backend]
      /\ \A o \in Objects : Referenced(o)' => obj'[o] = obj[o]
  BY <1>1, HeapFacts DEF Unlink
<1> HIDE DEF l
<1>5. \A o \in Objects : Referenced(o)' => Referenced(o)
  <2> SUFFICES ASSUME NEW o \in Objects, Referenced(o)' PROVE Referenced(o)
    OBVIOUS
  <2>1. o # None
    BY NoneAssumption
  <2>2. CASE \E e \in Drainers : drainer'[e].o = o
    BY <1>1, <1>3, <2>1, <2>2 DEF Referenced
  <2>3. CASE \E x \in Urls : cur'[x] = o
    BY <1>1, <1>2, <2>1, <2>3 DEF Referenced, Registered
  <2>4. CASE \/ \E x \in Urls : index'[x] = o
             \/ \E r \in Requests : request'[r].o = o
             \/ \E v \in Writers : writer'[v].o = o \/ o \in writer'[v].left
    BY <1>1, <2>4 DEF Referenced, Registered
  <2>5. QED
    BY <2>2, <2>3, <2>4 DEF Referenced, Registered
<1>6. TypeInv'
  <2>1. /\ cur' \in [Urls -> Ref]
        /\ drainer' \in [Drainers -> [pc : DrainerPcs, o : Ref]]
    BY <1>1, <1>2, <1>3 DEF Ref
  <2>2. QED
    BY <1>1, <1>4, <2>1 DEF IInv, TypeInv
<1>7. \A e \in Drainers : e # d => drainer'[e] = drainer[e]
  BY <1>1
<1>8. RefsOK'
  <2>1. \A e \in Drainers : drainer'[e].pc # "idle" => drainer'[e].o \in Objects
    BY <1>1, <1>3, <1>7 DEF IInv, RefsOK
  <2>2. \A x \in Urls : cur'[x] # None => cur'[x] = cur[x]
    BY <1>1, <1>2
  <2>3. cur' \in [Urls -> Ref]
    BY <1>6 DEF TypeInv
  <2>4. QED
    BY <1>1, <1>4, <1>5, <2>1, <2>2, <2>3, EntriesKept DEF IInv, RefsOK
<1>9. \A v \in Writers : writer'[v].pc # "hook" /\ mu' # v
  BY <1>1, NoneAssumption DEF IInv, HookOK
<1>10. HookOK'
  BY <1>9 DEF HookOK
<1>11. IndexOK'
  <2> SUFFICES ASSUME NEW x \in Urls, index'[x] # None
               PROVE  index'[x] = cur'[x] \/ Pending(x)'
    BY DEF IndexOK
  <2>1. index'[x] = index[x] /\ (index[x] = cur[x] \/ Pending(x))
    BY <1>1 DEF IInv, IndexOK
  <2>2. ASSUME Pending(x) PROVE Pending(x)'
    <3>1. PICK e \in Drainers : drainer[e].pc = "drop" /\ Url(drainer[e]) = x
      BY <1>1, <1>9, <2>2 DEF Pending
    <3>2. drainer'[e] = drainer[e]
      BY <1>1, <1>7, <3>1
    <3>3. QED
      BY <1>4, <3>1, <3>2, DropKept DEF IInv
  <2>3. CASE x = u /\ cur[u] # None
    <3>1. drainer'[d].pc = "drop" /\ drainer'[d].o = b
      BY <1>1, <1>3, <2>3
    <3>2. Referenced(b)'
      BY <3>1 DEF Referenced
    <3>3. QED
      BY <1>1, <1>4, <2>3, <3>1, <3>2 DEF Pending, Url
  <2>4. CASE x # u \/ cur[u] = None
    BY <1>1, <1>2, <2>1, <2>2, <2>4
  <2>5. QED
    BY <2>3, <2>4
<1>12. DrainHasWatcher'
  <2>1. \A x \in Urls : cur'[x] # None => cur'[x] = cur[x]
    BY <1>1, <1>2
  <2>2. cur' \in [Urls -> Ref]
    BY <1>6 DEF TypeInv
  <2>3. \A o \in Registered' : o \in Objects /\ o \in Registered /\ obj'[o] = obj[o]
    BY <1>4, <1>5, <2>1, <2>2, EntriesKept DEF IInv
  <2>4. b \notin Registered'
    <3> SUFFICES ASSUME NEW x \in Urls, cur'[x] = b PROVE FALSE
      BY DEF Registered
    <3>1. cur[x] = b /\ x # u
      BY <1>1, <1>2, NoneAssumption
    <3>2. QED
      BY <1>1, <3>1, NoneAssumption DEF IInv, RefsOK
  <2>5. QED
    BY <1>6, <1>7, <2>3, <2>4, StillWatched
<1>13. QED
  BY <1>6, <1>8, <1>10, <1>11, <1>12 DEF IInv

\* The OnDrop hook takes the URL out of the index.
LEMMA DropStep ==
  ASSUME IInv, NEW d \in Drainers, Drop(d)
  PROVE  IInv'
<1> DEFINE b == drainer[d].o
           u == obj[b].url
<1>1. /\ drainer[d].pc = "drop"
      /\ cur \in [Urls -> Ref] /\ drainer \in [Drainers -> [pc : DrainerPcs, o : Ref]]
      /\ obj \in [Objects -> Backend] /\ index \in [Urls -> Ref]
      /\ UNCHANGED << cur, mu, writer, request >>
      /\ b \in Objects
      /\ index' = [index EXCEPT ![u] = None]
      /\ drainer' = [drainer EXCEPT ![d] = Idle]
  BY DEF IInv, TypeInv, RefsOK, Drop, Unindexed, Url
<1>2. u \in Urls
  BY <1>1 DEF IInv, RefsOK, Referenced
<1>3. Idle \in [pc : DrainerPcs, o : Ref] /\ Idle.pc = "idle" /\ Idle.o = None
  BY DEF Idle, DrainerPcs, Ref
<1>4. /\ obj' \in [Objects -> Backend]
      /\ \A o \in Objects : Referenced(o)' => obj'[o] = obj[o]
  BY <1>1, HeapFacts DEF Drop
<1>5. \A o \in Objects : Referenced(o)' => Referenced(o)
  <2> SUFFICES ASSUME NEW o \in Objects, Referenced(o)' PROVE Referenced(o)
    OBVIOUS
  <2>1. o # None
    BY NoneAssumption
  <2>2. CASE \E e \in Drainers : drainer'[e].o = o
    BY <1>1, <1>3, <2>1, <2>2 DEF Referenced
  <2>3. CASE \E x \in Urls : index'[x] = o
    BY <1>1, <1>2, <2>1, <2>3 DEF Referenced, Registered
  <2>4. CASE \/ \E x \in Urls : cur'[x] = o
             \/ \E r \in Requests : request'[r].o = o
             \/ \E v \in Writers : writer'[v].o = o \/ o \in writer'[v].left
    BY <1>1, <2>4 DEF Referenced, Registered
  <2>5. QED
    BY <2>2, <2>3, <2>4 DEF Referenced, Registered
<1>6. TypeInv'
  <2>1. /\ index' \in [Urls -> Ref]
        /\ drainer' \in [Drainers -> [pc : DrainerPcs, o : Ref]]
    BY <1>1, <1>2, <1>3 DEF Ref
  <2>2. QED
    BY <1>1, <1>4, <2>1 DEF IInv, TypeInv
<1>7. \A e \in Drainers : /\ e # d => drainer'[e] = drainer[e]
                          /\ drainer'[e].pc # "idle" => drainer'[e] = drainer[e]
  BY <1>1, <1>3
<1>8. RefsOK'
  <2>1. \A e \in Drainers : drainer'[e].pc # "idle" => drainer'[e].o \in Objects
    BY <1>7 DEF IInv, RefsOK
  <2>2. QED
    BY <1>1, <1>4, <1>5, <2>1, EntriesKept DEF IInv, RefsOK
<1>9. \A v \in Writers : writer[v].pc = "hook" =>
        writer[v].o \in Objects /\ obj'[writer[v].o] = obj[writer[v].o]
  BY <1>1, <1>4 DEF IInv, RefsOK, Referenced
<1>10. HookOK'
  BY <1>1, <1>9 DEF IInv, HookOK, Url
<1>11. IndexOK'
  <2> SUFFICES ASSUME NEW x \in Urls, index'[x] # None
               PROVE  index'[x] = cur'[x] \/ Pending(x)'
    BY DEF IndexOK
  <2>1. x # u /\ index'[x] = index[x] /\ (index[x] = cur[x] \/ Pending(x))
    BY <1>1, <1>2 DEF IInv, IndexOK
  <2>2. ASSUME Pending(x) PROVE Pending(x)'
    <3>1. CASE \E v \in Writers : writer[v].pc = "hook" /\ Url(writer[v]) = x
      BY <1>1, <1>9, <3>1 DEF Pending, Url
    <3>2. CASE \E e \in Drainers : drainer[e].pc = "drop" /\ Url(drainer[e]) = x
      <4>1. PICK e \in Drainers : drainer[e].pc = "drop" /\ Url(drainer[e]) = x
        BY <3>2
      <4>2. e # d
        BY <2>1, <4>1 DEF Url
      <4>3. drainer'[e] = drainer[e]
        BY <1>7, <4>2
      <4>4. QED
        BY <1>4, <4>1, <4>3, DropKept DEF IInv
    <3>3. QED
      BY <2>2, <3>1, <3>2 DEF Pending
  <2>3. QED
    BY <1>1, <2>1, <2>2
<1>12. DrainHasWatcher'
  <2>1. \A e \in Drainers : drainer[e].pc \in {"watch", "unlink"} => drainer'[e] = drainer[e]
    BY <1>1, <1>7
  <2>2. QED
    BY <1>1, <1>4, <1>6, <2>1, StillWatched, SameSnapshot
<1>13. QED
  BY <1>6, <1>8, <1>10, <1>11, <1>12 DEF IInv

----------------------------------------------------------------------------
\* Every step of the registry preserves the invariant.
LEMMA NextIInv == IInv /\ [Next]_vars => IInv'
<1> SUFFICES ASSUME IInv, [Next]_vars PROVE IInv'
  OBVIOUS
<1>1. CASE UNCHANGED vars
  <2>1. /\ TypeInv' = TypeInv /\ RefsOK' = RefsOK /\ HookOK' = HookOK
        /\ DrainHasWatcher' = DrainHasWatcher
    BY <1>1 DEF vars, TypeInv, RefsOK, HookOK, Url, DrainHasWatcher, Registered, Referenced
  <2>2. IndexOK'
    BY <1>1 DEF vars, IInv, IndexOK, Pending, Url
  <2>3. QED
    BY <2>1, <2>2 DEF IInv
<1>2. ASSUME NEW w \in Writers,
             \/ \E u \in Urls : AdminAdd(w, u) \/ Remove(w, u)
             \/ \E want \in SUBSET Urls : Reconcile(w, want)
             \/ WriterStep(w)
      PROVE  IInv'
  BY <1>2, AddSteps, WriterLocals, DrainSteps, AddHookStep DEF WriterStep
<1>3. ASSUME NEW d \in Drainers, DrainerStep(d) PROVE IInv'
  BY <1>3, WatchSteps, UnlinkStep, DropStep DEF DrainerStep
<1>4. ASSUME NEW r \in Requests,
             (\E u \in Urls : Candidate(r, u)) \/ Acquire(r) \/ Release(r)
      PROVE  IInv'
  BY <1>4, RequestSteps
<1>5. QED
  BY <1>1, <1>2, <1>3, <1>4 DEF Next

\* The invariant holds in every reachable state.
LEMMA IInvAlways == Spec => []IInv
<1>1. QED
  BY InitIInv, NextIInv, PTL DEF Spec

\* registry.go:196-219, for any number of writers and drains: a registered backend
\* marked draining has a goroutine watching it.
THEOREM DrainAlwaysWatched == Spec => []DrainHasWatcher
<1>1. IInv => DrainHasWatcher
  BY DEF IInv
<1>2. QED
  BY <1>1, IInvAlways, PTL

----------------------------------------------------------------------------
(* What a step does to the backends somebody refers to. *)

\* What a new backend is, and that no other changes as it is published.
LEMMA NewFacts ==
  ASSUME IInv, NEW w \in Writers, NEW u \in Urls, NEW prov \in {"static", "discovered"},
         NEW b \in Objects, AddNew(w, u, prov, b)
  PROVE  /\ Referenced(b)' /\ obj'[b].url = u
         /\ ~Referenced(b) /\ cur[u] = None /\ cur' = [cur EXCEPT ![u] = b]
         /\ \A o \in Objects : Referenced(o)' /\ o # b => obj'[o] = obj[o]
         /\ cur \in [Urls -> Ref] /\ UNCHANGED << drainer, request, index >>
<1> DEFINE new == [url |-> u, prov |-> prov, draining |-> FALSE, inflight |-> 0]
           f == [obj EXCEPT ![b] = new]
<1>1. /\ cur \in [Urls -> Ref] /\ obj \in [Objects -> Backend]
      /\ cur' = [cur EXCEPT ![u] = b] /\ cur[u] = None /\ ~Referenced(b)
      /\ UNCHANGED << drainer, request, index >>
  BY DEF IInv, TypeInv, AddNew
<1>2. new \in Backend /\ f \in [Objects -> Backend]
  BY <1>1 DEF Backend
<1>3. \A o \in Objects : Referenced(o)' => obj'[o] = f[o]
  BY <1>2, HeapFacts DEF AddNew
<1>4. Referenced(b)'
  BY <1>1 DEF Referenced, Registered
<1>5. QED
  BY <1>1, <1>3, <1>4

\* A step that publishes nothing keeps every backend what it was, and whatever it
\* puts in service is recorded with the sweeps under way.
Kept ==
  /\ \A x \in Urls : cur'[x] # None => cur'[x] = cur[x]
  /\ \A o \in Objects : Referenced(o)' =>
       /\ obj'[o].url = obj[o].url /\ obj'[o].prov = obj[o].prov
       /\ obj'[o].draining = FALSE =>
            obj[o].draining = FALSE \/ revived' = Revived(obj[o].url)

\* The same for what the step leaves before anything is collected.
Keeps(f) ==
  \A o \in Objects :
    /\ f[o].url = obj[o].url /\ f[o].prov = obj[o].prov
    /\ f[o].draining = FALSE => obj[o].draining = FALSE \/ revived' = Revived(obj[o].url)

LEMMA KeptHeap ==
  ASSUME NEW f \in [Objects -> Backend], Keeps(f), Heap(f) \/ obj' = f,
         \A x \in Urls : cur'[x] # None => cur'[x] = cur[x]
  PROVE  Kept
<1>1. \A o \in Objects : Referenced(o)' => obj'[o] = f[o]
  BY HeapFacts
<1>2. QED
  BY <1>1 DEF Kept, Keeps

\* Add of a URL that is registered.
LEMMA KeptExisting ==
  ASSUME IInv, NEW u \in Urls, NEW prov, AddExisting(u, prov)
  PROVE  Kept
<1> DEFINE b == cur[u]
           f == [obj EXCEPT ![b].draining = FALSE]
<1>1. b \in Objects /\ obj[b].url = u /\ obj \in [Objects -> Backend] /\ cur' = cur
  BY DEF IInv, TypeInv, RefsOK, Ref, AddExisting
<1>2. CASE MayUpdate(obj[b], prov)
  <2>1. f \in [Objects -> Backend] /\ \A o \in Objects :
          /\ f[o].url = obj[o].url /\ f[o].prov = obj[o].prov
          /\ o # b => f[o] = obj[o]
    BY <1>1 DEF Backend
  <2>2. obj[b].draining = FALSE \/ revived' = Revived(u)
    BY <1>1, <1>2 DEF AddExisting, Backend
  <2>3. Heap(f)
    BY <1>2 DEF AddExisting
  <2>4. Keeps(f)
    BY <1>1, <2>1, <2>2 DEF Keeps
  <2> HIDE DEF f
  <2>5. QED
    BY <1>1, <2>1, <2>3, <2>4, KeptHeap
<1>3. CASE ~MayUpdate(obj[b], prov)
  <2>1. Heap(obj) /\ Keeps(obj)
    BY <1>3 DEF AddExisting, Keeps
  <2>2. QED
    BY <1>1, <2>1, KeptHeap
<1>4. QED
  BY <1>2, <1>3

\* drain sets one flag.
LEMMA KeptDrain ==
  ASSUME IInv, NEW b \in Objects, Drain(b), cur' = cur
  PROVE  Kept
<1> DEFINE f == [obj EXCEPT ![b].draining = TRUE]
<1>1. obj \in [Objects -> Backend]
  BY DEF IInv, TypeInv
<1>2. f \in [Objects -> Backend]
  BY <1>1 DEF Backend
<1>3. Keeps(f)
  BY <1>1 DEF Keeps, Backend
<1>4. Heap(f)
  BY DEF Drain
<1> HIDE DEF f
<1>5. QED
  BY <1>2, <1>3, <1>4, KeptHeap

\* Every step of the drains and the requests.
LEMMA KeptOthers ==
  ASSUME IInv,
         \/ \E d \in Drainers : DrainerStep(d)
         \/ \E r \in Requests : \/ \E u \in Urls : Candidate(r, u)
                                \/ Acquire(r) \/ Release(r)
  PROVE  Kept /\ writer' = writer /\ revived' = revived /\ raced' = raced
<1>1. /\ obj \in [Objects -> Backend] /\ cur \in [Urls -> Ref]
      /\ writer' = writer /\ revived' = revived /\ raced' = raced
  BY DEF IInv, TypeInv, DrainerStep, WatchIdle, WatchDeadline, Unlink, Drop,
         Candidate, Acquire, Release, history
<1>2. \A x \in Urls : cur'[x] # None => cur'[x] = cur[x]
  <2>1. ASSUME NEW d \in Drainers, Unlink(d)
        PROVE  \A x \in Urls : cur'[x] # None => cur'[x] = cur[x]
    BY <1>1, <2>1 DEF Unlink
  <2>2. QED
    BY <2>1 DEF DrainerStep, WatchIdle, WatchDeadline, Drop, Candidate, Acquire, Release
<1>3. CASE obj' = obj \/ Heap(obj)
  BY <1>1, <1>2, <1>3, KeptHeap DEF Keeps
<1>4. ASSUME NEW r \in Requests, Acquire(r) \/ Release(r) PROVE Kept
  <2>1. request[r].o \in Objects
    BY <1>4 DEF IInv, RefsOK, Acquire, Release
  <2>2. PICK n \in Int : Heap([obj EXCEPT ![request[r].o].inflight = n])
    <3> DEFINE i == obj[request[r].o].inflight
    <3>1. i \in Int /\ i + 1 \in Int /\ i - 1 \in Int
      BY <1>1, <2>1 DEF Backend
    <3>2. CASE Acquire(r)
      BY <3>1, <3>2 DEF Acquire, Leased
    <3>3. CASE Release(r)
      BY <3>1, <3>3 DEF Release
    <3>4. QED
      BY <1>4, <3>2, <3>3
  <2> DEFINE f == [obj EXCEPT ![request[r].o].inflight = n]
  <2>3. f \in [Objects -> Backend]
    BY <1>1, <2>1 DEF Backend
  <2>4. Keeps(f)
    BY <1>1, <2>1 DEF Keeps, Backend
  <2>5. QED
    BY <1>2, <2>2, <2>3, <2>4, KeptHeap
<1>5. QED
  BY <1>1, <1>3, <1>4 DEF DrainerStep, WatchIdle, WatchDeadline, Unlink, Drop, Candidate

\* A writer's own step, and one that makes it, or leaves it, a sweeping writer.
Acts(w) ==
  \/ \E u \in Urls : AdminAdd(w, u) \/ Remove(w, u)
  \/ \E want \in SUBSET Urls : Reconcile(w, want)
  \/ WriterStep(w)

Publishes(w) ==
  /\ mu = None
  /\ \E u \in Urls, prov \in {"static", "discovered"}, b \in Objects :
       /\ AddNew(w, u, prov, b)
       /\ writer'[w].pc = "hook" /\ writer'[w].o = b

Quiet(w) ==
  /\ Kept /\ index' = index /\ raced' = raced /\ writer[w].pc # "hook"
  /\ \A d \in Drainers : drainer'[d].pc = "drop" => drainer'[d] = drainer[d]

\* A writer's step publishes a backend, runs its hook, or does neither; it moves no
\* other writer's locals, and what others put in service stays recorded.
LEMMA WriterActs ==
  ASSUME IInv, revived \in [Writers -> SUBSET Urls], NEW w \in Writers, Acts(w)
  PROVE  /\ Publishes(w) \/ (AddHook(w) /\ Kept) \/ Quiet(w)
         /\ \A v \in Writers \ {w} : /\ writer'[v] = writer[v]
                                     /\ revived[v] \subseteq revived'[v]
<1>1. /\ obj \in [Objects -> Backend] /\ writer \in [Writers -> Call]
      /\ drainer \in [Drainers -> [pc : DrainerPcs, o : Ref]]
  BY DEF IInv, TypeInv
<1>2. ASSUME NEW u \in Urls, NEW prov, AddExisting(u, prov), writer[w].pc # "hook"
      PROVE  Quiet(w) /\ \A v \in Writers : revived[v] \subseteq revived'[v]
  <2>1. Kept
    BY <1>2, KeptExisting
  <2>2. \A v \in Writers : revived[v] \subseteq revived'[v]
    BY <1>2 DEF AddExisting, Revived
  <2>3. index' = index /\ raced' = raced /\ drainer' = drainer
    BY <1>2 DEF AddExisting
  <2>4. QED
    BY <1>2, <2>1, <2>2, <2>3 DEF Quiet
<1>3. ASSUME NEW u \in Urls, NEW prov, NEW b \in Objects, AddNew(w, u, prov, b)
      PROVE  \A v \in Writers : revived[v] \subseteq revived'[v]
  BY <1>3 DEF AddNew, Revived
<1>4. ASSUME NEW u \in Urls, AdminAdd(w, u)
      PROVE  /\ Publishes(w) \/ Quiet(w)
             /\ \A v \in Writers \ {w} : /\ writer'[v] = writer[v]
                                         /\ revived[v] \subseteq revived'[v]
  <2>1. CASE UNCHANGED writer /\ AddExisting(u, "static")
    <3>1. writer[w].pc # "hook" /\ \A v \in Writers \ {w} : writer'[v] = writer[v]
      BY <1>1, <1>4, <2>1 DEF AdminAdd
    <3>2. QED
      BY <1>2, <2>1, <3>1
  <2>2. ASSUME NEW b \in Objects,
               writer' = [writer EXCEPT ![w].pc = "hook", ![w].o = b],
               AddNew(w, u, "static", b)
        PROVE  /\ Publishes(w)
               /\ \A v \in Writers \ {w} : /\ writer'[v] = writer[v]
                                           /\ revived[v] \subseteq revived'[v]
    <3>1. writer'[w].pc = "hook" /\ writer'[w].o = b
      BY <1>1, <2>2 DEF Call
    <3>2. mu = None
      BY <1>4 DEF AdminAdd
    <3>3. Publishes(w)
      BY <2>2, <3>1, <3>2 DEF Publishes
    <3>4. \A v \in Writers \ {w} : writer'[v] = writer[v]
      BY <1>1, <2>2
    <3>5. QED
      BY <1>3, <2>2, <3>3, <3>4
  <2>3. QED
    BY <1>4, <2>1, <2>2 DEF AdminAdd
<1>5. ASSUME NEW u \in Urls, ReconcileAdd(w, u)
      PROVE  /\ Publishes(w) \/ Quiet(w)
             /\ \A v \in Writers \ {w} : /\ writer'[v] = writer[v]
                                         /\ revived[v] \subseteq revived'[v]
  <2>1. CASE writer' = [writer EXCEPT ![w].todo = @ \ {u}] /\ AddExisting(u, "discovered")
    <3>1. writer[w].pc # "hook" /\ \A v \in Writers \ {w} : writer'[v] = writer[v]
      BY <1>1, <1>5, <2>1 DEF ReconcileAdd
    <3>2. QED
      BY <1>2, <2>1, <3>1
  <2>2. ASSUME NEW b \in Objects,
               writer' = [writer EXCEPT ![w].pc = "hook", ![w].o = b, ![w].todo = @ \ {u}],
               AddNew(w, u, "discovered", b)
        PROVE  /\ Publishes(w)
               /\ \A v \in Writers \ {w} : /\ writer'[v] = writer[v]
                                           /\ revived[v] \subseteq revived'[v]
    <3>1. writer'[w].pc = "hook" /\ writer'[w].o = b
      BY <1>1, <2>2 DEF Call
    <3>2. mu = None
      BY <1>5 DEF ReconcileAdd
    <3>3. Publishes(w)
      BY <2>2, <3>1, <3>2 DEF Publishes
    <3>4. \A v \in Writers \ {w} : writer'[v] = writer[v]
      BY <1>1, <2>2
    <3>5. QED
      BY <1>3, <2>2, <3>3, <3>4
  <2>3. QED
    BY <1>5, <2>1, <2>2 DEF ReconcileAdd
<1>6. ASSUME \/ \E u \in Urls : Remove(w, u)
             \/ \E want \in SUBSET Urls : Reconcile(w, want)
             \/ ReconcileLoad(w) \/ ReconcileDone(w) \/ AddHook(w)
      PROVE  /\ (AddHook(w) /\ Kept) \/ Quiet(w)
             /\ \A v \in Writers \ {w} : /\ writer'[v] = writer[v]
                                         /\ revived[v] \subseteq revived'[v]
  <2>1. cur' = cur /\ (obj' = obj \/ Heap(obj)) /\ raced' = raced /\ drainer' = drainer
    BY <1>6 DEF Remove, Reconcile, ReconcileLoad, ReconcileDone, AddHook, history
  <2>2. Kept
    BY <1>1, <2>1, KeptHeap DEF Keeps
  <2>3. \A v \in Writers \ {w} : writer'[v] = writer[v]
    BY <1>1, <1>6 DEF Remove, Reconcile, ReconcileLoad, ReconcileDone, AddHook
  <2>4. \A v \in Writers \ {w} : revived'[v] = revived[v]
    BY <1>6 DEF Remove, Reconcile, ReconcileLoad, ReconcileDone, AddHook, history
  <2>5. AddHook(w) \/ (index' = index /\ writer[w].pc # "hook")
    BY <1>6 DEF Remove, Reconcile, ReconcileLoad, ReconcileDone
  <2>6. QED
    BY <2>1, <2>2, <2>3, <2>4, <2>5 DEF Quiet
<1>7. ASSUME RemoveDrain(w) \/ \E o \in Objects : ReconcileDrain(w, o)
      PROVE  /\ Quiet(w)
             /\ \A v \in Writers \ {w} : /\ writer'[v] = writer[v]
                                         /\ revived[v] \subseteq revived'[v]
  <2>1. /\ cur' = cur /\ revived' = revived /\ index' = index /\ raced' = raced
        /\ writer[w].pc # "hook" /\ \A v \in Writers \ {w} : writer'[v] = writer[v]
    BY <1>1, <1>7 DEF RemoveDrain, ReconcileDrain, history
  <2>2. CASE \E b \in Objects : Drain(b)
    <3>1. Kept
      BY <2>1, <2>2, KeptDrain
    <3>2. \A d \in Drainers : drainer'[d].pc = "drop" => drainer'[d] = drainer[d]
      BY <1>1, <2>2 DEF Drain
    <3>3. QED
      BY <2>1, <3>1, <3>2 DEF Quiet
  <2>3. CASE UNCHANGED drainer /\ Heap(obj)
    BY <1>1, <2>1, <2>3, KeptHeap DEF Keeps, Quiet
  <2>4. writer[w].pc = "drain" => writer[w].o \in Objects
    BY DEF IInv, RefsOK
  <2>5. QED
    BY <1>7, <2>1, <2>2, <2>3, <2>4 DEF RemoveDrain, ReconcileDrain
<1>8. QED
  BY <1>4, <1>5, <1>6, <1>7 DEF Acts, WriterStep

----------------------------------------------------------------------------
(* The index. *)

\* A writer is in its hook for u.
HookPending(u) == \E w \in Writers : writer[w].pc = "hook" /\ Url(writer[w]) = u

\* Of what is registered at u, the index differs only while its hook is to come, or
\* because a drop that was to come when it was published has taken its entry out; and
\* where none was to come, none is.
RacedInv ==
  \A u \in Urls : cur[u] # None =>
    /\ index[u] = cur[u] \/ HookPending(u) \/ (index[u] = None /\ u \in raced)
    /\ u \in raced \/ ~DropPending(u)

\* A step that publishes nothing, with its hooks and drops still to come, or fewer
\* drops, and with the index and the snapshot as they were.
LEMMA RacedKept ==
  ASSUME RacedInv, IInv, Kept, NEW x \in Urls, cur'[x] # None,
         index'[x] = index[x], raced' = raced,
         \A d \in Drainers : drainer'[d].pc = "drop" =>
           \/ drainer'[d] = drainer[d]
           \/ /\ drainer'[d].o = drainer[d].o /\ drainer[d].pc # "idle"
              /\ Url(drainer[d]) # x,
         \A w \in Writers : writer[w].pc = "hook" /\ Url(writer[w]) = x =>
           writer'[w].pc = "hook" /\ writer'[w].o = writer[w].o
  PROVE  /\ index'[x] = cur'[x] \/ HookPending(x)' \/ (index'[x] = None /\ x \in raced')
         /\ x \in raced' \/ ~DropPending(x)'
<1>1. cur'[x] = cur[x] /\ cur[x] # None
  BY DEF Kept
<1>2. DropPending(x)' => DropPending(x)
  <2> SUFFICES ASSUME NEW d \in Drainers, drainer'[d].pc = "drop",
                      obj'[drainer'[d].o].url = x
               PROVE  DropPending(x)
    BY DEF DropPending, Url
  <2>1. drainer'[d].o = drainer[d].o /\ drainer[d].pc # "idle"
    OBVIOUS
  <2>2. drainer[d].o \in Objects /\ Referenced(drainer[d].o)'
    BY <2>1 DEF IInv, RefsOK, Referenced
  <2>3. obj[drainer[d].o].url = x
    BY <2>1, <2>2 DEF Kept
  <2>4. drainer'[d] = drainer[d]
    BY <2>3 DEF Url
  <2>5. QED
    BY <2>3, <2>4 DEF DropPending, Url
<1>3. HookPending(x) => HookPending(x)'
  <2> SUFFICES ASSUME NEW w \in Writers, writer[w].pc = "hook", Url(writer[w]) = x
               PROVE  writer'[w].pc = "hook" /\ obj'[writer'[w].o].url = x
    BY DEF HookPending, Url
  <2>1. writer[w].o \in Objects /\ writer'[w].pc = "hook" /\ writer'[w].o = writer[w].o
    BY DEF IInv, RefsOK
  <2>2. Referenced(writer[w].o)'
    BY <2>1 DEF Referenced
  <2>3. QED
    BY <2>1, <2>2 DEF Kept, Url
<1>4. QED
  BY <1>1, <1>2, <1>3 DEF RacedInv

\* A backend is published: its hook is to come, and the drops to come are known.
LEMMA RacedPublishes ==
  ASSUME RacedInv, IInv, NEW w \in Writers, Publishes(w)
  PROVE  RacedInv'
<1>1. PICK u \in Urls, prov \in {"static", "discovered"}, b \in Objects :
        AddNew(w, u, prov, b) /\ writer'[w].pc = "hook" /\ writer'[w].o = b
  BY DEF Publishes
<1>2. /\ Referenced(b)' /\ obj'[b].url = u
      /\ ~Referenced(b) /\ cur[u] = None /\ cur' = [cur EXCEPT ![u] = b]
      /\ \A o \in Objects : Referenced(o)' /\ o # b => obj'[o] = obj[o]
      /\ cur \in [Urls -> Ref] /\ UNCHANGED << drainer, request, index >>
  BY <1>1, NewFacts
<1>3. \A x \in Urls : DropPending(x)' => DropPending(x)
  <2> SUFFICES ASSUME NEW x \in Urls, NEW d \in Drainers, drainer[d].pc = "drop",
                      obj'[drainer[d].o].url = x
               PROVE  obj[drainer[d].o].url = x
    BY <1>2 DEF DropPending, Url
  <2>1. drainer[d].o \in Objects /\ Referenced(drainer[d].o) /\ Referenced(drainer[d].o)'
    BY <1>2 DEF IInv, RefsOK, Referenced
  <2>2. QED
    BY <1>2, <2>1
<1>4. HookPending(u)'
  BY <1>1, <1>2 DEF HookPending, Url
<1>5. \A x \in Urls : ~HookPending(x)
  BY NoneAssumption DEF Publishes, HookPending, IInv, HookOK
<1>6. raced' = IF DropPending(u) THEN raced \cup {u} ELSE raced \ {u}
  BY <1>1 DEF AddNew
<1> SUFFICES ASSUME NEW x \in Urls, cur'[x] # None
             PROVE  /\ \/ index'[x] = cur'[x] \/ HookPending(x)'
                       \/ (index'[x] = None /\ x \in raced')
                    /\ x \in raced' \/ ~DropPending(x)'
  BY DEF RacedInv
<1>7. CASE x = u
  BY <1>3, <1>4, <1>6, <1>7
<1>8. CASE x # u
  BY <1>2, <1>3, <1>5, <1>6, <1>8 DEF RacedInv
<1>9. QED
  BY <1>7, <1>8

\* A writer's step: it publishes a backend, runs its hook, or does neither.
LEMMA RacedWriter ==
  ASSUME RacedInv, IInv, revived \in [Writers -> SUBSET Urls], NEW w \in Writers, Acts(w)
  PROVE  RacedInv'
<1>1. /\ Publishes(w) \/ (AddHook(w) /\ Kept) \/ Quiet(w)
      /\ \A v \in Writers \ {w} : writer'[v] = writer[v]
  BY WriterActs
<1>2. CASE AddHook(w) /\ Kept
  <2> DEFINE u == Url(writer[w])
  <2>1. /\ writer[w].pc = "hook" /\ mu = w /\ cur[u] = writer[w].o
        /\ index' = [index EXCEPT ![u] = writer[w].o] /\ index \in [Urls -> Ref]
        /\ UNCHANGED << cur, drainer, raced >>
    BY <1>2 DEF AddHook, IInv, TypeInv, HookOK, history
  <2>2. u \in Urls
    BY <2>1 DEF IInv, RefsOK, Referenced, Url
  <2>3. \A v \in Writers : writer[v].pc = "hook" => v = w
    BY <2>1 DEF IInv, HookOK
  <2>4. Kept
    BY <1>2
  <2> HIDE DEF u
  <2> SUFFICES ASSUME NEW x \in Urls, cur'[x] # None
               PROVE  /\ \/ index'[x] = cur'[x] \/ HookPending(x)'
                         \/ (index'[x] = None /\ x \in raced')
                      /\ x \in raced' \/ ~DropPending(x)'
    BY DEF RacedInv
  <2>5. CASE x # u
    <3>1. index'[x] = index[x] /\ raced' = raced
      BY <2>1, <2>2, <2>5
    <3>2. \A d \in Drainers : drainer'[d] = drainer[d]
      BY <2>1
    <3>3. \A v \in Writers : ~(writer[v].pc = "hook" /\ Url(writer[v]) = x)
      BY <2>3, <2>5 DEF u
    <3>4. QED
      BY <2>4, <3>1, <3>2, <3>3, RacedKept
  <2>6. CASE x = u
    <3>1. index'[x] = cur'[x] /\ cur[x] # None
      BY <2>1, <2>2, <2>6
    <3>2. x \in raced \/ ~DropPending(x)
      BY <3>1 DEF RacedInv
    <3>3. DropPending(x)' => DropPending(x)
      <4> SUFFICES ASSUME NEW d \in Drainers, drainer[d].pc = "drop",
                          obj'[drainer[d].o].url = x
                   PROVE  obj[drainer[d].o].url = x
        BY <2>1 DEF DropPending, Url
      <4>1. drainer[d].o \in Objects /\ Referenced(drainer[d].o)'
        BY <2>1 DEF IInv, RefsOK, Referenced
      <4>2. QED
        BY <2>1, <2>4, <4>1 DEF Kept
    <3>4. QED
      BY <2>1, <3>1, <3>2, <3>3
  <2>7. QED
    BY <2>5, <2>6
<1>3. CASE Quiet(w)
  <2> SUFFICES ASSUME NEW x \in Urls, cur'[x] # None
               PROVE  /\ \/ index'[x] = cur'[x] \/ HookPending(x)'
                         \/ (index'[x] = None /\ x \in raced')
                      /\ x \in raced' \/ ~DropPending(x)'
    BY DEF RacedInv
  <2>1. /\ Kept /\ index' = index /\ raced' = raced
        /\ \A d \in Drainers : drainer'[d].pc = "drop" => drainer'[d] = drainer[d]
    BY <1>3 DEF Quiet
  <2>2. \A v \in Writers : writer[v].pc = "hook" => writer'[v] = writer[v]
    BY <1>1, <1>3 DEF Quiet
  <2>3. QED
    BY <2>1, <2>2, RacedKept
<1>4. QED
  BY <1>1, <1>2, <1>3, RacedPublishes

\* The steps of the drains and the requests: unlink takes out what its drop will be
\* about, and the drop finds the URL empty or raced.
LEMMA RacedOthers ==
  ASSUME RacedInv, IInv,
         \/ \E d \in Drainers : DrainerStep(d)
         \/ \E r \in Requests : \/ \E u \in Urls : Candidate(r, u)
                                \/ Acquire(r) \/ Release(r)
  PROVE  RacedInv'
<1>1. Kept /\ writer' = writer /\ raced' = raced
  BY KeptOthers
<1>2. drainer \in [Drainers -> [pc : DrainerPcs, o : Ref]] /\ index \in [Urls -> Ref]
  BY DEF IInv, TypeInv
<1> SUFFICES ASSUME NEW x \in Urls, cur'[x] # None
             PROVE  /\ \/ index'[x] = cur'[x] \/ HookPending(x)'
                       \/ (index'[x] = None /\ x \in raced')
                    /\ x \in raced' \/ ~DropPending(x)'
  BY DEF RacedInv
<1>3. ASSUME NEW d \in Drainers, Unlink(d)
      PROVE  /\ \/ index'[x] = cur'[x] \/ HookPending(x)'
                \/ (index'[x] = None /\ x \in raced')
             /\ x \in raced' \/ ~DropPending(x)'
  <2> DEFINE u == Url(drainer[d])
  <2>1. /\ index' = index /\ drainer[d].pc = "unlink"
        /\ drainer' = [drainer EXCEPT ![d] =
             IF cur[u] = None THEN Idle ELSE [@ EXCEPT !.pc = "drop"]]
        /\ cur' = [cur EXCEPT ![u] = None] /\ cur \in [Urls -> Ref]
    BY <1>3 DEF Unlink, IInv, TypeInv
  <2>2. u \in Urls
    BY <2>1 DEF IInv, RefsOK, Referenced, Url
  <2>3. u # x
    BY <2>1, <2>2
  <2> HIDE DEF u
  <2>4. \A e \in Drainers : drainer'[e].pc = "drop" =>
          drainer'[e] = drainer[e] \/ (e = d /\ drainer'[e].o = drainer[e].o)
    BY <1>2, <2>1 DEF Idle
  <2>5. \A e \in Drainers : drainer'[e].pc = "drop" =>
          \/ drainer'[e] = drainer[e]
          \/ /\ drainer'[e].o = drainer[e].o /\ drainer[e].pc # "idle"
             /\ Url(drainer[e]) # x
    BY <2>1, <2>3, <2>4 DEF u
  <2>6. QED
    BY <1>1, <2>1, <2>5, RacedKept
<1>4. ASSUME NEW d \in Drainers, Drop(d)
      PROVE  /\ \/ index'[x] = cur'[x] \/ HookPending(x)'
                \/ (index'[x] = None /\ x \in raced')
             /\ x \in raced' \/ ~DropPending(x)'
  <2> DEFINE u == Url(drainer[d])
  <2>1. /\ index' = [index EXCEPT ![u] = None] /\ drainer[d].pc = "drop"
        /\ drainer' = [drainer EXCEPT ![d] = Idle] /\ cur' = cur
    BY <1>4 DEF Drop, Unindexed
  <2>2. u \in Urls
    BY <2>1 DEF IInv, RefsOK, Referenced, Url
  <2>3. \A e \in Drainers : drainer'[e].pc = "drop" => drainer'[e] = drainer[e]
    BY <1>2, <2>1 DEF Idle
  <2> HIDE DEF u
  <2>4. CASE x # u
    <3>1. index'[x] = index[x]
      BY <1>2, <2>1, <2>4
    <3>2. QED
      BY <1>1, <2>3, <3>1, RacedKept
  <2>5. CASE x = u
    <3>1. DropPending(x)
      BY <2>1, <2>5 DEF DropPending, u
    <3>2. x \in raced' /\ index'[x] = None
      BY <1>1, <1>2, <2>1, <2>2, <2>5, <3>1 DEF RacedInv
    <3>3. QED
      BY <3>2
  <2>6. QED
    BY <2>4, <2>5
<1>5. CASE \/ \E d \in Drainers : WatchIdle(d) \/ WatchDeadline(d)
           \/ \E r \in Requests : \/ \E u \in Urls : Candidate(r, u)
                                  \/ Acquire(r) \/ Release(r)
  <2>1. index' = index
    BY <1>5 DEF WatchIdle, WatchDeadline, Candidate, Acquire, Release
  <2>2. \A e \in Drainers : drainer'[e].pc = "drop" => drainer'[e] = drainer[e]
    BY <1>2, <1>5 DEF WatchIdle, WatchDeadline, AtDeadline, Candidate, Acquire, Release
  <2>3. QED
    BY <1>1, <2>1, <2>2, RacedKept
<1>6. QED
  BY <1>3, <1>4, <1>5 DEF DrainerStep

\* What others put in service is recorded with every sweep.
LEMMA RevivedTyped ==
  ASSUME IInv, revived \in [Writers -> SUBSET Urls], [Next]_vars
  PROVE  revived' \in [Writers -> SUBSET Urls]
<1>1. ASSUME NEW u \in Urls PROVE Revived(u) \in [Writers -> SUBSET Urls]
  BY <1>1 DEF Revived
<1>2. \/ revived' = revived
      \/ \E u \in Urls : revived' = Revived(u)
      \/ \E w \in Writers : revived' = [revived EXCEPT ![w] = {}]
  <2>1. CASE UNCHANGED vars
    BY <2>1 DEF vars, history
  <2>2. ASSUME NEW w \in Writers, Acts(w)
        PROVE  \/ revived' = revived
               \/ \E u \in Urls : revived' = Revived(u)
               \/ revived' = [revived EXCEPT ![w] = {}]
    <3>1. CASE \E u \in Urls : AdminAdd(w, u) \/ ReconcileAdd(w, u)
      BY <3>1 DEF AdminAdd, ReconcileAdd, AddExisting, AddNew
    <3>2. CASE \/ \E u \in Urls : Remove(w, u)
               \/ \E want \in SUBSET Urls : Reconcile(w, want)
               \/ ReconcileLoad(w) \/ ReconcileDone(w) \/ AddHook(w) \/ RemoveDrain(w)
               \/ \E o \in Objects : ReconcileDrain(w, o)
      BY <3>2 DEF Remove, Reconcile, ReconcileLoad, ReconcileDone, AddHook, RemoveDrain,
                  ReconcileDrain, history
    <3>3. QED
      BY <2>2, <3>1, <3>2 DEF Acts, WriterStep
  <2>3. QED
    BY <2>1, <2>2, KeptOthers DEF Next, Acts
<1>3. QED
  BY <1>1, <1>2

\* registry.go:237-241: with no writer and no drain under way the policy's index holds
\* for each URL what the registry does, in both directions; but for a URL that was added
\* again before its predecessor's OnDrop had run, which may have lost its entry to it.
THEOREM IndexAlwaysFollows == Spec => []IndexFollows
<1> DEFINE Inv == IInv /\ RacedInv /\ revived \in [Writers -> SUBSET Urls]
<1>1. Init => Inv
  BY InitIInv DEF Init, RacedInv
<1>2. Inv /\ [Next]_vars => Inv'
  <2> SUFFICES ASSUME Inv, [Next]_vars PROVE Inv'
    OBVIOUS
  <2>1. RacedInv'
    <3>1. CASE UNCHANGED vars
      BY <3>1 DEF vars, history, RacedInv, HookPending, DropPending, Url
    <3>2. CASE Next
      BY <3>2, RacedWriter, RacedOthers DEF Next, Acts
    <3>3. QED
      BY <3>1, <3>2
  <2>2. QED
    BY <2>1, NextIInv, RevivedTyped
<1>3. Inv => IndexFollows
  <2> SUFFICES ASSUME Inv, AtRest, NEW u \in Urls
               PROVE  index[u] = cur[u] \/ (index[u] = None /\ u \in raced)
    BY DEF IndexFollows
  <2>1. ~HookPending(u) /\ ~Pending(u)
    BY DEF AtRest, HookPending, Pending
  <2>2. QED
    BY <2>1 DEF IInv, IndexOK, RacedInv
<1>4. QED
  BY <1>1, <1>2, <1>3, PTL DEF Spec
----------------------------------------------------------------------------
(* The sweep of a reconciliation. *)

\* What w's sweep has still to look at, or others put in service meanwhile: of the
\* discovered backends in service all the rest is wanted.
Swept(w) ==
  writer[w].pc = "sweep" =>
    \A o \in Registered :
      obj[o].prov = "discovered" /\ obj[o].draining = FALSE =>
        obj[o].url \in writer[w].want \cup revived[w] \/ o \in writer[w].left

SweepOK == \A w \in Writers : Swept(w)

\* A step of another that publishes nothing.
LEMMA SweptKept ==
  ASSUME IInv, Kept, NEW w \in Writers, Swept(w),
         writer'[w] = writer[w], revived[w] \subseteq revived'[w]
  PROVE  Swept(w)'
<1> SUFFICES ASSUME writer[w].pc = "sweep", NEW o \in Registered',
                    obj'[o].prov = "discovered", obj'[o].draining = FALSE
             PROVE  obj'[o].url \in writer[w].want \cup revived'[w] \/ o \in writer[w].left
  BY DEF Swept
<1>1. o \in Objects /\ o \in Registered /\ Referenced(o)'
  BY NoneAssumption DEF Kept, Referenced, Registered
<1>2. /\ obj[o].prov = "discovered" /\ obj'[o].url = obj[o].url
      /\ obj[o].draining = FALSE \/ revived' = Revived(obj[o].url)
  BY <1>1 DEF Kept
<1>3. CASE obj[o].draining = FALSE
  BY <1>1, <1>2, <1>3 DEF Swept
<1>4. CASE revived' = Revived(obj[o].url)
  BY <1>2, <1>4 DEF Revived
<1>5. QED
  BY <1>2, <1>3, <1>4

\* A backend that is published is recorded with every sweep.
LEMMA SweptPublishes ==
  ASSUME IInv, NEW w \in Writers, Publishes(w), NEW v \in Writers, v # w, Swept(v),
         writer'[v] = writer[v], revived[v] \subseteq revived'[v]
  PROVE  Swept(v)'
<1>1. PICK u \in Urls, prov \in {"static", "discovered"}, b \in Objects :
        AddNew(w, u, prov, b)
  BY DEF Publishes
<1>2. /\ obj'[b].url = u /\ cur' = [cur EXCEPT ![u] = b] /\ cur \in [Urls -> Ref]
      /\ \A o \in Objects : Referenced(o)' /\ o # b => obj'[o] = obj[o]
  BY <1>1, NewFacts
<1> SUFFICES ASSUME writer[v].pc = "sweep", NEW o \in Registered',
                    obj'[o].prov = "discovered", obj'[o].draining = FALSE
             PROVE  obj'[o].url \in writer[v].want \cup revived'[v] \/ o \in writer[v].left
  BY DEF Swept
<1>3. CASE o = b
  BY <1>1, <1>2, <1>3 DEF AddNew, Revived
<1>4. CASE o # b
  <2>1. o \in Registered /\ Referenced(o)' /\ o \in Objects
    BY <1>2, <1>4 DEF Referenced, Registered
  <2>2. obj'[o] = obj[o]
    BY <1>2, <1>4, <2>1
  <2>3. QED
    BY <2>1, <2>2 DEF Swept
<1>5. QED
  BY <1>3, <1>4

\* The sweep's own steps: it starts from the snapshot, and takes a backend off its
\* list when it is wanted or draining.
LEMMA SweptOwn ==
  ASSUME IInv, NEW w \in Writers, Swept(w),
         ReconcileLoad(w) \/ \E o \in Objects : ReconcileDrain(w, o)
  PROVE  Swept(w)'
<1>1. writer \in [Writers -> Call] /\ obj \in [Objects -> Backend]
  BY DEF IInv, TypeInv
<1>2. CASE ReconcileLoad(w)
  <2>1. writer'[w].left = Registered /\ cur' = cur
    BY <1>1, <1>2 DEF ReconcileLoad, Call
  <2>2. QED
    BY <2>1, SameSnapshot DEF Swept
<1>3. ASSUME NEW b \in Objects, ReconcileDrain(w, b)
      PROVE  Swept(w)'
  <2>1. /\ cur' = cur /\ writer[w].pc = "sweep" /\ revived' = revived
        /\ writer'[w].want = writer[w].want
        /\ writer'[w].left = writer[w].left \ {b}
    BY <1>1, <1>3 DEF ReconcileDrain, Call, history
  <2> SUFFICES ASSUME NEW o \in Registered, obj'[o].prov = "discovered",
                      obj'[o].draining = FALSE
               PROVE  obj'[o].url \in writer'[w].want \cup revived'[w]
                      \/ o \in writer'[w].left
    BY <2>1, SameSnapshot DEF Swept
  <2>2. o \in Objects /\ Referenced(o)'
    BY <2>1, SameSnapshot
  <2>3. CASE Undesired(writer[w], obj[b])
    <3> DEFINE f == [obj EXCEPT ![b].draining = TRUE]
    <3>1. f \in [Objects -> Backend] /\ f[b].draining = TRUE
      BY <1>1 DEF Backend
    <3>2. Heap(f)
      BY <1>3, <2>3 DEF ReconcileDrain, Drain
    <3>3. obj'[o] = f[o]
      BY <2>2, <3>1, <3>2, HeapFacts
    <3>4. o # b
      BY <3>1, <3>3
    <3>5. obj'[o] = obj[o]
      BY <1>1, <2>2, <3>3, <3>4
    <3>6. QED
      BY <2>1, <3>4, <3>5 DEF Swept
  <2>4. CASE ~Undesired(writer[w], obj[b])
    <3>1. obj'[o] = obj[o]
      BY <1>1, <1>3, <2>2, <2>4, HeapFacts DEF ReconcileDrain
    <3>2. QED
      BY <2>1, <2>4, <3>1 DEF Swept, Undesired
  <2>5. QED
    BY <2>3, <2>4
<1>4. QED
  BY <1>2, <1>3

\* No other step of a writer's own leaves it sweeping.
LEMMA OwnSweep ==
  ASSUME IInv, NEW w \in Writers, Acts(w),
         ~ReconcileLoad(w), \A o \in Objects : ~ReconcileDrain(w, o)
  PROVE  writer'[w].pc # "sweep"
<1>1. writer \in [Writers -> Call]
  BY DEF IInv, TypeInv
<1>2. CASE \E u \in Urls : AdminAdd(w, u)
  BY <1>1, <1>2 DEF AdminAdd, Call
<1>3. CASE \E u \in Urls : Remove(w, u)
  BY <1>1, <1>3, ZenonT(40) DEF Remove, Call
<1>4. CASE \E u \in Urls : ReconcileAdd(w, u)
  BY <1>1, <1>4, ZenonT(40) DEF ReconcileAdd, Call
<1>5. CASE \E want \in SUBSET Urls : Reconcile(w, want)
  BY <1>1, <1>5 DEF Reconcile, NoCall
<1>6. CASE AddHook(w)
  <2>1. writer'[w] = IF writer[w].want = {} THEN NoCall
                     ELSE [writer[w] EXCEPT !.pc = "add", !.o = None]
    BY <1>1, <1>6 DEF AddHook
  <2>2. QED
    BY <1>1, <2>1 DEF NoCall, Call
<1>7. CASE RemoveDrain(w) \/ ReconcileDone(w)
  BY <1>1, <1>7 DEF RemoveDrain, ReconcileDone, NoCall
<1>8. QED
  BY <1>2, <1>3, <1>4, <1>5, <1>6, <1>7 DEF Acts, WriterStep

\* What every step keeps of the sweeps.
LEMMA SweepStep ==
  ASSUME IInv, SweepOK, revived \in [Writers -> SUBSET Urls], [Next]_vars
  PROVE  SweepOK'
<1>1. CASE UNCHANGED vars
  BY <1>1 DEF vars, history, SweepOK, Swept, Registered
<1>2. ASSUME NEW w \in Writers, Acts(w) PROVE SweepOK'
  <2>1. /\ Publishes(w) \/ Kept
        /\ \A v \in Writers \ {w} : writer'[v] = writer[v] /\ revived[v] \subseteq revived'[v]
    BY <1>2, WriterActs DEF Quiet
  <2>2. ASSUME NEW v \in Writers, v # w PROVE Swept(v)'
    BY <2>1, <2>2, SweptPublishes, SweptKept DEF SweepOK
  <2>3. Swept(w)'
    <3>1. CASE ReconcileLoad(w) \/ \E o \in Objects : ReconcileDrain(w, o)
      BY <3>1, SweptOwn DEF SweepOK
    <3>2. CASE ~ReconcileLoad(w) /\ \A o \in Objects : ~ReconcileDrain(w, o)
      BY <1>2, <3>2, OwnSweep DEF Swept
    <3>3. QED
      BY <3>1, <3>2
  <2>4. QED
    BY <2>2, <2>3 DEF SweepOK
<1>3. CASE \/ \E d \in Drainers : DrainerStep(d)
           \/ \E r \in Requests : \/ \E u \in Urls : Candidate(r, u)
                                  \/ Acquire(r) \/ Release(r)
  <2>1. Kept /\ writer' = writer /\ revived' = revived
    BY <1>3, KeptOthers
  <2>2. ASSUME NEW v \in Writers PROVE Swept(v)'
    BY <2>1, SweptKept DEF SweepOK
  <2>3. QED
    BY <2>2 DEF SweepOK
<1>4. QED
  BY <1>1, <1>2, <1>3 DEF Next, Acts

\* A sweep ends only by its own return, with nothing left to look at.
LEMMA SweepEnds ==
  ASSUME IInv, revived \in [Writers -> SUBSET Urls], Next, NEW w \in Writers,
         writer[w].pc = "sweep", writer'[w].pc = "idle"
  PROVE  writer[w].left = {}
<1>1. writer \in [Writers -> Call]
  BY DEF IInv, TypeInv
<1>2. ASSUME NEW v \in Writers, Acts(v) PROVE v = w
  BY <1>2, WriterActs
<1>3. ~ \/ \E d \in Drainers : DrainerStep(d)
        \/ \E r \in Requests : \/ \E u \in Urls : Candidate(r, u)
                               \/ Acquire(r) \/ Release(r)
  BY KeptOthers
<1>4. \E v \in Writers : Acts(v)
  BY <1>3 DEF Next, Acts
<1>5. Acts(w)
  BY <1>2, <1>4
<1>6. (\E o \in Objects : ReconcileDrain(w, o)) \/ ReconcileDone(w)
  BY <1>5 DEF Acts, AdminAdd, Remove, Reconcile, WriterStep, AddHook, RemoveDrain,
              ReconcileAdd, ReconcileLoad
<1>7. ASSUME NEW o \in Objects, ReconcileDrain(w, o)
      PROVE  writer'[w].pc = writer[w].pc
  BY <1>1, <1>7 DEF ReconcileDrain, Call
<1>8. QED
  BY <1>6, <1>7 DEF ReconcileDone

\* SD-7 (registry.go:247-252), whatever other writers, drains and requests do meanwhile:
\* when a reconciliation ends, no discovered backend its desired set lacks is left in
\* service, but for those others put in service since it read the snapshot it swept.
THEOREM ReconcileAlwaysDrains == Spec => ReconcileDrains
<1> DEFINE Inv == IInv /\ SweepOK /\ revived \in [Writers -> SUBSET Urls]
           Drained == \A w \in Writers :
             writer[w].pc = "sweep" /\ writer'[w].pc = "idle" =>
               \A o \in Registered :
                 obj[o].prov = "discovered" /\ ~obj[o].draining =>
                   obj[o].url \in writer[w].want \cup revived[w]
<1>1. Init => Inv
  BY InitIInv DEF Init, SweepOK, Swept, NoCall
<1>2. Inv /\ [Next]_vars => Inv'
  BY NextIInv, SweepStep, RevivedTyped
<1>3. Inv /\ [Next]_vars => [Drained]_vars
  <2> SUFFICES ASSUME Inv, Next PROVE Drained
    OBVIOUS
  <2> SUFFICES ASSUME NEW w \in Writers, writer[w].pc = "sweep", writer'[w].pc = "idle"
               PROVE  \A o \in Registered :
                        obj[o].prov = "discovered" /\ ~obj[o].draining =>
                          obj[o].url \in writer[w].want \cup revived[w]
    OBVIOUS
  <2>1. writer[w].left = {}
    BY SweepEnds
  <2>2. \A o \in Registered : obj[o].draining \in BOOLEAN
    BY DEF IInv, TypeInv, Backend, Registered
  <2>3. QED
    BY <2>1, <2>2 DEF SweepOK, Swept
<1>4. QED
  BY <1>1, <1>2, <1>3, PTL DEF Spec, ReconcileDrains
============================================================================
