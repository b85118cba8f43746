---------------------------- MODULE PrefixSlots ----------------------------
(***************************************************************************)
(* The slots of the affinity tree (policy/affinity/tree.go): each backend  *)
(* URL owns one bit of every run's mark set, given to it when the registry *)
(* adds the backend and taken back when it drops it.                       *)
(*                                                                         *)
(* slotFor and slotOrCreate are atomic under slotMu.  dropBackend is not:  *)
(* it takes the slot from the URL, clears the marks shard by shard, and    *)
(* then frees the slot.  A commit reads its slot, and marks the path later *)
(* under the shard's lock.  Inferences work on candidates of an earlier      *)
(* snapshot, and may outlive the backend's drain deadline.                 *)
(*                                                                         *)
(* A prefix is reduced to the URL of the backend that computed it: marks   *)
(* tells, for each slot, which backends' prefixes carry it.  A request     *)
(* touches one shard, so the shards are one here.  registered stands for   *)
(* the snapshot of module Registry, which calls the hooks.                 *)
(***************************************************************************)
EXTENDS Integers, Sequences

CONSTANTS
  Urls,      \* canonical backend URLs
  Droppers,  \* goroutines that run OnDrop at once
  Inferences,  \* inference requests under way at once
  None       \* nil

ASSUME NoneAssumption == None \notin Urls \cup Nat

VARIABLES
  registered,  \* the URLs in the current snapshot
  adding,      \* the URL whose OnAdd hook is running under Registry.mu
  dropper,     \* locals of each goroutine in unlink and OnDrop
  request,     \* locals of each request
  slots,       \* tree.slots
  free,        \* tree.free
  nextSl,      \* tree.nextSl
  marks,       \* slot -> the backends whose prefixes carry it, for slots in use
  tainted      \* history: slots marked by a commit that outlived its claim

table == << slots, free, nextSl >>
slotsVars == << registered, adding, dropper, request, slots, free, nextSl, marks, tainted >>

NoDrop == [pc |-> "idle", url |-> None, slot |-> None]
NoRequest == [pc |-> "idle", url |-> None, slot |-> None]

SlotsInit ==
  /\ registered = {}
  /\ adding = None
  /\ dropper = [d \in Droppers |-> NoDrop]
  /\ request = [r \in Inferences |-> NoRequest]
  /\ slots = [u \in Urls |-> None]
  /\ free = << >>
  /\ nextSl = 0
  /\ marks = {}
  /\ tainted = {}

----------------------------------------------------------------------------
\* Mutant: the slot handed out stays in the free list.
Popped_Stays(f) == f

\* The free list without its last slot.
Popped(f) == SubSeq(f, 1, Len(f) - 1)

\* The counter past the slot just handed out.
Bumped(n) == n + 1

\* slotFor, and so slotOrCreate: the slot of a URL, allocated if it has none, from
\* the end of the free list before the counter.
SlotFor(u) ==
  \/ slots[u] # None /\ UNCHANGED table
  \/ /\ slots[u] = None /\ free # << >>
     /\ slots' = [slots EXCEPT ![u] = free[Len(free)]]
     /\ free' = Popped(free)
     /\ UNCHANGED nextSl
  \/ /\ slots[u] = None /\ free = << >>
     /\ slots' = [slots EXCEPT ![u] = nextSl]
     /\ nextSl' = Bumped(nextSl)
     /\ UNCHANGED free

\* Registry.Add publishes a new backend and holds mu...
Register(u) ==
  /\ adding = None /\ u \notin registered
  /\ registered' = registered \cup {u}
  /\ adding' = u
  /\ UNCHANGED << dropper, request, table, marks, tainted >>

\* ... for its hook, AddBackend.
AddBackend ==
  /\ adding # None
  /\ SlotFor(adding)
  /\ adding' = None
  /\ UNCHANGED << registered, dropper, request, marks, tainted >>

\* Registry.unlink takes the backend out of the snapshot and releases mu.
Unlink(d, u) ==
  /\ dropper[d].pc = "idle"
  /\ adding = None /\ u \in registered
  /\ registered' = registered \ {u}
  /\ dropper' = [dropper EXCEPT ![d] = [NoDrop EXCEPT !.pc = "take", !.url = u]]
  /\ UNCHANGED << adding, request, table, marks, tainted >>

\* Its hook, dropBackend: the URL gives up its slot.
DropTake(d) ==
  /\ dropper[d].pc = "take"
  /\ LET u == dropper[d].url IN
       \/ /\ slots[u] = None
          /\ dropper' = [dropper EXCEPT ![d] = NoDrop]
          /\ UNCHANGED slots
       \/ /\ slots[u] # None
          /\ dropper' = [dropper EXCEPT ![d].pc = "clear", ![d].slot = slots[u]]
          /\ slots' = [slots EXCEPT ![u] = None]
  /\ UNCHANGED << registered, adding, request, free, nextSl, marks, tainted >>

\* Mutant: the runs keep the marks of the backend that leaves.
Cleared_Kept(s) == marks

\* clearSlot over every run: the marks without those of slot s.
Cleared(s) == {m \in marks : m[1] # s}

\* The marks are cleared from every run...
DropClear(d) ==
  /\ dropper[d].pc = "clear"
  /\ marks' = Cleared(dropper[d].slot)
  /\ tainted' = tainted \ {dropper[d].slot}
  /\ dropper' = [dropper EXCEPT ![d].pc = "free"]
  /\ UNCHANGED << registered, adding, request, table >>

\* ... and only then is the slot free for another backend.
DropFree(d) ==
  /\ dropper[d].pc = "free"
  /\ free' = Append(free, dropper[d].slot)
  /\ dropper' = [dropper EXCEPT ![d] = NoDrop]
  /\ UNCHANGED << registered, adding, request, slots, nextSl, marks, tainted >>

\* A request reads the snapshot.
Candidate(r, u) ==
  /\ request[r].pc = "idle" /\ u \in registered
  /\ request' = [request EXCEPT ![r] = [NoRequest EXCEPT !.pc = "select", !.url = u]]
  /\ UNCHANGED << registered, adding, dropper, table, marks, tainted >>

\* SelectSlots looks up the slot of its candidate, and creates one if there is none.
SelectSlots(r) ==
  /\ request[r].pc = "select"
  /\ SlotFor(request[r].url)
  /\ request' = [request EXCEPT ![r].pc = "serve"]
  /\ UNCHANGED << registered, adding, dropper, marks, tainted >>

\* A 2xx answer begins: Commit looks the slot up again, and may create it...
CommitSlot(r) ==
  /\ request[r].pc = "serve"
  /\ SlotFor(request[r].url)
  /\ request' = [request EXCEPT ![r].pc = "mark", ![r].slot = slots'[request[r].url]]
  /\ UNCHANGED << registered, adding, dropper, marks, tainted >>

\* ... and marks the request's path under the shard's lock.
CommitMark(r) ==
  /\ request[r].pc = "mark"
  /\ LET u == request[r].url
         s == request[r].slot
     IN  /\ marks' = marks \cup {<< s, u >>}
         /\ tainted' = IF slots[u] = s THEN tainted ELSE tainted \cup {s}
  /\ request' = [request EXCEPT ![r] = NoRequest]
  /\ UNCHANGED << registered, adding, dropper, table >>

\* The attempt ends without a 2xx.
Fail(r) ==
  /\ request[r].pc = "serve"
  /\ request' = [request EXCEPT ![r] = NoRequest]
  /\ UNCHANGED << registered, adding, dropper, table, marks, tainted >>

\* A sweep evicts the prefixes of u that have not been used for the TTL, with the
\* marks of whoever holds them.
SweepSlots(u) ==
  /\ marks' = {m \in marks : m[2] # u}
  /\ UNCHANGED << registered, adding, dropper, request, table, tainted >>

SlotsNext ==
  \/ AddBackend
  \/ \E u \in Urls : SweepSlots(u)
  \/ \E u \in Urls : Register(u)
  \/ \E d \in Droppers :
       \/ \E u \in Urls : Unlink(d, u)
       \/ DropTake(d) \/ DropClear(d) \/ DropFree(d)
  \/ \E r \in Inferences :
       \/ \E u \in Urls : Candidate(r, u)
       \/ SelectSlots(r) \/ CommitSlot(r) \/ CommitMark(r) \/ Fail(r)

SlotsSpec == SlotsInit /\ [][SlotsNext]_slotsVars

----------------------------------------------------------------------------
Ids == 0..(nextSl - 1)

SlotsTypeOK ==
  /\ registered \subseteq Urls /\ adding \in Urls \cup {None}
  /\ nextSl \in Nat
  /\ slots \in [Urls -> Ids \cup {None}]
  /\ free \in Seq(Ids)
  /\ dropper \in [Droppers -> [pc : {"idle", "take", "clear", "free"},
                               url : Urls \cup {None}, slot : Ids \cup {None}]]
  /\ request \in [Inferences -> [pc : {"idle", "select", "serve", "mark"},
                               url : Urls \cup {None}, slot : Ids \cup {None}]]
  /\ marks \subseteq (Ids \X Urls) /\ tainted \subseteq Ids

\* The three places a slot can be.
Owned(s) == \E u \in Urls : slots[u] = s
Free(s) == \E i \in 1..Len(free) : free[i] = s
InDrop(s) == \E d \in Droppers : dropper[d].slot = s

\* Slots are neither shared nor lost (tree.go:184-252): no slot is two backends',
\* twice in the free list or in two drops, none is in two of these places, and
\* each one allocated so far is in one of them.
SlotInOnePlace ==
  /\ \A u, v \in Urls : slots[u] # None /\ slots[u] = slots[v] => u = v
  /\ \A i, j \in 1..Len(free) : free[i] = free[j] => i = j
  /\ \A d, e \in Droppers : dropper[d].slot # None /\ dropper[d].slot = dropper[e].slot => d = e
  /\ \A s \in Ids : ~(Owned(s) /\ Free(s)) /\ ~(Owned(s) /\ InDrop(s)) /\ ~(Free(s) /\ InDrop(s))
  /\ \A s \in Ids : Owned(s) \/ Free(s) \/ InDrop(s)

\* CACHE-10 (tree.go:218-223): a slot's marks are its own backend's, and a slot in
\* the free list has none, unless a commit that had read the slot before it was
\* given up marked it afterwards.
NoInheritance ==
  \A m \in marks :
    m[1] \notin tainted => ~Free(m[1]) /\ (Owned(m[1]) => slots[m[2]] = m[1])

============================================================================
