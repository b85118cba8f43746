-------------------------- MODULE AffinityProofs --------------------------
(***************************************************************************)
(* What the affinity policy promises for any set of URLs, any number of    *)
(* drops and requests at once, any fleet, loads and configuration.         *)
(*                                                                         *)
(* Slots (module PrefixSlots): the types, that slots are neither shared    *)
(* nor lost, and that no backend inherits the marks of another.  The       *)
(* invariant adds to SlotInOnePlace what the drops know: a drop holds a    *)
(* slot exactly between taking it from its URL and freeing it.  For the    *)
(* marks it also says that the slot of an untainted mark is still the      *)
(* marked backend's, or is held by a drop that has yet to clear it.        *)
(*                                                                         *)
(* Decisions (module Ladder): a step changes the marks only, so the        *)
(* invariant is the type of a view, and the work is in what Select makes   *)
(* of one: which levels a signal names, whose the guard's reference is,    *)
(* and what a view may change without changing the decision.               *)
(***************************************************************************)
EXTENDS PrefixSlots, Ladder, Sums

----------------------------------------------------------------------------
(* Slots. *)


\* The slot table's part of SlotsTypeOK.
TableOK ==
  /\ nextSl \in Nat
  /\ slots \in [Urls -> Ids \cup {None}]
  /\ free \in Seq(Ids)

DropPCs == {"idle", "take", "clear", "free"}
RequestPCs == {"idle", "select", "serve", "mark"}

\* The goroutines' part, with what their pc says of their locals.
LocalsOK ==
  /\ registered \subseteq Urls /\ adding \in Urls \cup {None}
  /\ dropper \in [Droppers -> [pc : DropPCs, url : Urls \cup {None},
                               slot : Ids \cup {None}]]
  /\ request \in [Inferences -> [pc : RequestPCs, url : Urls \cup {None},
                               slot : Ids \cup {None}]]
  /\ \A d \in Droppers :
       /\ dropper[d].slot # None <=> dropper[d].pc \in {"clear", "free"}
       /\ dropper[d].pc # "idle" => dropper[d].url \in Urls
  /\ \A r \in Inferences :
       /\ request[r].pc # "idle" => request[r].url \in Urls
       /\ request[r].pc = "mark" => request[r].slot \in Ids

MarksOK == marks \subseteq (Ids \X Urls) /\ tainted \subseteq Ids

IInv == TableOK /\ LocalsOK /\ MarksOK /\ SlotInOnePlace

\* nil is no slot.
LEMMA NoneNoSlot == ASSUME IInv PROVE None \notin Ids
BY NoneAssumption DEF Ids, IInv, TableOK

\* A table without slots, and nobody working on it.
LEMMA InitIInv == SlotsInit => IInv
<1> SUFFICES ASSUME SlotsInit PROVE IInv
  OBVIOUS
<1>1. TableOK
  BY DEF SlotsInit, TableOK, Ids
<1>2. LocalsOK
  BY NoneAssumption DEF SlotsInit, LocalsOK, NoDrop, NoRequest, DropPCs, RequestPCs
<1>3. MarksOK
  BY DEF SlotsInit, MarksOK
<1>4. SlotInOnePlace
  BY NoneAssumption DEF SlotsInit, SlotInOnePlace, Ids, Owned, Free, InDrop, NoDrop
<1>5. QED
  BY <1>1, <1>2, <1>3, <1>4 DEF IInv

\* slotFor keeps the table's types and gives the URL a slot (tree.go:184-199).
LEMMA SlotForType ==
  ASSUME IInv, NEW u \in Urls, SlotFor(u)
  PROVE  TableOK' /\ Ids \subseteq Ids' /\ slots'[u] \in Ids'
<1> USE DEF IInv, TableOK
<1>1. CASE slots[u] # None /\ UNCHANGED table
  BY <1>1 DEF table, Ids
<1>2. CASE slots[u] = None /\ free # << >>
  <2>1. Len(free) \in 1..Len(free) /\ free[Len(free)] \in Ids
    BY <1>2
  <2>2. /\ slots' = [slots EXCEPT ![u] = free[Len(free)]]
        /\ free' = SubSeq(free, 1, Len(free) - 1)
        /\ nextSl' = nextSl
    BY <1>2 DEF SlotFor, Popped, table
  <2>3. SubSeq(free, 1, Len(free) - 1) \in Seq(Ids)
    BY <2>1
  <2>4. QED
    BY <2>1, <2>2, <2>3 DEF Ids
<1>3. CASE slots[u] = None /\ free = << >>
  <2>1. /\ slots' = [slots EXCEPT ![u] = nextSl]
        /\ free' = << >>
        /\ nextSl' = nextSl + 1
    BY <1>3 DEF SlotFor, Bumped, table
  <2>2. QED
    BY <2>1 DEF Ids
<1>4. QED
  BY <1>1, <1>2, <1>3 DEF SlotFor

\* A step that leaves the table and the slots held by drops in their places.
LEMMA UnmovedApart ==
  ASSUME IInv, UNCHANGED table,
         \A d \in Droppers : dropper'[d].slot = dropper[d].slot
  PROVE  TableOK' /\ SlotInOnePlace' /\ Ids' = Ids
<1>1. slots' = slots /\ free' = free /\ nextSl' = nextSl
  BY DEF table
<1>2. Ids' = Ids
  BY <1>1 DEF Ids
<1>3. TableOK'
  BY <1>1, <1>2 DEF IInv, TableOK
<1>4. \A s : (Owned(s)' <=> Owned(s)) /\ (Free(s)' <=> Free(s))
  BY <1>1 DEF Owned, Free
<1>5. \A s : InDrop(s)' <=> InDrop(s)
  BY DEF InDrop
<1>6. SlotInOnePlace'
  <2>1. \A u, v \in Urls : slots'[u] # None /\ slots'[u] = slots'[v] => u = v
    BY <1>1 DEF IInv, SlotInOnePlace
  <2>2. \A i, j \in 1..Len(free') : free'[i] = free'[j] => i = j
    BY <1>1 DEF IInv, SlotInOnePlace
  <2>3. \A d, e \in Droppers :
          dropper'[d].slot # None /\ dropper'[d].slot = dropper'[e].slot => d = e
    BY DEF IInv, SlotInOnePlace
  <2>4. \A s \in Ids' :
          /\ ~(Owned(s)' /\ Free(s)') /\ ~(Owned(s)' /\ InDrop(s)')
          /\ ~(Free(s)' /\ InDrop(s)')
          /\ Owned(s)' \/ Free(s)' \/ InDrop(s)'
    BY <1>2, <1>4, <1>5 DEF IInv, SlotInOnePlace
  <2>5. QED
    BY <2>1, <2>2, <2>3, <2>4 DEF SlotInOnePlace
<1>7. QED
  BY <1>2, <1>3, <1>6

\* slotFor moves a slot from one place to another, or makes a new one.
LEMMA SlotForApart ==
  ASSUME IInv, NEW u \in Urls, SlotFor(u), UNCHANGED dropper
  PROVE  SlotInOnePlace'
<1>1. CASE slots[u] # None /\ UNCHANGED table
  BY <1>1, UnmovedApart
<1>2. CASE slots[u] = None /\ free # << >>
  <2> DEFINE n == Len(free)
             s == free[n]
  <2>0. n \in Nat /\ n >= 1 /\ s \in Ids /\ n \in 1..n
    BY <1>2 DEF IInv, TableOK
  <2>1. slots' = [slots EXCEPT ![u] = s] /\ nextSl' = nextSl
        /\ Len(free') = n - 1 /\ \A i \in 1..(n - 1) : free'[i] = free[i]
    BY <1>2, <2>0 DEF SlotFor, Popped, table, IInv, TableOK
  <2>2. Ids' = Ids
    BY <2>1 DEF Ids
  <2>3. Free(s) /\ ~Owned(s) /\ ~InDrop(s)
    BY <2>0 DEF IInv, SlotInOnePlace, Free
  <2>4. \A t \in Ids : Owned(t)' <=> Owned(t) \/ t = s
    BY <1>2, <2>0, <2>1, NoneAssumption DEF Owned, IInv, TableOK, Ids
  <2>5. \A t \in Ids : Free(t)' <=> Free(t) /\ t # s
    BY <2>0, <2>1 DEF Free, IInv, SlotInOnePlace
  <2>6. \A t \in Ids : InDrop(t)' <=> InDrop(t)
    BY DEF InDrop
  <2>7. \A v, w \in Urls : slots'[v] # None /\ slots'[v] = slots'[w] => v = w
    BY <2>1, <2>3 DEF IInv, SlotInOnePlace, TableOK, Owned
  <2>8. \A i, j \in 1..Len(free') : free'[i] = free'[j] => i = j
    BY <2>0, <2>1 DEF IInv, SlotInOnePlace
  <2>9. QED
    BY <2>2, <2>3, <2>4, <2>5, <2>6, <2>7, <2>8 DEF IInv, SlotInOnePlace
<1>3. CASE slots[u] = None /\ free = << >>
  <2>1. /\ slots' = [slots EXCEPT ![u] = nextSl]
        /\ free' = << >>
        /\ nextSl' = nextSl + 1
    BY <1>3 DEF SlotFor, Bumped, table
  <2>2. Ids' = Ids \cup {nextSl} /\ nextSl \notin Ids /\ nextSl # None
    BY <2>1, NoneAssumption DEF IInv, TableOK, Ids
  <2>3. ~Owned(nextSl) /\ ~InDrop(nextSl)
    BY <2>2 DEF IInv, TableOK, LocalsOK, Owned, InDrop
  <2>4. \A t \in Ids' : Owned(t)' <=> Owned(t) \/ t = nextSl
    BY <1>3, <2>1, <2>2, NoneAssumption DEF Owned, IInv, TableOK, Ids
  <2>5. \A t \in Ids' : ~Free(t)'
    BY <2>1 DEF Free
  <2>6. \A t \in Ids' : InDrop(t)' <=> InDrop(t)
    BY DEF InDrop
  <2>7. \A v, w \in Urls : slots'[v] # None /\ slots'[v] = slots'[w] => v = w
    BY <2>1, <2>3 DEF IInv, SlotInOnePlace, TableOK, Owned
  <2>8. \A t \in Ids : ~Free(t)
    BY <1>3 DEF Free
  <2>9. QED
    BY <2>1, <2>2, <2>3, <2>4, <2>5, <2>6, <2>7, <2>8 DEF IInv, SlotInOnePlace
<1>4. QED
  BY <1>1, <1>2, <1>3 DEF SlotFor

\* OnAdd (policy.go:853-859).
LEMMA AddBackendStep ==
  ASSUME IInv, AddBackend
  PROVE  IInv'
<1>1. adding \in Urls /\ SlotFor(adding) /\ UNCHANGED << registered, dropper, request, marks, tainted >>
      /\ adding' = None
  BY DEF AddBackend, IInv, LocalsOK
<1>2. TableOK' /\ SlotInOnePlace' /\ Ids \subseteq Ids'
  BY <1>1, SlotForType, SlotForApart
<1>3. LocalsOK'
  BY <1>1, <1>2 DEF IInv, LocalsOK
<1>4. MarksOK'
  BY <1>1, <1>2 DEF IInv, MarksOK
<1>5. QED
  BY <1>2, <1>3, <1>4 DEF IInv

\* What a request's step leaves alone, given what it does to its own locals.
LEMMA RequestLocals ==
  ASSUME IInv, NEW r \in Inferences, NEW l,
         Ids \subseteq Ids', UNCHANGED << registered, adding, dropper >>,
         request' = [request EXCEPT ![r] = l],
         l \in [pc : RequestPCs, url : Urls \cup {None}, slot : Ids' \cup {None}],
         l.pc # "idle" => l.url \in Urls,
         l.pc = "mark" => l.slot \in Ids'
  PROVE  LocalsOK'
<1>1. request' \in [Inferences -> [pc : RequestPCs, url : Urls \cup {None},
                                slot : Ids' \cup {None}]]
  BY DEF IInv, LocalsOK
<1>2. dropper' \in [Droppers -> [pc : DropPCs, url : Urls \cup {None},
                                slot : Ids' \cup {None}]]
  BY DEF IInv, LocalsOK
<1>3. \A q \in Inferences :
        /\ request'[q].pc # "idle" => request'[q].url \in Urls
        /\ request'[q].pc = "mark" => request'[q].slot \in Ids'
  BY DEF IInv, LocalsOK
<1>4. QED
  BY <1>1, <1>2, <1>3 DEF IInv, LocalsOK

\* A request's lookups of a slot.
LEMMA LookupStep ==
  ASSUME IInv, NEW r \in Inferences, SelectSlots(r) \/ CommitSlot(r)
  PROVE  IInv'
<1> DEFINE u == request[r].url
<1>1. u \in Urls /\ SlotFor(u) /\ UNCHANGED << registered, adding, dropper, marks, tainted >>
  BY DEF SelectSlots, CommitSlot, IInv, LocalsOK
<1>2. TableOK' /\ SlotInOnePlace' /\ Ids \subseteq Ids' /\ slots'[u] \in Ids'
  BY <1>1, SlotForType, SlotForApart
<1>3. request[r] \in [pc : RequestPCs, url : Urls \cup {None}, slot : Ids \cup {None}]
  BY DEF IInv, LocalsOK
<1>4. LocalsOK'
  <2>1. CASE SelectSlots(r)
    <3> DEFINE l == [request[r] EXCEPT !.pc = "serve"]
    <3>1. request' = [request EXCEPT ![r] = l]
      BY <2>1 DEF SelectSlots, IInv, LocalsOK
    <3>2. l \in [pc : RequestPCs, url : Urls \cup {None}, slot : Ids' \cup {None}]
          /\ l.url \in Urls /\ l.pc # "mark"
      BY <1>1, <1>2, <1>3 DEF RequestPCs
    <3> HIDE DEF l
    <3>3. QED
      BY <1>1, <1>2, <3>1, <3>2, RequestLocals
  <2>2. CASE CommitSlot(r)
    <3> DEFINE l == [request[r] EXCEPT !.pc = "mark", !.slot = slots'[u]]
    <3>1. request' = [request EXCEPT ![r] = l]
      BY <2>2 DEF CommitSlot, IInv, LocalsOK
    <3>2. l \in [pc : RequestPCs, url : Urls \cup {None}, slot : Ids' \cup {None}]
          /\ l.url \in Urls /\ l.slot \in Ids'
      BY <1>1, <1>2, <1>3 DEF RequestPCs
    <3> HIDE DEF l
    <3>3. QED
      BY <1>1, <1>2, <3>1, <3>2, RequestLocals
  <2>3. QED
    BY <2>1, <2>2
<1>5. MarksOK'
  BY <1>1, <1>2 DEF IInv, MarksOK
<1>6. QED
  BY <1>2, <1>4, <1>5 DEF IInv

\* The rest of a request's steps move no slot.
LEMMA RequestStep ==
  ASSUME IInv, NEW r \in Inferences, NEW u,
         (u \in Urls /\ Candidate(r, u)) \/ CommitMark(r) \/ Fail(r)
  PROVE  IInv'
<1>1. UNCHANGED << table, registered, adding, dropper >>
  BY DEF Candidate, CommitMark, Fail, table
<1>2. TableOK' /\ SlotInOnePlace' /\ Ids' = Ids
  BY <1>1, UnmovedApart
<1>3. MarksOK'
  <2>1. CASE UNCHANGED << marks, tainted >>
    BY <1>2, <2>1 DEF IInv, MarksOK
  <2>2. CASE CommitMark(r)
    <3>1. request[r].url \in Urls /\ request[r].slot \in Ids
      BY <2>2 DEF CommitMark, IInv, LocalsOK
    <3>2. QED
      BY <1>2, <2>2, <3>1 DEF CommitMark, IInv, MarksOK
  <2>3. QED
    BY <2>1, <2>2 DEF Candidate, Fail
<1>4. LocalsOK'
  <2>1. CASE u \in Urls /\ Candidate(r, u)
    <3> DEFINE l == [NoRequest EXCEPT !.pc = "select", !.url = u]
    <3>1. request' = [request EXCEPT ![r] = l]
      BY <2>1 DEF Candidate
    <3>2. /\ l \in [pc : RequestPCs, url : Urls \cup {None}, slot : Ids' \cup {None}]
          /\ l.url \in Urls /\ l.pc # "mark"
      BY <2>1 DEF NoRequest, RequestPCs
    <3> HIDE DEF l
    <3>3. QED
      BY <1>1, <1>2, <3>1, <3>2, RequestLocals
  <2>2. CASE CommitMark(r) \/ Fail(r)
    <3>1. request' = [request EXCEPT ![r] = NoRequest]
      BY <2>2 DEF CommitMark, Fail
    <3>2. /\ NoRequest \in [pc : RequestPCs, url : Urls \cup {None}, slot : Ids' \cup {None}]
          /\ NoRequest.pc = "idle"
      BY DEF NoRequest, RequestPCs
    <3>3. QED
      BY <1>1, <1>2, <3>1, <3>2, RequestLocals
  <2>3. QED
    BY <2>1, <2>2
<1>5. QED
  BY <1>2, <1>3, <1>4 DEF IInv

\* A sweep only takes marks away.
LEMMA SweepStep ==
  ASSUME IInv, NEW u \in Urls, SweepSlots(u)
  PROVE  IInv'
<1>1. UNCHANGED << table, registered, adding, dropper, request >>
  BY DEF SweepSlots, table
<1>2. TableOK' /\ SlotInOnePlace' /\ Ids' = Ids
  BY <1>1, UnmovedApart
<1>3. MarksOK'
  BY <1>2 DEF SweepSlots, IInv, MarksOK
<1>4. LocalsOK'
  BY <1>1, <1>2 DEF IInv, LocalsOK
<1>5. QED
  BY <1>2, <1>3, <1>4 DEF IInv

\* What a drop's step leaves alone, given what it does to its own locals.
LEMMA DropperLocals ==
  ASSUME IInv, NEW d \in Droppers, NEW l,
         Ids' = Ids, UNCHANGED << adding, request >>, registered' \subseteq Urls,
         dropper' = [dropper EXCEPT ![d] = l],
         l \in [pc : DropPCs, url : Urls \cup {None}, slot : Ids \cup {None}],
         l.slot # None <=> l.pc \in {"clear", "free"},
         l.pc # "idle" => l.url \in Urls
  PROVE  LocalsOK'
<1>1. dropper' \in [Droppers -> [pc : DropPCs, url : Urls \cup {None},
                                slot : Ids' \cup {None}]]
  BY DEF IInv, LocalsOK
<1>2. \A e \in Droppers :
        /\ dropper'[e].slot # None <=> dropper'[e].pc \in {"clear", "free"}
        /\ dropper'[e].pc # "idle" => dropper'[e].url \in Urls
  BY DEF IInv, LocalsOK
<1>3. QED
  BY <1>1, <1>2 DEF IInv, LocalsOK

\* Registering and unlinking move no slot.
LEMMA MembershipStep ==
  ASSUME IInv, NEW u \in Urls,
         Register(u) \/ \E d \in Droppers : Unlink(d, u)
  PROVE  IInv'
<1>1. CASE Register(u)
  <2>1. UNCHANGED << table, dropper, request, marks, tainted >>
        /\ registered' = registered \cup {u} /\ adding' = u
    BY <1>1 DEF Register, table
  <2>2. TableOK' /\ SlotInOnePlace' /\ Ids' = Ids
    BY <2>1, UnmovedApart
  <2>3. LocalsOK' /\ MarksOK'
    BY <2>1, <2>2 DEF IInv, LocalsOK, MarksOK
  <2>4. QED
    BY <2>2, <2>3 DEF IInv
<1>2. ASSUME NEW d \in Droppers, Unlink(d, u) PROVE IInv'
  <2> DEFINE l == [NoDrop EXCEPT !.pc = "take", !.url = u]
  <2>1. UNCHANGED << table, adding, request, marks, tainted >>
        /\ registered' \subseteq Urls /\ dropper' = [dropper EXCEPT ![d] = l]
    BY <1>2 DEF Unlink, table, IInv, LocalsOK
  <2>2. l \in [pc : DropPCs, url : Urls \cup {None}, slot : Ids \cup {None}]
        /\ l.slot = None /\ l.pc = "take" /\ l.url \in Urls
    BY DEF NoDrop, DropPCs
  <2>3. dropper[d].slot = None
    BY <1>2 DEF Unlink, IInv, LocalsOK
  <2> HIDE DEF l
  <2>4. \A e \in Droppers : dropper'[e].slot = dropper[e].slot
    BY <2>1, <2>2, <2>3 DEF IInv, LocalsOK
  <2>5. TableOK' /\ SlotInOnePlace' /\ Ids' = Ids
    BY <2>1, <2>4, UnmovedApart
  <2>6. LocalsOK'
    BY <2>1, <2>2, <2>5, DropperLocals
  <2>7. QED
    BY <2>1, <2>5, <2>6 DEF IInv, MarksOK
<1>3. QED
  BY <1>1, <1>2

\* dropBackend takes the slot from its URL (tree.go:224-232).
LEMMA DropTakeStep ==
  ASSUME IInv, NEW d \in Droppers, DropTake(d)
  PROVE  IInv'
<1> DEFINE u == dropper[d].url
           s == slots[u]
<1>0. u \in Urls /\ dropper[d].pc = "take" /\ dropper[d].slot = None
      /\ UNCHANGED << registered, adding, request, free, nextSl, marks, tainted >>
  BY DEF DropTake, IInv, LocalsOK
<1>1. Ids' = Ids /\ MarksOK' /\ registered' \subseteq Urls
  BY <1>0 DEF Ids, IInv, MarksOK, LocalsOK
<1>2. CASE slots[u] = None
  <2>1. slots' = slots /\ dropper' = [dropper EXCEPT ![d] = NoDrop]
    BY <1>2 DEF DropTake
  <2>2. NoDrop \in [pc : DropPCs, url : Urls \cup {None}, slot : Ids \cup {None}]
        /\ NoDrop.slot = None /\ NoDrop.pc = "idle"
    BY DEF NoDrop, DropPCs
  <2>3. \A e \in Droppers : dropper'[e].slot = dropper[e].slot
    BY <1>0, <2>1, <2>2 DEF IInv, LocalsOK
  <2>4. TableOK' /\ SlotInOnePlace'
    BY <1>0, <2>1, <2>3, UnmovedApart DEF table
  <2>5. LocalsOK'
    BY <1>0, <1>1, <2>1, <2>2, DropperLocals
  <2>6. QED
    BY <1>1, <2>4, <2>5 DEF IInv
<1>3. CASE slots[u] # None
  <2> DEFINE l == [dropper[d] EXCEPT !.pc = "clear", !.slot = s]
  <2>0. s \in Ids
    BY <1>0, <1>3 DEF IInv, TableOK
  <2>1. slots' = [slots EXCEPT ![u] = None] /\ dropper' = [dropper EXCEPT ![d] = l]
    BY <1>3 DEF DropTake, IInv, LocalsOK
  <2>2. l \in [pc : DropPCs, url : Urls \cup {None}, slot : Ids \cup {None}]
        /\ l.slot = s /\ l.pc = "clear" /\ l.url \in Urls
    BY <1>0, <2>0 DEF IInv, LocalsOK, DropPCs
  <2> HIDE DEF l
  <2>3. LocalsOK'
    BY <1>0, <1>1, <1>3, <2>1, <2>2, DropperLocals
  <2>4. TableOK'
    BY <1>0, <1>1, <2>1 DEF IInv, TableOK
  <2>5. Owned(s) /\ ~Free(s) /\ ~InDrop(s)
    BY <1>0, <2>0 DEF IInv, SlotInOnePlace, Owned
  <2>6. \A t \in Ids : Owned(t)' <=> Owned(t) /\ t # s
    BY <1>0, <1>3, <2>1, NoneAssumption DEF Owned, IInv, TableOK, SlotInOnePlace, Ids
  <2>7. \A t \in Ids : Free(t)' <=> Free(t)
    BY <1>0 DEF Free
  <2>8. \A e \in Droppers : dropper'[e].slot = IF e = d THEN s ELSE dropper[e].slot
    BY <2>1, <2>2 DEF IInv, LocalsOK
  <2>9. \A t \in Ids : InDrop(t)' <=> InDrop(t) \/ t = s
    BY <1>0, <2>8, NoneNoSlot DEF InDrop
  <2>10. \A v, w \in Urls : slots'[v] # None /\ slots'[v] = slots'[w] => v = w
    BY <2>1 DEF IInv, SlotInOnePlace, TableOK
  <2>11. \A e, f \in Droppers :
           dropper'[e].slot # None /\ dropper'[e].slot = dropper'[f].slot => e = f
    BY <2>5, <2>8 DEF IInv, SlotInOnePlace, InDrop
  <2>12. SlotInOnePlace'
    BY <1>0, <1>1, <2>5, <2>6, <2>7, <2>9, <2>10, <2>11 DEF IInv, SlotInOnePlace
  <2>13. QED
    BY <1>1, <2>3, <2>4, <2>12 DEF IInv
<1>4. QED
  BY <1>2, <1>3

\* The marks are cleared while the drop still holds the slot (tree.go:234-247).
LEMMA DropClearStep ==
  ASSUME IInv, NEW d \in Droppers, DropClear(d)
  PROVE  IInv'
<1> DEFINE l == [dropper[d] EXCEPT !.pc = "free"]
<1>1. /\ UNCHANGED << table, registered, adding, request >>
      /\ dropper' = [dropper EXCEPT ![d] = l]
      /\ marks' \subseteq marks /\ tainted' \subseteq tainted
  BY DEF DropClear, Cleared, table, IInv, LocalsOK
<1>2. l \in [pc : DropPCs, url : Urls \cup {None}, slot : Ids \cup {None}]
      /\ l.slot = dropper[d].slot /\ l.slot # None /\ l.pc = "free" /\ l.url \in Urls
  BY DEF DropClear, IInv, LocalsOK, DropPCs
<1> HIDE DEF l
<1>3. \A e \in Droppers : dropper'[e].slot = dropper[e].slot
  BY <1>1, <1>2 DEF IInv, LocalsOK
<1>4. TableOK' /\ SlotInOnePlace' /\ Ids' = Ids
  BY <1>1, <1>3, UnmovedApart
<1>5. LocalsOK'
  <2>1. registered' \subseteq Urls
    BY <1>1 DEF IInv, LocalsOK
  <2>2. QED
    BY <1>1, <1>2, <1>4, <2>1, DropperLocals
<1>6. MarksOK'
  BY <1>1, <1>4 DEF IInv, MarksOK
<1>7. QED
  BY <1>4, <1>5, <1>6 DEF IInv

\* The slot goes from the drop to the free list (tree.go:249-251).
LEMMA DropFreeStep ==
  ASSUME IInv, NEW d \in Droppers, DropFree(d)
  PROVE  IInv'
<1> DEFINE s == dropper[d].slot
           n == Len(free)
<1>0. s \in Ids /\ n \in Nat /\ s # None
  BY DEF DropFree, IInv, LocalsOK, TableOK
<1>1. /\ UNCHANGED << registered, adding, request, slots, nextSl, marks, tainted >>
      /\ dropper' = [dropper EXCEPT ![d] = NoDrop]
      /\ free' = Append(free, s)
  BY DEF DropFree
<1>2. Ids' = Ids /\ MarksOK' /\ registered' \subseteq Urls
  BY <1>1 DEF Ids, IInv, MarksOK, LocalsOK
<1>3. TableOK'
  BY <1>0, <1>1, <1>2 DEF IInv, TableOK
<1>4. NoDrop \in [pc : DropPCs, url : Urls \cup {None}, slot : Ids \cup {None}]
      /\ NoDrop.slot = None /\ NoDrop.pc = "idle"
  BY DEF NoDrop, DropPCs
<1>5. LocalsOK'
  BY <1>1, <1>2, <1>4, DropperLocals
<1>6. Len(free') = n + 1 /\ free'[n + 1] = s /\ \A i \in 1..n : free'[i] = free[i]
  BY <1>0, <1>1 DEF IInv, TableOK
<1>7. InDrop(s) /\ ~Free(s) /\ ~Owned(s)
  BY <1>0 DEF IInv, SlotInOnePlace, InDrop
<1>8. \A t \in Ids : Owned(t)' <=> Owned(t)
  BY <1>1 DEF Owned
<1>9. \A t \in Ids : Free(t)' <=> Free(t) \/ t = s
  BY <1>0, <1>6 DEF Free
<1>10. \A e \in Droppers : dropper'[e].slot = IF e = d THEN None ELSE dropper[e].slot
  BY <1>1, <1>4 DEF IInv, LocalsOK
<1>11. \A t \in Ids : InDrop(t)' <=> InDrop(t) /\ t # s
  BY <1>0, <1>10, NoneNoSlot DEF InDrop, IInv, SlotInOnePlace
<1>12. \A i, j \in 1..Len(free') : free'[i] = free'[j] => i = j
  BY <1>0, <1>6, <1>7 DEF IInv, SlotInOnePlace, Free
<1>13. \A e, f \in Droppers :
         dropper'[e].slot # None /\ dropper'[e].slot = dropper'[f].slot => e = f
  BY <1>10 DEF IInv, SlotInOnePlace
<1>14. SlotInOnePlace'
  BY <1>1, <1>2, <1>7, <1>8, <1>9, <1>11, <1>12, <1>13 DEF IInv, SlotInOnePlace
<1>15. QED
  BY <1>2, <1>3, <1>5, <1>14 DEF IInv

\* The induction both theorems rest on.
LEMMA IInvAlways == SlotsSpec => []IInv
<1>1. IInv /\ [SlotsNext]_slotsVars => IInv'
  <2> SUFFICES ASSUME IInv, [SlotsNext]_slotsVars PROVE IInv'
    OBVIOUS
  <2>1. CASE UNCHANGED slotsVars
    BY <2>1
    DEF slotsVars, IInv, TableOK, LocalsOK, MarksOK, SlotInOnePlace, Ids, Owned, Free, InDrop
  <2>2. ASSUME NEW u \in Urls, Register(u) \/ \E d \in Droppers : Unlink(d, u) PROVE IInv'
    BY <2>2, MembershipStep
  <2>3. ASSUME NEW d \in Droppers, DropTake(d) \/ DropClear(d) \/ DropFree(d) PROVE IInv'
    BY <2>3, DropTakeStep, DropClearStep, DropFreeStep
  <2>4. ASSUME NEW r \in Inferences, SelectSlots(r) \/ CommitSlot(r) PROVE IInv'
    BY <2>4, LookupStep
  <2>5. ASSUME NEW r \in Inferences,
               (\E u \in Urls : Candidate(r, u)) \/ CommitMark(r) \/ Fail(r)
        PROVE  IInv'
    BY <2>5, RequestStep
  <2>6. QED
    BY <2>1, <2>2, <2>3, <2>4, <2>5, AddBackendStep, SweepStep DEF SlotsNext
<1>2. QED
  BY InitIInv, <1>1, PTL DEF SlotsSpec

\* Every variable keeps its type; slots stay below the counter that allots them
\* (tree.go:184-199).
THEOREM TypeCorrect == SlotsSpec => []SlotsTypeOK
<1>1. IInv => SlotsTypeOK
  BY DEF IInv, TableOK, LocalsOK, MarksOK, SlotsTypeOK, DropPCs, RequestPCs
<1>2. QED
  BY IInvAlways, <1>1, PTL

\* No two backends ever share a slot and no slot is lost, for any fleet and any
\* number of removals, additions and requests in any interleaving, although
\* dropBackend gives slotMu up twice (tree.go:224-252).
THEOREM SlotsApart == SlotsSpec => []SlotInOnePlace
<1>1. IInv => SlotInOnePlace
  BY DEF IInv
<1>2. QED
  BY IInvAlways, <1>1, PTL

\* An untainted mark is its slot's present owner's, or about to be cleared.
MarkPlaced(m) ==
  \/ slots[m[2]] = m[1]
  \/ \E d \in Droppers : dropper[d].slot = m[1] /\ dropper[d].pc = "clear"

MarksPlaced == \A m \in marks : m[1] \notin tainted => MarkPlaced(m)

\* slotFor never takes a slot from a URL that has one (tree.go:184-199).
LEMMA SlotForMarks ==
  ASSUME IInv, MarksPlaced, NEW u \in Urls, SlotFor(u),
         UNCHANGED << dropper, marks, tainted >>
  PROVE  MarksPlaced'
<1>1. \A v \in Urls : slots[v] # None => slots'[v] = slots[v]
  BY DEF SlotFor, table, IInv, TableOK
<1>2. \A m \in marks : m[2] \in Urls /\ m[1] # None
  BY NoneNoSlot DEF IInv, MarksOK
<1>3. QED
  BY <1>1, <1>2 DEF MarksPlaced, MarkPlaced

\* What a drop does to the marks: they follow the slot until it is cleared
\* (tree.go:224-252).
LEMMA DropMarks ==
  ASSUME IInv, MarksPlaced, NEW d \in Droppers,
         DropTake(d) \/ DropClear(d) \/ DropFree(d)
  PROVE  MarksPlaced'
<1> SUFFICES ASSUME NEW m \in marks', m[1] \notin tainted' PROVE MarkPlaced(m)'
  BY DEF MarksPlaced
<1>0. dropper \in [Droppers -> [pc : DropPCs, url : Urls \cup {None}, slot : Ids \cup {None}]]
  BY DEF IInv, LocalsOK
<1>1. CASE DropTake(d)
  <2> DEFINE u == dropper[d].url
  <2>1. m \in marks /\ MarkPlaced(m) /\ m[2] \in Urls /\ m[1] \in Ids /\ u \in Urls
    BY <1>1 DEF DropTake, MarksPlaced, IInv, MarksOK, LocalsOK
  <2>2. CASE slots[u] = None
    <3>1. slots' = slots /\ dropper' = [dropper EXCEPT ![d] = NoDrop]
      BY <1>1, <2>2 DEF DropTake
    <3>2. QED
      BY <1>0, <1>1, <2>1, <3>1 DEF DropTake, MarkPlaced
  <2>3. CASE slots[u] # None
    <3>1. /\ slots' = [slots EXCEPT ![u] = None]
          /\ dropper' = [dropper EXCEPT ![d] = [dropper[d] EXCEPT !.pc = "clear", !.slot = slots[u]]]
      BY <1>0, <1>1, <2>3 DEF DropTake
    <3>2. /\ dropper'[d].slot = slots[u] /\ dropper'[d].pc = "clear"
          /\ \A e \in Droppers \ {d} : dropper'[e] = dropper[e]
          /\ dropper[d].pc = "take"
      BY <1>0, <1>1, <3>1 DEF DropTake
    <3>3. CASE slots[m[2]] = m[1] /\ m[2] = u
      BY <3>2, <3>3 DEF MarkPlaced
    <3>4. CASE slots[m[2]] = m[1] /\ m[2] # u
      BY <2>1, <3>1, <3>4 DEF MarkPlaced, IInv, TableOK
    <3>5. CASE \E e \in Droppers : dropper[e].slot = m[1] /\ dropper[e].pc = "clear"
      BY <3>2, <3>5 DEF MarkPlaced
    <3>6. QED
      BY <2>1, <3>3, <3>4, <3>5 DEF MarkPlaced
  <2>4. QED
    BY <2>2, <2>3
<1>2. CASE DropClear(d)
  <2>1. m \in marks /\ m[1] # dropper[d].slot /\ m[1] \notin tainted /\ slots' = slots
        /\ \A e \in Droppers \ {d} : dropper'[e] = dropper[e]
    BY <1>0, <1>2 DEF DropClear, Cleared, table
  <2>2. QED
    BY <2>1 DEF MarksPlaced, MarkPlaced
<1>3. CASE DropFree(d)
  <2>1. m \in marks /\ m[1] \notin tainted /\ slots' = slots /\ dropper[d].pc = "free"
        /\ \A e \in Droppers \ {d} : dropper'[e] = dropper[e]
    BY <1>0, <1>3 DEF DropFree
  <2>2. QED
    BY <2>1 DEF MarksPlaced, MarkPlaced
<1>4. QED
  BY <1>1, <1>2, <1>3

\* Unlinking moves no slot, and no drop is clearing when it begins.
LEMMA UnlinkMarks ==
  ASSUME IInv, MarksPlaced, NEW d \in Droppers, NEW u \in Urls, Unlink(d, u)
  PROVE  MarksPlaced'
<1>1. /\ slots' = slots /\ marks' = marks /\ tainted' = tainted /\ dropper[d].pc = "idle"
      /\ \A e \in Droppers \ {d} : dropper'[e] = dropper[e]
  BY DEF Unlink, table, IInv, LocalsOK
<1>2. QED
  BY <1>1 DEF MarksPlaced, MarkPlaced

\* Marks are only ever added for the slot a backend has, or as tainted.
LEMMA MarksPlacedAlways == SlotsSpec => [](IInv /\ MarksPlaced)
<1>1. SlotsInit => MarksPlaced
  BY DEF SlotsInit, MarksPlaced
<1>2. IInv /\ MarksPlaced /\ [SlotsNext]_slotsVars => MarksPlaced'
  <2> SUFFICES ASSUME IInv, MarksPlaced, [SlotsNext]_slotsVars PROVE MarksPlaced'
    OBVIOUS
  <2> USE DEF MarksPlaced, MarkPlaced
  <2>1. CASE UNCHANGED << dropper, slots, marks, tainted >>
    BY <2>1
  <2>2. CASE AddBackend
    <3>1. adding \in Urls
      BY <2>2 DEF AddBackend, IInv, LocalsOK
    <3>2. QED
      BY <2>2, <3>1, SlotForMarks DEF AddBackend
  <2>3. ASSUME NEW r \in Inferences, SelectSlots(r) \/ CommitSlot(r) PROVE MarksPlaced'
    <3>1. request[r].url \in Urls
      BY <2>3 DEF SelectSlots, CommitSlot, IInv, LocalsOK
    <3>2. QED
      BY <2>3, <3>1, SlotForMarks DEF SelectSlots, CommitSlot
  <2>4. ASSUME NEW r \in Inferences, CommitMark(r) PROVE MarksPlaced'
    BY <2>4 DEF CommitMark, table
  <2>5. ASSUME NEW u \in Urls, SweepSlots(u) PROVE MarksPlaced'
    BY <2>5 DEF SweepSlots, table
  <2>6. QED
    BY <2>1, <2>2, <2>3, <2>4, <2>5, DropMarks, UnlinkMarks
    DEF SlotsNext, slotsVars, table, Register, Candidate, Fail
<1>3. QED
  BY IInvAlways, <1>1, <1>2, PTL DEF SlotsSpec

\* CACHE-10 for any fleet and any number of drops and requests at once
\* (tree.go:218-223): no backend is credited with another's prefixes through a
\* recycled slot, and no free slot carries marks, but for what a commit that
\* outlived its claim to the slot left there.
THEOREM NothingInherited == SlotsSpec => []NoInheritance
<1>1. IInv /\ MarksPlaced => NoInheritance
  <2> SUFFICES ASSUME IInv, MarksPlaced, NEW m \in marks, m[1] \notin tainted
               PROVE  ~Free(m[1]) /\ (Owned(m[1]) => slots[m[2]] = m[1])
    BY DEF NoInheritance
  <2>1. m[1] \in Ids /\ m[2] \in Urls /\ MarkPlaced(m)
    BY DEF IInv, MarksOK, MarksPlaced
  <2>2. CASE slots[m[2]] = m[1]
    BY <2>1, <2>2 DEF IInv, SlotInOnePlace, Owned
  <2>3. CASE slots[m[2]] # m[1]
    <3>1. InDrop(m[1])
      BY <2>1, <2>3 DEF MarkPlaced, InDrop
    <3>2. QED
      BY <2>1, <3>1 DEF IInv, SlotInOnePlace
  <2>4. QED
    BY <2>2, <2>3
<1>2. QED
  BY MarksPlacedAlways, <1>1, PTL

----------------------------------------------------------------------------
(* Decisions. *)


\* A set of natural numbers has a least element, and Min is it.
LEMMA NaturalMin ==
  ASSUME NEW S, S \subseteq Nat, S # {}
  PROVE  Min(S) \in S /\ \A y \in S : Min(S) <= y
<1>1. \E x \in S : \A y \in S : x <= y
  BY LeastNatural
<1>2. QED
  BY <1>1 DEF Min

\* A load, as the gauges can be; a configuration with its defaults.
LoadValues ==
  [inflight : Nat, capacity : Nat \ {0}, p90 : Nat, decode : Nat, work : Nat,
   gate : BOOLEAN, latch : {Null} \cup [level : Nat \ {0}, age : Nat]]
ConfigOK(c) ==
  /\ c.limit \in Int /\ c.soft \in Nat /\ c.guard \in 1..99 /\ c.transient \in Int
  /\ c.hard \in Nat /\ c.softTtft \in Nat /\ c.ratio \in Int
  /\ c.relTtft \in BOOLEAN /\ c.relDec \in BOOLEAN /\ c.cost \in BOOLEAN
  /\ c.strict \in BOOLEAN

\* The type invariant of a decision's view: marks are nested, and there are none when
\* there is no prefix to mark.
ViewOK ==
  /\ ConfigOK(cfg) /\ load \in [Fleet -> LoadValues] /\ units \in BOOLEAN
  /\ depth \in Nested(2)

\* An anchor is a level of the path, marked on some member unless it is 0, and the
\* deepest such.
LEMMA AnchorIsDeepest ==
  ASSUME ViewOK, NEW S
  PROVE  /\ Anchor(S) \in 0..2
         /\ Anchor(S) # 0 => depth[Anchor(S)] \cap S # {}
         /\ \A k \in 1..2 : depth[k] \cap S # {} => Anchor(S) >= k
<1>1. DOMAIN depth = 1..2
  BY DEF ViewOK, Nested
<1> DEFINE L == {0} \cup {k \in 1..2 : depth[k] \cap S # {}}
<1>2. L \subseteq 0..2 /\ L # {}
  OBVIOUS
<1>3. \E x \in L : \A y \in L : x >= y
  <2>1. L \subseteq {0, 1, 2} /\ 0 \in L
    BY <1>2
  <2> HIDE DEF L
  <2>2. CASE 2 \in L
    BY <2>1, <2>2
  <2>3. CASE 2 \notin L /\ 1 \in L
    BY <2>1, <2>3
  <2>4. CASE 2 \notin L /\ 1 \notin L
    BY <2>1, <2>4
  <2>5. QED
    BY <2>2, <2>3, <2>4
<1>5. Max(L) \in L /\ \A y \in L : Max(L) >= y
  <2> HIDE DEF L
  <2>1. QED
    BY <1>3 DEF Max
<1>6. Anchor(S) = Max(L)
  BY <1>1 DEF Anchor
<1> HIDE DEF L
<1>7. QED
  BY <1>5, <1>6, <1>2 DEF L

\* The smallest number in flight is one.
LEMMA SmallestInflight ==
  ASSUME NEW ld \in [Fleet -> LoadValues], NEW S \in SUBSET Fleet, S # {}
  PROVE  /\ Min({ld[c].inflight : c \in S}) \in Nat
         /\ \E c \in S : Min({ld[d].inflight : d \in S}) = ld[c].inflight
         /\ \A c \in S : Min({ld[d].inflight : d \in S}) <= ld[c].inflight
<1> DEFINE I == {ld[c].inflight : c \in S}
<1>1. \A c \in S : ld[c].inflight \in Nat
  BY DEF LoadValues
<1>2. I \subseteq Nat /\ I # {}
  BY <1>1
<1>3. Min(I) \in I /\ \A y \in I : Min(I) <= y
  BY <1>2, NaturalMin
<1>4. QED
  BY <1>1, <1>2, <1>3
\* A signal that names a level names a positive one, no higher than what the backend
\* carries: a refusal is latched by somebody, a limit is positive, and an imbalance is
\* above the fleet's smallest.
LEMMA LevelsCarried ==
  ASSUME ConfigOK(cfg), NEW ld \in [Fleet -> LoadValues],
         NEW cands \in SUBSET Fleet, NEW b \in cands
  PROVE  \A r \in Early(b, ld) \cup Late(b, cands, ld) :
           r \in Nat /\ 0 < r /\ r <= ld[b].inflight
<1> DEFINE infl == ld[b].inflight
<1>1. infl \in Nat /\ cfg.limit \in Int /\ cfg.ratio \in Int
  BY DEF LoadValues, ConfigOK
<1>2. \A r \in RefusedSignal(ld[b]) : r \in Nat /\ 0 < r /\ r <= infl
  <2>1. ld[b].latch # Null => ld[b].latch.level \in Nat /\ 0 < ld[b].latch.level
    BY DEF LoadValues
  <2>2. QED
    BY <1>1, <2>1 DEF RefusedSignal
<1>3. \A r \in ConcurrencySignal(ld[b], cfg.limit) : r \in Nat /\ 0 < r /\ r <= infl
  BY <1>1 DEF ConcurrencySignal
<1>4. \A r \in Late(b, cands, ld) : r \in Nat /\ 0 < r /\ r <= infl
  <2>1. MinInflight(cands, ld) \in Nat
    BY SmallestInflight DEF MinInflight
  <2>2. QED
    BY <1>1, <2>1 DEF Late, ImbalanceSignal
<1>5. QED
  BY <1>2, <1>3, <1>4 DEF Early

\* So the reference of a saturated backend that the gate does not hold is one of them.
LEMMA ReferenceCarried ==
  ASSUME ConfigOK(cfg), NEW ld \in [Fleet -> LoadValues],
         NEW cands \in SUBSET Fleet, NEW b \in cands \ Usable(cands, ld)
  PROVE  /\ Reference(b, cands, ld) \in Nat
         /\ Reference(b, cands, ld) <= ld[b].inflight
         /\ TtftSignal(ld[b], cfg.hard) = {} => 0 < Reference(b, cands, ld)
<1> DEFINE R == Early(b, ld) \cup Late(b, cands, ld)
<1>1. \A r \in R : r \in Nat /\ 0 < r /\ r <= ld[b].inflight
  BY LevelsCarried
<1>2. ld[b].inflight \in Nat
  BY DEF LoadValues
<1>3. CASE Early(b, ld) = {} /\ TtftSignal(ld[b], cfg.hard) # {}
  BY <1>2, <1>3 DEF Reference
<1>4. CASE ~(Early(b, ld) = {} /\ TtftSignal(ld[b], cfg.hard) # {})
  <2>1. R # {}
    BY <1>4 DEF Usable, Fires
  <2>2. Min(R) \in R
    <3> HIDE DEF R
    <3>1. R \subseteq Nat
      BY <1>1
    <3>2. QED
      BY <2>1, <3>1, NaturalMin
  <2>3. Reference(b, cands, ld) = Min(R)
    BY <1>4 DEF Reference
  <2> HIDE DEF R
  <2>4. QED
    BY <1>1, <2>2, <2>3
<1>5. QED
  BY <1>3, <1>4

\* The saturated holders' reference is one of theirs, or there is none.
LEMMA SaturatedCarried ==
  ASSUME ConfigOK(cfg), NEW ld \in [Fleet -> LoadValues], NEW cands \in SUBSET Fleet
  PROVE  /\ SaturatedRef(cands, ld) \in Int
         /\ SaturatedRef(cands, ld) > 0 =>
              \E h \in (cands \ Usable(cands, ld)) \cap AnchorHolders :
                SaturatedRef(cands, ld) <= ld[h].inflight
         /\ \A h \in (cands \ Usable(cands, ld)) \cap AnchorHolders :
              SaturatedRef(cands, ld) >= Reference(h, cands, ld)
<1> DEFINE H == (cands \ Usable(cands, ld)) \cap AnchorHolders
           F == {Reference(h, cands, ld) : h \in H}
           R == {-1} \cup F
<1>1. \A h \in H : Reference(h, cands, ld) \in Nat /\ Reference(h, cands, ld) <= ld[h].inflight
  BY ReferenceCarried
<1>2. IsFiniteSet(R)
  <2>1. IsFiniteSet(H)
    <3>1. H \in SUBSET Fleet /\ IsFiniteSet(Fleet)
      BY LadderAssumption
    <3> HIDE DEF H
    <3>2. QED
      BY <3>1, FS_Subset
  <2>2. IsFiniteSet(F)
    <3> DEFINE f == [h \in H |-> Reference(h, cands, ld)]
    <3>1. f \in Surjection(H, F)
      <4> HIDE DEF H
      <4>1. QED
        BY DEF Surjection
    <3> HIDE DEF f, F, H
    <3>2. QED
      BY <2>1, <3>1, FS_Surjection
  <2> HIDE DEF F
  <2>3. IsFiniteSet({-1})
    BY FS_Singleton
  <2>4. QED
    BY <2>2, <2>3, FS_Union
<1>3. R \subseteq Int /\ R # {}
  BY <1>1
<1>4. Max(R) \in R /\ \A y \in R : Max(R) >= y
  <2> HIDE DEF R
  <2>1. QED
    BY <1>2, <1>3, FiniteMax
<1>5. SaturatedRef(cands, ld) = Max(R)
  BY DEF SaturatedRef
<1>6. \A h \in H : Reference(h, cands, ld) \in R
  OBVIOUS
<1>7. Max(R) > 0 => \E h \in H : Max(R) = Reference(h, cands, ld)
  <2> DEFINE m == Max(R)
  <2>1. m \in R
    BY <1>4
  <2> HIDE DEF m
  <2>2. m = -1 \/ m \in F
    BY <2>1
  <2>3. m > 0 => m \in F
    BY <2>2
  <2>4. QED
    BY <2>3 DEF m
<1> HIDE DEF R, F
<1>8. QED
  BY <1>1, <1>3, <1>4, <1>5, <1>6, <1>7
\* While somebody in S holds the anchor, S reaches as deep as the fleet does, and its
\* holders are the anchor's.
LEMMA AnchorReached ==
  ASSUME ViewOK, NEW S \in SUBSET Fleet, S \cap AnchorHolders # {}
  PROVE  Anchor(S) = Anchor(Fleet) /\ Anchor(S) # 0 /\ HoldersIn(S) = AnchorHolders \cap S
<1>1. Anchor(Fleet) # 0 /\ AnchorHolders = depth[Anchor(Fleet)]
  BY DEF AnchorHolders, MarkedAt
<1>2. /\ Anchor(Fleet) \in 0..2 /\ Anchor(S) \in 0..2
      /\ \A k \in 1..2 : depth[k] \cap S # {} => Anchor(S) >= k
      /\ \A k \in 1..2 : depth[k] \cap Fleet # {} => Anchor(Fleet) >= k
      /\ Anchor(S) # 0 => depth[Anchor(S)] \cap S # {}
  BY AnchorIsDeepest
<1>3. Anchor(Fleet) \in 1..2
  BY <1>1, <1>2
<1>4. Anchor(S) >= Anchor(Fleet)
  BY <1>1, <1>2, <1>3
<1>5. Anchor(S) \in 1..2 /\ depth[Anchor(S)] \cap Fleet # {}
  BY <1>2, <1>3, <1>4
<1>6. Anchor(S) = Anchor(Fleet)
  BY <1>2, <1>4, <1>5
<1>7. QED
  BY <1>1, <1>3, <1>6 DEF HoldersIn, MarkedAt

\* The holders, preferred or stretched, are among those asked for.
LEMMA HoldersAmong ==
  ASSUME NEW S, NEW ld
  PROVE  /\ HoldersIn(S) \subseteq S /\ Preferred(S, ld) \subseteq S
         /\ Stretch(S, ld) \subseteq S
         /\ Stretch(S, ld) = {} /\ Preferred(S, ld) = {} => HoldersIn(S) = {}
         /\ Preferred(S, ld) = {} => \A h \in Stretch(S, ld) : Causes(h, S, ld) # {}
<1>1. HoldersIn(S) \subseteq S
  BY DEF HoldersIn
<1>2. QED
  BY <1>1 DEF Preferred, Stretch

\* The ladder proper, once somebody is usable and there is a prefix to place.
LEMMA TiersInOrder ==
  ASSUME NEW cands, NEW ld, NEW u, u = Usable(cands, ld),
         u # {}, cands # {}, units, ~cfg.cost
  PROVE  Select(cands, ld) =
           IF Preferred(u, ld) # {} THEN Tier("cache", TRUE, Preferred(u, ld), ld)
           ELSE IF AnchorHolders = {} THEN Tier("load", TRUE, u, ld)
           ELSE IF Targets(cands, ld) # {} THEN Tier("split", TRUE, Targets(cands, ld), ld)
           ELSE IF Stretch(u, ld) # {} THEN Tier("stretch", TRUE, Stretch(u, ld), ld)
           ELSE IF Transient(cands, ld) # {}
                THEN Tier("overflow", FALSE, Transient(cands, ld), ld)
           ELSE IF cfg.strict THEN Tier("blocked", FALSE, {}, ld)
           ELSE Tier("overflow", FALSE, cands, ld)
BY DEF Select

\* A split: no holder is preferred, and the copy goes to a target.
LEMMA SplitTakesTarget ==
  ASSUME NEW cands, NEW ld, Select(cands, ld).tier = "split"
  PROVE  /\ Preferred(Usable(cands, ld), ld) = {}
         /\ Select(cands, ld).to \subseteq Targets(cands, ld)
<1> DEFINE u == Usable(cands, ld)
           d == Select(cands, ld)
<1>1. u \subseteq cands
  BY DEF Usable
<1>2. CASE cands = {}
  <2>1. d.tier = "none"
    BY <1>1, <1>2 DEF Select, Tier
  <2>2. QED
    BY <2>1
<1>3. CASE cands # {} /\ u = {}
  <2>1. d.tier = "saturated"
    BY <1>3 DEF Select, Tier
  <2>2. QED
    BY <2>1
<1>4. CASE u # {} /\ ~units
  <2>1. d.tier = "load"
    BY <1>1, <1>4 DEF Select, Tier
  <2>2. QED
    BY <2>1
<1>5. CASE u # {} /\ units /\ cfg.cost
  <2>1. d.tier = "cost"
    BY <1>1, <1>5 DEF Select, Tier
  <2>2. QED
    BY <2>1
<1>6. CASE u # {} /\ units /\ ~cfg.cost
  <2>1. cands # {}
    BY <1>1, <1>6
  <2>2. QED
    BY <1>6, <2>1, TiersInOrder DEF Tier, LeastOutstanding
<1>7. QED
  BY <1>2, <1>3, <1>4, <1>5, <1>6

\* With nobody stretched the guard's reference is the saturated holders', if they have
\* one, and the limit otherwise.
LEMMA UnstretchedRef ==
  ASSUME NEW cands, NEW ld, Stretch(Usable(cands, ld), ld) = {}
  PROVE  /\ SplitCauses(Usable(cands, ld), ld) = {}
         /\ GuardRef(cands, ld) =
              IF SaturatedRef(cands, ld) > 0 THEN SaturatedRef(cands, ld) ELSE cfg.limit
BY DEF SplitCauses, GuardRef

\* The guard's reference is carried by a backend the copy is made to escape.
LEMMA RefIsRelieved ==
  ASSUME ViewOK, NEW cands \in SUBSET Fleet,
         NEW u, u = Usable(cands, load), NEW s, s = Stretch(u, load),
         Preferred(u, load) = {},
         NEW away, away = (cands \cap AnchorHolders) \cup s, away # {},
         "softTtft" \notin SplitCauses(u, load),
         "concurrency" \in SplitCauses(u, load) \/ \A h \in s : load[h].inflight > 0,
         \A h \in away : TtftSignal(load[h], cfg.hard) = {}
  PROVE  /\ GuardRef(cands, load) \in Int /\ GuardRef(cands, load) > 0
         /\ \E h \in away : GuardRef(cands, load) <= load[h].inflight
<1> DEFINE G == GuardRef(cands, load)
           why == SplitCauses(u, load)
<1>1. u \subseteq cands /\ s \subseteq u /\ u \in SUBSET Fleet /\ s \in SUBSET Fleet
  BY HoldersAmong DEF Usable
<1>2. ConfigOK(cfg) /\ load \in [Fleet -> LoadValues] /\ cfg.soft \in Nat /\ cfg.limit \in Int
  BY DEF ViewOK, ConfigOK
<1>3. \A h \in Fleet : load[h].inflight \in Nat
  BY <1>2 DEF LoadValues
<1>4. CASE s = {}
  <2>1. PICK h \in away : TRUE
    OBVIOUS
  <2>2. h \in cands /\ h \in AnchorHolders
    BY <1>4, <2>1
  <2>3. h \notin u
    <3> SUFFICES ASSUME h \in u PROVE FALSE
      OBVIOUS
    <3>1. u \cap AnchorHolders # {}
      BY <2>2
    <3>2. HoldersIn(u) = AnchorHolders \cap u
      BY <1>1, <3>1, AnchorReached
    <3>3. HoldersIn(u) = {}
      BY <1>4, HoldersAmong
    <3>4. QED
      BY <2>2, <3>2, <3>3
  <2>4. 0 < Reference(h, cands, load) /\ Reference(h, cands, load) \in Nat
    BY <1>2, <2>2, <2>3, ReferenceCarried
  <2>5. /\ SaturatedRef(cands, load) \in Int
        /\ SaturatedRef(cands, load) >= Reference(h, cands, load)
    BY <1>2, <2>2, <2>3, SaturatedCarried
  <2>6. SaturatedRef(cands, load) > 0
    BY <2>4, <2>5
  <2>7. PICK g \in (cands \ u) \cap AnchorHolders : SaturatedRef(cands, load) <= load[g].inflight
    BY <1>2, <2>6, SaturatedCarried
  <2>8. G = SaturatedRef(cands, load)
    BY <1>4, <2>6, UnstretchedRef
  <2>9. g \in away
    BY <1>4, <2>7
  <2>10. QED
    BY <2>5, <2>6, <2>7, <2>8, <2>9
<1>5. CASE s # {}
  <2> DEFINE sat == SaturatedRef(cands, load)
             base == IF cfg.soft > 0 THEN cfg.soft ELSE IF sat > 0 THEN sat ELSE cfg.limit
             low == Min({load[c].inflight : c \in s})
             rel == why \cap {"relTtft", "relDecode"} # {}
  <2>1. G = IF rel /\ low > 0 /\ (base <= 0 \/ low < base) THEN low ELSE base
    BY <1>5 DEF GuardRef
  <2>2. /\ low \in Nat /\ \E h \in s : low = load[h].inflight
        /\ \A h \in s : low <= load[h].inflight
    BY <1>1, <1>2, <1>5, SmallestInflight
  <2>3. base \in Int
    BY <1>2, SaturatedCarried
  <2>4. CASE "concurrency" \in why
    <3>1. PICK h \in s : cfg.soft > 0 /\ load[h].inflight >= cfg.soft
      BY <2>4 DEF SplitCauses, Causes
    <3>2. base = cfg.soft
      BY <3>1
    <3>3. h \in away /\ load[h].inflight \in Nat
      BY <1>1, <1>3
    <3> HIDE DEF base, low, rel, G
    <3>4. G > 0 /\ G <= load[h].inflight /\ G \in Int
      BY <1>2, <2>1, <2>2, <3>1, <3>2, <3>3
    <3>5. QED
      BY <3>3, <3>4 DEF G
  <2>5. CASE "concurrency" \notin why
    <3>1. PICK h \in s : low = load[h].inflight
      BY <2>2
    <3>2. h \in away /\ load[h].inflight \in Nat /\ low > 0
      BY <1>1, <1>3, <2>5, <3>1
    <3>3. rel
      <4>1. Causes(h, u, load) # {}
        BY HoldersAmong
      <4>2. Causes(h, u, load) \subseteq why
        BY <3>1 DEF SplitCauses
      <4>3. why \subseteq {"concurrency", "softTtft", "relTtft", "relDecode"}
        BY DEF SplitCauses, Causes
      <4>4. "softTtft" \notin why
        OBVIOUS
      <4> HIDE DEF why
      <4>5. QED
        BY <2>5, <4>1, <4>2, <4>3, <4>4
    <3> HIDE DEF base, low, rel, G
    <3>4. G > 0 /\ G <= load[h].inflight /\ G \in Int
      BY <2>1, <2>2, <2>3, <3>1, <3>2, <3>3
    <3>5. QED
      BY <3>2, <3>4 DEF G
  <2>6. QED
    BY <2>4, <2>5
<1>6. QED
  BY <1>4, <1>5

\* So a copy that clears the guard is below one of them.
LEMMA SplitRelievesOK == ViewOK => SplitRelieves
<1> SUFFICES ASSUME ViewOK, NEW cands \in SUBSET Fleet
             PROVE  LET u == Usable(cands, load)
                        s == Stretch(u, load)
                        why == SplitCauses(u, load)
                        away == (cands \cap AnchorHolders) \cup s
                        d == Select(cands, load)
                    IN  /\ d.tier = "split" /\ away # {} /\ "softTtft" \notin why
                        /\ "concurrency" \in why \/ \A h \in s : load[h].inflight > 0
                        /\ \A h \in away : TtftSignal(load[h], cfg.hard) = {}
                        => \A t \in d.to : \E h \in away : load[t].inflight < load[h].inflight
  BY DEF SplitRelieves
<1> DEFINE u == Usable(cands, load)
           s == Stretch(u, load)
           why == SplitCauses(u, load)
           away == (cands \cap AnchorHolders) \cup s
           d == Select(cands, load)
           G == GuardRef(cands, load)
<1> SUFFICES ASSUME d.tier = "split", away # {}, "softTtft" \notin why,
                    "concurrency" \in why \/ \A h \in s : load[h].inflight > 0,
                    \A h \in away : TtftSignal(load[h], cfg.hard) = {},
                    NEW t \in d.to
             PROVE  \E h \in away : load[t].inflight < load[h].inflight
  OBVIOUS
<1>1. Preferred(u, load) = {} /\ t \in Targets(cands, load)
  BY SplitTakesTarget
<1>2. t \in Fleet /\ BelowRef(t, G, cfg.guard, load)
  BY <1>1 DEF Targets, Usable
<1>3. G \in Int /\ G > 0 /\ \E h \in away : G <= load[h].inflight
  BY <1>1, RefIsRelieved
<1>4. PICK h \in away : G <= load[h].inflight
  BY <1>3
<1>5. /\ load[t].inflight \in Nat /\ cfg.guard \in 1..99
      /\ h \in Fleet /\ load[h].inflight \in Nat
  BY <1>2, HoldersAmong DEF ViewOK, ConfigOK, LoadValues, Usable
<1> HIDE DEF G
<1>6. 100 * load[t].inflight < G * (100 - cfg.guard)
  BY <1>2, <1>3 DEF BelowRef
<1>7. \A g \in Nat, m \in 1..99 : g * (100 - m) <= 100 * g
  OBVIOUS
<1>8. load[t].inflight < G
  BY <1>3, <1>5, <1>6, <1>7
<1>9. QED
  BY <1>3, <1>4, <1>5, <1>8
\* With no holder of the prefix among the candidates and no limit, nothing sets a
\* reference: a usable backend is a target.
LEMMA AbsentHoldersOK == ViewOK => AbsentHoldersRelocate
<1> SUFFICES ASSUME ViewOK, NEW cands \in SUBSET Fleet, cfg.limit = 0,
                    cands \cap AnchorHolders = {}, Usable(cands, load) # {},
                    Select(cands, load).tier = "blocked"
             PROVE  FALSE
  BY DEF AbsentHoldersRelocate
<1> DEFINE u == Usable(cands, load)
           H == (cands \ u) \cap AnchorHolders
<1>1. u \subseteq cands /\ cands # {}
  BY DEF Usable
<1>2. units /\ ~cfg.cost
  BY <1>1 DEF Select, Tier
<1>3. Preferred(u, load) = {} /\ Stretch(u, load) = {} /\ Targets(cands, load) = {}
  BY <1>1, <1>2, TiersInOrder DEF Tier
<1>4. ~(SaturatedRef(cands, load) > 0)
  <2>1. ConfigOK(cfg) /\ load \in [Fleet -> LoadValues]
    BY DEF ViewOK
  <2>2. QED
    BY <2>1, SaturatedCarried
<1>5. GuardRef(cands, load) = 0 /\ SplitCauses(u, load) = {}
  BY <1>3, <1>4, UnstretchedRef
<1>6. \E c \in u : ~OverSoft(c, u, load)
  <2>1. CASE SoftTtftOn(u, load)
    <3>1. PICK c \in u : load[c].p90 <= cfg.softTtft
      BY <2>1 DEF SoftTtftOn
    <3>2. load[c].p90 \in Nat /\ cfg.softTtft \in Nat
      BY <1>1 DEF ViewOK, ConfigOK, LoadValues
    <3>3. ~(load[c].p90 > cfg.softTtft)
      BY <3>1, <3>2
    <3>4. QED
      BY <3>3 DEF OverSoft
  <2>2. CASE ~SoftTtftOn(u, load)
    BY <2>2 DEF OverSoft
  <2>3. QED
    BY <2>1, <2>2
<1>7. PICK c \in u : ~OverSoft(c, u, load)
  BY <1>6
<1>8. BelowRef(c, 0, cfg.guard, load)
  BY DEF BelowRef
<1>9. c \in Targets(cands, load)
  BY <1>1, <1>5, <1>7, <1>8 DEF Targets
<1>10. QED
  BY <1>3, <1>9

\* Who is queued on is saturated by the limit alone, and holds what the fleet holds.
LEMMA QueuedOn ==
  ASSUME ViewOK, NEW cands \in SUBSET Fleet, Select(cands, load).tier = "saturated",
         NEW b \in Select(cands, load).to
  PROVE  /\ Usable(cands, load) = {} /\ b \in Waitable(cands, load)
         /\ units => b \in AnchorHolders
<1> DEFINE u == Usable(cands, load)
           d == Select(cands, load)
<1>1. u \subseteq cands
  BY DEF Usable
<1>2. cands # {}
  <2> SUFFICES ASSUME cands = {} PROVE FALSE
    OBVIOUS
  <2>1. d.tier = "none"
    BY <1>1 DEF Select, Tier
  <2>2. QED
    BY <2>1
<1>3. u = {}
  <2> SUFFICES ASSUME u # {} PROVE FALSE
    OBVIOUS
  <2>1. CASE ~units
    <3>1. d.tier = "load"
      BY <1>2, <2>1 DEF Select, Tier
    <3>2. QED
      BY <3>1
  <2>2. CASE units /\ cfg.cost
    <3>1. d.tier = "cost"
      BY <1>2, <2>2 DEF Select, Tier
    <3>2. QED
      BY <3>1
  <2>3. CASE units /\ ~cfg.cost
    BY <1>2, <2>3, TiersInOrder DEF Tier
  <2>4. QED
    BY <2>1, <2>2, <2>3
<1>4. b \in QueueTarget(cands, load)
  BY <1>2, <1>3 DEF Select
<1>5. QED
  BY <1>3, <1>4 DEF QueueTarget, LeastOutstanding

\* When a slot frees, the limit's signal is silent, and no other had fired: the
\* imbalance shrinks with what the backend carries.
LEMMA FreedIsUsable ==
  ASSUME ViewOK, NEW cands \in SUBSET Fleet, Usable(cands, load) = {},
         NEW b \in Waitable(cands, load),
         NEW ld, ld = [load EXCEPT ![b].inflight = cfg.limit - 1]
  PROVE  ld \in [Fleet -> LoadValues] /\ Usable(cands, ld) = {b}
<1>1. /\ b \in cands /\ b \in Fleet /\ load \in [Fleet -> LoadValues] /\ ConfigOK(cfg)
      /\ cfg.limit > 0 /\ load[b].inflight >= cfg.limit
      /\ RefusedSignal(load[b]) = {} /\ TtftSignal(load[b], cfg.hard) = {}
      /\ Late(b, cands, load) = {}
  BY DEF Waitable, ConcurrencySignal, ViewOK
<1>2. /\ cfg.limit \in Int /\ cfg.ratio \in Int /\ cfg.limit - 1 \in Nat
  BY <1>1 DEF ConfigOK
<1>3. ld \in [Fleet -> LoadValues]
  BY <1>1, <1>2 DEF LoadValues
<1>4. /\ ld[b].inflight = cfg.limit - 1 /\ ld[b].latch = load[b].latch
      /\ ld[b].gate = load[b].gate /\ ld[b].p90 = load[b].p90
  BY <1>1 DEF LoadValues
<1>5. \A c \in cands \ {b} : ld[c] = load[c]
  BY <1>1
<1> DEFINE x == MinInflight(cands, load)
           y == MinInflight(cands, ld)
<1>6. /\ x \in Nat /\ \E c \in cands : x = load[c].inflight
      /\ \A c \in cands : x <= load[c].inflight
  BY <1>1, SmallestInflight DEF MinInflight
<1>7. /\ y \in Nat /\ \E c \in cands : y = ld[c].inflight
      /\ \A c \in cands : y <= ld[c].inflight
  BY <1>1, <1>3, SmallestInflight DEF MinInflight
<1>8. \A c \in cands : load[c].inflight \in Nat
  BY <1>1 DEF LoadValues
<1> HIDE DEF x, y
<1>9. y <= x
  <2>1. PICK c \in cands : x = load[c].inflight
    BY <1>6
  <2>2. CASE c = b
    BY <1>1, <1>2, <1>4, <1>6, <1>7, <1>8, <2>1, <2>2
  <2>3. CASE c # b
    BY <1>5, <1>7, <2>1, <2>3
  <2>4. QED
    BY <2>2, <2>3
<1>10. RefusedSignal(ld[b]) = {}
  <2>1. load[b].latch # Null => load[b].latch.level \in Nat
    BY <1>1 DEF LoadValues
  <2>2. load[b].inflight \in Nat
    BY <1>1, <1>8
  <2>3. QED
    BY <1>1, <1>2, <1>4, <2>1, <2>2 DEF RefusedSignal
<1>11. ConcurrencySignal(ld[b], cfg.limit) = {}
  BY <1>2, <1>4 DEF ConcurrencySignal
<1>12. TtftSignal(ld[b], cfg.hard) = {}
  BY <1>1, <1>4 DEF TtftSignal
<1>13. Late(b, cands, ld) = {}
  <2> SUFFICES ASSUME Late(b, cands, ld) # {} PROVE FALSE
    OBVIOUS
  <2> DEFINE k == cfg.limit - 1
             l == load[b].inflight
             q == cfg.ratio
  <2>1. q > 0 /\ k > y /\ k >= MinRebalanceLoad /\ 100 * (k - y) > q * k
    BY <1>4 DEF Late, ImbalanceSignal, y
  <2>2. l \in Nat /\ k \in Nat /\ q \in Int /\ l > k /\ MinRebalanceLoad \in Nat
    BY <1>1, <1>2, <1>8, SignalsAssumption
  <2>3. x = y
    <3>1. PICK c \in cands : y = ld[c].inflight
      BY <1>7
    <3>2. c # b
      BY <1>2, <1>4, <1>7, <2>1, <3>1
    <3>3. x <= y
      BY <1>5, <1>6, <3>1, <3>2
    <3>4. QED
      BY <1>6, <1>7, <1>9, <3>3
  <2>4. ~(100 * (l - x) > q * l)
    <3>1. l > x /\ l >= MinRebalanceLoad
      BY <1>6, <2>1, <2>2, <2>3, SignalsAssumption
    <3>2. QED
      BY <1>1, <2>1, <3>1 DEF Late, ImbalanceSignal, x
  <2> HIDE DEF k, l, q
  <2>5. CASE q <= 100
    <3>1. q * (l - k) <= 100 * (l - k)
      <4>1. \A n \in Nat : q * n <= 100 * n
        BY <2>1, <2>2, <2>5
      <4>2. l - k \in Nat
        BY <2>2
      <4>3. QED
        BY <4>1, <4>2
    <3>2. q * (l - k) = q * l - q * k
      BY <2>2
    <3>3. q * l \in Int /\ q * k \in Int
      BY <2>2
    <3>4. QED
      BY <1>6, <1>7, <2>1, <2>2, <2>3, <2>4, <3>1, <3>2, <3>3
  <2>6. CASE q > 100
    <3>1. \A n \in Nat : q * n >= 100 * n
      BY <2>2, <2>6
    <3>2. q * k \in Int /\ q * k >= 100 * k
      BY <2>2, <3>1
    <3>3. QED
      BY <1>7, <2>1, <2>2, <3>2
  <2>7. QED
    BY <2>2, <2>5, <2>6
<1>14. b \in Usable(cands, ld)
  BY <1>1, <1>10, <1>11, <1>12, <1>13 DEF Usable, Fires, Early
<1>15. ASSUME NEW c \in cands \ {b}
       PROVE  c \notin Usable(cands, ld)
  <2>1. Fires(c, cands, load)
    BY DEF Usable
  <2>2. CASE Early(c, load) \cup TtftSignal(load[c], cfg.hard) # {}
    <3>1. Early(c, ld) \cup TtftSignal(ld[c], cfg.hard) # {}
      BY <1>5, <2>2 DEF Early
    <3>2. QED
      BY <3>1 DEF Usable, Fires
  <2>3. CASE Late(c, cands, load) # {}
    <3> DEFINE l == load[c].inflight
               q == cfg.ratio
    <3>1. q > 0 /\ l > x /\ l >= MinRebalanceLoad /\ 100 * (l - x) > q * l
      BY <2>3 DEF Late, ImbalanceSignal, x
    <3>2. l \in Nat /\ q \in Int
      BY <1>2, <1>8
    <3>3. l > y /\ 100 * (l - y) > q * l
      <4>1. q * l \in Int
        BY <3>2
      <4> HIDE DEF l, q
      <4>2. QED
        BY <1>6, <1>7, <1>9, <3>1, <3>2, <4>1
    <3>4. ld[c].inflight = l
      BY <1>5
    <3>5. Late(c, cands, ld) # {}
      BY <3>1, <3>3, <3>4 DEF Late, ImbalanceSignal, y
    <3>6. QED
      BY <3>5 DEF Usable, Fires
  <2>4. QED
    BY <2>1, <2>2, <2>3 DEF Fires
<1>16. QED
  BY <1>3, <1>14, <1>15 DEF Usable

\* The only usable backend takes the request, when it holds what the fleet holds.
LEMMA OnlyChoice ==
  ASSUME ViewOK, NEW cands \in SUBSET Fleet, NEW ld \in [Fleet -> LoadValues],
         NEW b \in Fleet, Usable(cands, ld) = {b}, units => b \in AnchorHolders
  PROVE  /\ Select(cands, ld).tier \notin {"saturated", "blocked"}
         /\ Select(cands, ld).to = {b}
<1>1. cands # {}
  BY DEF Usable
<1>2. LeastOutstanding({b}, ld) = {b}
  <2>1. ld[b].inflight \in Nat /\ ld[b].capacity \in Nat
    BY DEF LoadValues
  <2>2. ld[b].inflight * ld[b].capacity <= ld[b].inflight * ld[b].capacity
    BY <2>1
  <2>3. QED
    BY <2>2 DEF LeastOutstanding
<1>3. CASE ~units
  <2>1. Select(cands, ld) = Tier("load", FALSE, {b}, ld)
    BY <1>1, <1>3 DEF Select
  <2>2. QED
    BY <1>2, <2>1 DEF Tier
<1>4. CASE units /\ cfg.cost
  <2>1. Cheapest({b}, ld) = {b}
    <3>1. ld[b].inflight <= ld[b].inflight
      BY DEF LoadValues
    <3>2. QED
      BY <3>1 DEF Cheapest
  <2>2. Select(cands, ld) = [tier |-> "cost", mark |-> TRUE, to |-> {b}]
    BY <1>1, <1>4, <2>1 DEF Select
  <2>3. QED
    BY <2>2
<1>5. CASE units /\ ~cfg.cost
  <2>1. AnchorHolders # {} /\ HoldersIn({b}) = {b}
    BY <1>5, AnchorReached
  <2>2. Targets(cands, ld) = {}
    BY <1>5 DEF Targets
  <2>3. Preferred({b}, ld) = {} \/ Preferred({b}, ld) = {b}
    BY <2>1 DEF Preferred
  <2>4. Preferred({b}, ld) = {} => Stretch({b}, ld) = {b}
    BY <2>1 DEF Stretch
  <2>5. \/ Select(cands, ld) = Tier("cache", TRUE, {b}, ld)
        \/ Select(cands, ld) = Tier("stretch", TRUE, {b}, ld)
    BY <1>1, <1>5, <2>1, <2>2, <2>3, <2>4, TiersInOrder
  <2>6. QED
    BY <1>2, <2>5 DEF Tier
<1>6. QED
  BY <1>3, <1>4, <1>5 DEF ViewOK

\* So the forecast a queued request was given is kept.
LEMMA ForecastKeptOK == ViewOK => ForecastKept
<1> SUFFICES ASSUME ViewOK, NEW cands \in SUBSET Fleet,
                    Select(cands, load).tier = "saturated",
                    NEW b \in Select(cands, load).to
             PROVE  LET woken == Select(cands, [load EXCEPT ![b].inflight = cfg.limit - 1])
                    IN  /\ woken.tier \notin {"saturated", "blocked"}
                        /\ woken.to # {} /\ (units => woken.to \subseteq AnchorHolders)
  BY DEF ForecastKept
<1> DEFINE ld == [load EXCEPT ![b].inflight = cfg.limit - 1]
<1>1. /\ Usable(cands, load) = {} /\ b \in Waitable(cands, load)
      /\ units => b \in AnchorHolders
  BY QueuedOn
<1>2. ld \in [Fleet -> LoadValues] /\ Usable(cands, ld) = {b}
  BY <1>1, FreedIsUsable
<1>3. b \in Fleet
  BY <1>1 DEF Waitable
<1>4. Select(cands, ld).tier \notin {"saturated", "blocked"} /\ Select(cands, ld).to = {b}
  BY <1>1, <1>2, <1>3, OnlyChoice, ZenonT(40)
<1>5. QED
  BY <1>1, <1>4
\* Two views that differ in nothing but the level at which o refused, and in which o's
\* refusal stands.
SameButFor(o, ld, lm) ==
  /\ ld \in [Fleet -> LoadValues] /\ lm \in [Fleet -> LoadValues]
  /\ \A c \in Fleet : /\ lm[c].inflight = ld[c].inflight /\ lm[c].capacity = ld[c].capacity
                      /\ lm[c].p90 = ld[c].p90 /\ lm[c].decode = ld[c].decode
                      /\ lm[c].work = ld[c].work
  /\ \A c \in Fleet \ {o} : lm[c] = ld[c]
  /\ RefusedSignal(ld[o]) # {} /\ RefusedSignal(lm[o]) # {}

\* They have the same usable backends, the same to wait for, and the same references
\* for all but o.
LEMMA SameSaturation ==
  ASSUME NEW o \in Fleet, NEW ld, NEW lm, SameButFor(o, ld, lm), NEW cands \in SUBSET Fleet
  PROVE  /\ Usable(cands, lm) = Usable(cands, ld) /\ o \notin Usable(cands, ld)
         /\ Waitable(cands, lm) = Waitable(cands, ld)
         /\ \A b \in cands \ {o} : Reference(b, cands, lm) = Reference(b, cands, ld)
<1>1. MinInflight(cands, lm) = MinInflight(cands, ld)
  <2>1. {lm[c].inflight : c \in cands} = {ld[c].inflight : c \in cands}
    BY DEF SameButFor
  <2>2. QED
    BY <2>1 DEF MinInflight
<1>2. \A b \in cands \ {o} : lm[b] = ld[b]
  BY DEF SameButFor
<1>3. \A b \in cands \ {o} : /\ Early(b, lm) = Early(b, ld)
                             /\ Late(b, cands, lm) = Late(b, cands, ld)
  BY <1>1, <1>2 DEF Early, Late
<1>4. \A b \in cands \ {o} : /\ Fires(b, cands, lm) = Fires(b, cands, ld)
                             /\ Reference(b, cands, lm) = Reference(b, cands, ld)
  BY <1>2, <1>3 DEF Fires, Reference
<1>5. Fires(o, cands, lm) /\ Fires(o, cands, ld)
  BY DEF SameButFor, Fires, Early
<1>6. Usable(cands, lm) = Usable(cands, ld) /\ o \notin Usable(cands, ld)
  BY <1>4, <1>5 DEF Usable
<1>7. o \notin Waitable(cands, lm) /\ o \notin Waitable(cands, ld)
  BY DEF Waitable, SameButFor
<1>8. \A b \in cands \ {o} : b \in Waitable(cands, lm) <=> b \in Waitable(cands, ld)
  BY <1>2, <1>3 DEF Waitable
<1>9. Waitable(cands, lm) = Waitable(cands, ld)
  <2>1. Waitable(cands, lm) \subseteq cands /\ Waitable(cands, ld) \subseteq cands
    BY DEF Waitable
  <2>2. QED
    BY <1>7, <1>8, <2>1
<1>10. QED
  BY <1>4, <1>6, <1>9

\* And the bands and the tie-breaks, which read the gauges, see the same.
LEMMA SameBands ==
  ASSUME NEW o \in Fleet, NEW ld, NEW lm, SameButFor(o, ld, lm), NEW u \in SUBSET Fleet
  PROVE  /\ LeastOutstanding(u, lm) = LeastOutstanding(u, ld)
         /\ Cheapest(u, lm) = Cheapest(u, ld)
         /\ \A c \in Fleet : OverSoft(c, u, lm) = OverSoft(c, u, ld)
         /\ Preferred(u, lm) = Preferred(u, ld) /\ Stretch(u, lm) = Stretch(u, ld)
         /\ SplitCauses(u, lm) = SplitCauses(u, ld)
<1>1. \A c \in Fleet : /\ lm[c].inflight = ld[c].inflight /\ lm[c].capacity = ld[c].capacity
                       /\ lm[c].p90 = ld[c].p90 /\ lm[c].decode = ld[c].decode
                       /\ lm[c].work = ld[c].work
  BY DEF SameButFor
<1>2. LeastOutstanding(u, lm) = LeastOutstanding(u, ld)
  BY <1>1 DEF LeastOutstanding
<1>3. Cheapest(u, lm) = Cheapest(u, ld)
  <2>1. \A c \in u : Cost(c, lm) = Cost(c, ld)
    BY <1>1 DEF Cost
  <2>2. QED
    BY <1>1, <2>1 DEF Cheapest
<1>4. SoftTtftOn(u, lm) = SoftTtftOn(u, ld)
  BY <1>1 DEF SoftTtftOn
<1>5. \A c \in Fleet : OverSoft(c, u, lm) = OverSoft(c, u, ld)
  BY <1>1, <1>4 DEF OverSoft
<1>6. \A c \in Fleet : RelTtft(c, u, lm) = RelTtft(c, u, ld)
  BY <1>1 DEF RelTtft
<1>7. \A c \in Fleet : RelDecode(c, u, lm) = RelDecode(c, u, ld)
  BY <1>1 DEF RelDecode
<1>8. \A c \in Fleet : Causes(c, u, lm) = Causes(c, u, ld)
  BY <1>1, <1>5, <1>6, <1>7 DEF Causes
<1>9. \A c \in HoldersIn(u) : c \in Fleet
  BY HoldersAmong
<1>10. Preferred(u, lm) = Preferred(u, ld)
  BY <1>8, <1>9 DEF Preferred
<1>11. Stretch(u, lm) = Stretch(u, ld)
  BY <1>10 DEF Stretch
<1>12. SplitCauses(u, lm) = SplitCauses(u, ld)
  <2>1. \A c \in Stretch(u, ld) : c \in Fleet
    BY HoldersAmong
  <2>2. QED
    BY <1>8, <1>11, <2>1 DEF SplitCauses
<1>13. QED
  BY <1>2, <1>3, <1>5, <1>10, <1>11, <1>12

\* The guard reads the references of holders, and o is none.
LEMMA SameGuard ==
  ASSUME NEW cands \in SUBSET Fleet, NEW o \in cands \ AnchorHolders,
         NEW ld, NEW lm, SameButFor(o, ld, lm)
  PROVE  /\ GuardRef(cands, lm) = GuardRef(cands, ld)
         /\ Targets(cands, lm) = Targets(cands, ld)
         /\ Transient(cands, lm) = Transient(cands, ld)
<1> DEFINE u == Usable(cands, ld)
           s == Stretch(u, ld)
<1>1. /\ Usable(cands, lm) = u /\ u \in SUBSET Fleet /\ s \in SUBSET Fleet
      /\ \A b \in cands \ {o} : Reference(b, cands, lm) = Reference(b, cands, ld)
  BY SameSaturation, HoldersAmong DEF Usable
<1>2. /\ Stretch(u, lm) = s /\ SplitCauses(u, lm) = SplitCauses(u, ld)
      /\ \A c \in Fleet : OverSoft(c, u, lm) = OverSoft(c, u, ld)
  BY <1>1, SameBands
<1>3. \A c \in Fleet : /\ lm[c].inflight = ld[c].inflight /\ lm[c].p90 = ld[c].p90
                       /\ lm[c].decode = ld[c].decode
  BY DEF SameButFor
<1>4. SaturatedRef(cands, lm) = SaturatedRef(cands, ld)
  <2> DEFINE H == (cands \ u) \cap AnchorHolders
  <2>1. \A b \in H : Reference(b, cands, lm) = Reference(b, cands, ld)
    BY <1>1
  <2>2. {Reference(b, cands, lm) : b \in H} = {Reference(b, cands, ld) : b \in H}
    BY <2>1
  <2>3. QED
    BY <1>1, <2>2 DEF SaturatedRef
<1>5. {lm[c].inflight : c \in s} = {ld[c].inflight : c \in s}
  BY <1>1, <1>3
<1>6. GuardRef(cands, lm) = GuardRef(cands, ld)
  BY <1>1, <1>2, <1>4, <1>5 DEF GuardRef
<1>7. \A c \in Fleet : \A ref, margin :
        BelowRef(c, ref, margin, lm) = BelowRef(c, ref, margin, ld)
  BY <1>3 DEF BelowRef
<1>8. Targets(cands, lm) = Targets(cands, ld)
  BY <1>1, <1>2, <1>3, <1>6, <1>7 DEF Targets
<1>9. Transient(cands, lm) = Transient(cands, ld)
  BY <1>1, <1>6, <1>7 DEF Transient
<1>10. QED
  BY <1>6, <1>8, <1>9

\* So a refusal by a backend that holds nothing of the prefix decides nothing.
LEMMA SameDecision ==
  ASSUME ViewOK, NEW cands \in SUBSET Fleet, NEW o \in cands \ AnchorHolders,
         NEW ld, NEW lm, SameButFor(o, ld, lm)
  PROVE  Select(cands, lm) = Select(cands, ld)
<1> DEFINE u == Usable(cands, ld)
           w == Waitable(cands, ld)
<1> o \in Fleet /\ cands # {}
  OBVIOUS
<1>1. /\ Usable(cands, lm) = u /\ Waitable(cands, lm) = w
      /\ u \in SUBSET Fleet /\ w \in SUBSET Fleet
  <2>1. Usable(cands, lm) = u /\ Waitable(cands, lm) = w
    BY SameSaturation
  <2>2. QED
    BY <2>1 DEF Usable, Waitable
<1>2. \A S \in SUBSET Fleet : LeastOutstanding(S, lm) = LeastOutstanding(S, ld)
  BY SameBands
<1>3. LeastOutstanding(u, lm) = LeastOutstanding(u, ld)
  BY <1>1, <1>2
<1>4. QueueTarget(cands, lm) = QueueTarget(cands, ld)
  BY <1>1, <1>2 DEF QueueTarget
<1>5. CASE u = {}
  BY <1>1, <1>4, <1>5 DEF Select
<1>6. CASE u # {} /\ ~units
  BY <1>1, <1>3, <1>6 DEF Select, Tier
<1>7. CASE u # {} /\ units /\ cfg.cost
  <2>1. Cheapest(u, lm) = Cheapest(u, ld)
    BY <1>1, SameBands
  <2>2. QED
    BY <1>1, <1>7, <2>1 DEF Select
<1>8. CASE u # {} /\ units /\ ~cfg.cost
  <2>1. /\ Preferred(u, lm) = Preferred(u, ld) /\ Preferred(u, ld) \in SUBSET Fleet
        /\ Stretch(u, lm) = Stretch(u, ld) /\ Stretch(u, ld) \in SUBSET Fleet
    BY <1>1, SameBands, HoldersAmong
  <2>2. /\ Targets(cands, lm) = Targets(cands, ld)
        /\ Transient(cands, lm) = Transient(cands, ld)
    BY SameGuard
  <2>3. Targets(cands, ld) \in SUBSET Fleet /\ Transient(cands, ld) \in SUBSET Fleet
    BY <1>1 DEF Targets, Transient
  <2>4. \A S \in SUBSET Fleet : LeastOutstanding(S, lm) = LeastOutstanding(S, ld)
    BY <1>2
  <2> DEFINE T == {u, cands, {}, Preferred(u, ld), Stretch(u, ld), Targets(cands, ld),
                   Transient(cands, ld)}
  <2>5. \A S \in T : LeastOutstanding(S, lm) = LeastOutstanding(S, ld)
    BY <1>1, <2>1, <2>3, <2>4
  <2>6. /\ Tier("cache", TRUE, Preferred(u, ld), lm) = Tier("cache", TRUE, Preferred(u, ld), ld)
        /\ Tier("load", TRUE, u, lm) = Tier("load", TRUE, u, ld)
        /\ Tier("split", TRUE, Targets(cands, ld), lm) = Tier("split", TRUE, Targets(cands, ld), ld)
        /\ Tier("stretch", TRUE, Stretch(u, ld), lm) = Tier("stretch", TRUE, Stretch(u, ld), ld)
        /\ Tier("overflow", FALSE, Transient(cands, ld), lm)
             = Tier("overflow", FALSE, Transient(cands, ld), ld)
        /\ Tier("blocked", FALSE, {}, lm) = Tier("blocked", FALSE, {}, ld)
        /\ Tier("overflow", FALSE, cands, lm) = Tier("overflow", FALSE, cands, ld)
    BY <2>5 DEF Tier
  <2> DEFINE Rung(cache, fresh, split, stretch, brief, none, any) ==
               IF Preferred(u, ld) # {} THEN cache
               ELSE IF AnchorHolders = {} THEN fresh
               ELSE IF Targets(cands, ld) # {} THEN split
               ELSE IF Stretch(u, ld) # {} THEN stretch
               ELSE IF Transient(cands, ld) # {} THEN brief
               ELSE IF cfg.strict THEN none ELSE any
  <2>7. Select(cands, ld) =
          Rung(Tier("cache", TRUE, Preferred(u, ld), ld), Tier("load", TRUE, u, ld),
               Tier("split", TRUE, Targets(cands, ld), ld),
               Tier("stretch", TRUE, Stretch(u, ld), ld),
               Tier("overflow", FALSE, Transient(cands, ld), ld),
               Tier("blocked", FALSE, {}, ld), Tier("overflow", FALSE, cands, ld))
    BY <1>1, <1>8, TiersInOrder
  <2>8. Select(cands, lm) =
          Rung(Tier("cache", TRUE, Preferred(u, ld), lm), Tier("load", TRUE, u, lm),
               Tier("split", TRUE, Targets(cands, ld), lm),
               Tier("stretch", TRUE, Stretch(u, ld), lm),
               Tier("overflow", FALSE, Transient(cands, ld), lm),
               Tier("blocked", FALSE, {}, lm), Tier("overflow", FALSE, cands, lm))
    BY <1>1, <1>8, <2>1, <2>2, TiersInOrder
  <2> HIDE DEF Rung
  <2>9. QED
    BY <2>6, <2>7, <2>8
<1>9. QED
  BY <1>5, <1>6, <1>7, <1>8 DEF ViewOK, ConfigOK

\* Raising the level an outsider refused at makes two such views.
LEMMA OutsidersOK == ViewOK => OutsidersHaveNoSay
<1> SUFFICES ASSUME ViewOK, NEW cands \in SUBSET Fleet, NEW o \in cands \ AnchorHolders,
                    RefusedSignal(load[o]) # {}
             PROVE  Select(cands, [load EXCEPT ![o].latch.level = 1]) = Select(cands, load)
  BY DEF OutsidersHaveNoSay
<1> DEFINE lm == [load EXCEPT ![o].latch.level = 1]
<1>1. load \in [Fleet -> LoadValues] /\ o \in Fleet
  BY DEF ViewOK
<1>2. /\ load[o].latch \in [level : Nat \ {0}, age : Nat]
      /\ load[o].latch.age <= RefusalTtl /\ load[o].inflight >= load[o].latch.level
      /\ load[o].latch # Null
  BY <1>1 DEF RefusedSignal, LoadValues
<1>3. lm \in [Fleet -> LoadValues]
  BY <1>1, <1>2 DEF LoadValues
<1>4. /\ \A c \in Fleet \ {o} : lm[c] = load[c]
      /\ lm[o] = [load[o] EXCEPT !.latch = [load[o].latch EXCEPT !.level = 1]]
  BY <1>1, <1>2 DEF LoadValues
<1>5. lm[o].latch.level = 1 /\ lm[o].latch.age = load[o].latch.age
  BY <1>1, <1>2, <1>4 DEF LoadValues
<1>6. lm[o].latch \in [level : Nat, age : Nat]
  BY <1>1, <1>2, <1>4 DEF LoadValues
<1>7. lm[o].inflight = load[o].inflight /\ load[o].inflight >= 1
  BY <1>1, <1>2, <1>4 DEF LoadValues
<1>8. RefusedSignal(lm[o]) # {}
  BY <1>2, <1>5, <1>6, <1>7, LadderAssumption DEF RefusedSignal
<1>9. \A c \in Fleet : /\ lm[c].inflight = load[c].inflight /\ lm[c].capacity = load[c].capacity
                       /\ lm[c].p90 = load[c].p90 /\ lm[c].decode = load[c].decode
                       /\ lm[c].work = load[c].work
  BY <1>1, <1>4 DEF LoadValues
<1> HIDE DEF lm
<1>10. SameButFor(o, load, lm)
  BY <1>1, <1>3, <1>4, <1>8, <1>9 DEF SameButFor
<1>11. QED
  BY <1>10, SameDecision DEF lm

\* Whoever is chosen is a candidate.
LEMMA DecisionAmong ==
  ASSUME NEW cands, NEW ld
  PROVE  Select(cands, ld).to \subseteq cands
<1> DEFINE u == Usable(cands, ld)
           d == Select(cands, ld)
<1>1. u \subseteq cands /\ Waitable(cands, ld) \subseteq cands
  BY DEF Usable, Waitable
<1>2. \A S \in SUBSET cands : LeastOutstanding(S, ld) \subseteq cands
  BY DEF LeastOutstanding
<1>4. CASE cands = {}
  <2>1. d = Tier("none", FALSE, {}, ld)
    BY <1>1, <1>4 DEF Select
  <2>2. QED
    BY <1>2, <2>1 DEF Tier
<1>5. CASE cands # {} /\ u = {}
  <2>1. d.to = QueueTarget(cands, ld)
    BY <1>5 DEF Select
  <2>2. QED
    BY <1>1, <2>1 DEF QueueTarget, LeastOutstanding
<1>6. CASE u # {} /\ ~units
  <2>1. d = Tier("load", FALSE, u, ld)
    BY <1>1, <1>6 DEF Select
  <2>2. QED
    BY <1>1, <1>2, <2>1 DEF Tier
<1>7. CASE u # {} /\ units /\ cfg.cost
  <2>1. d.to = Cheapest(u, ld)
    BY <1>1, <1>7 DEF Select
  <2>2. QED
    BY <1>1, <2>1 DEF Cheapest
<1>8. CASE u # {} /\ units /\ ~cfg.cost
  <2>1. cands # {}
    BY <1>1, <1>8
  <2>2. /\ Preferred(u, ld) \in SUBSET cands /\ Stretch(u, ld) \in SUBSET cands
        /\ Targets(cands, ld) \in SUBSET cands /\ Transient(cands, ld) \in SUBSET cands
        /\ u \in SUBSET cands /\ cands \in SUBSET cands /\ {} \in SUBSET cands
    BY <1>1, HoldersAmong DEF Targets, Transient
  <2>3. d.to \in {LeastOutstanding(S, ld) : S \in SUBSET cands}
    BY <1>8, <2>1, <2>2, TiersInOrder DEF Tier
  <2>4. QED
    BY <1>2, <2>3
<1>9. QED
  BY <1>4, <1>5, <1>6, <1>7, <1>8

\* Whatever was configured, a configuration with its defaults makes sense.
LEMMA InitViewOK == LadderInit => ViewOK
<1> SUFFICES ASSUME LadderInit PROVE ViewOK
  OBVIOUS
<1>1. PICK c \in Configs : cfg = WithDefaults(c)
  BY DEF LadderInit
<1>2. /\ c.limit \in Int /\ c.soft \in Int /\ c.guard \in Int /\ c.transient \in Int
      /\ c.hard \in Int /\ c.softTtft \in Int /\ c.ratio \in Int
      /\ c.relTtft \in BOOLEAN /\ c.relDec \in BOOLEAN /\ c.cost \in BOOLEAN
      /\ c.strict \in BOOLEAN
      /\ c = [limit |-> c.limit, soft |-> c.soft, guard |-> c.guard,
              transient |-> c.transient, hard |-> c.hard, softTtft |-> c.softTtft,
              relTtft |-> c.relTtft, relDec |-> c.relDec, cost |-> c.cost,
              ratio |-> c.ratio, strict |-> c.strict]
  BY LadderAssumption
<1>3. ASSUME NEW k \in Int PROVE Max({k, 0}) \in Nat
  <2>1. \E x \in {k, 0} : \A y \in {k, 0} : x >= y
    <3>1. CASE k >= 0
      BY <3>1
    <3>2. CASE ~(k >= 0)
      BY <3>2
    <3>3. QED
      BY <3>1, <3>2
  <2>2. Max({k, 0}) \in {k, 0} /\ Max({k, 0}) >= 0
    BY <2>1 DEF Max
  <2>3. QED
    BY <2>2
<1> DEFINE g == IF c.guard <= 0 \/ c.guard >= 100 THEN 20 ELSE c.guard
<1>4. g \in 1..99
  BY <1>2
<1>5. cfg = [limit |-> c.limit,
             soft |-> IF c.soft < 0 \/ c.limit <= 0 \/ c.soft >= c.limit THEN 0 ELSE c.soft,
             guard |-> g,
             transient |-> IF c.transient < 0 \/ c.transient >= g THEN 0 ELSE c.transient,
             hard |-> Max({c.hard, 0}), softTtft |-> Max({c.softTtft, 0}),
             relTtft |-> c.relTtft, relDec |-> c.relDec, cost |-> c.cost,
             ratio |-> c.ratio, strict |-> c.strict]
  BY <1>1, <1>2 DEF WithDefaults
<1> HIDE DEF g
<1>6. ConfigOK(cfg)
  BY <1>2, <1>3, <1>4, <1>5 DEF ConfigOK
<1>7. load \in [Fleet -> LoadValues]
  BY LadderAssumption DEF LadderInit, LoadValues
<1>8. depth \in Nested(2)
  BY DEF LadderInit, Nested
<1>9. QED
  BY <1>6, <1>7, <1>8 DEF ViewOK, LadderInit

\* A step commits the path of a backend of the fleet, so marks stay nested.
LEMMA ViewAlways == LadderSpec => []ViewOK
<1>1. ViewOK /\ [LadderNext]_ladderVars => ViewOK'
  <2> SUFFICES ASSUME ViewOK, [LadderNext]_ladderVars PROVE ViewOK'
    OBVIOUS
  <2>1. CASE LadderNext
    <3>1. PICK b \in Fleet : \E m : CommitPath(b, m)
      BY <2>1, DecisionAmong DEF LadderNext, Serve
    <3>3. depth \in Nested(2)
      BY DEF ViewOK
    <3>4. depth' = [k \in DOMAIN depth |-> depth[k] \cup {b}]
      BY <3>1 DEF CommitPath
    <3>5. depth' \in Nested(2)
      BY <3>3, <3>4 DEF Nested
    <3>6. QED
      BY <3>1, <3>5 DEF ViewOK, ConfigOK, CommitPath
  <2>2. CASE UNCHANGED ladderVars
    BY <2>2 DEF ViewOK, ConfigOK, Nested, ladderVars
  <2>3. QED
    BY <2>1, <2>2
<1>2. QED
  BY InitViewOK, <1>1, PTL DEF LadderSpec

\* Whatever the fleet, its loads and the configuration (policy.go:370-377, 565-617): a
\* guarded split relieves a backend it was made to escape, a refusal by a backend that
\* holds nothing of the prefix does not move the guard, and absent holders refuse
\* nobody.
THEOREM GuardAlwaysHolders == LadderSpec => []GuardIsHolders
<1>1. ViewOK => GuardIsHolders
  BY SplitRelievesOK, OutsidersOK, AbsentHoldersOK DEF GuardIsHolders
<1>2. QED
  BY ViewAlways, <1>1, PTL

\* Whatever the fleet, its loads and the configuration (policy.go:769-828): a request
\* queued on a backend finds, once the slot it waits for is free, a backend that
\* holds all of its prefix that anybody holds.
THEOREM ForecastAlwaysKept == LadderSpec => []ForecastKept
BY ViewAlways, ForecastKeptOK, PTL
=============================================================================
