----------------------------- MODULE TreeProofs -----------------------------
(***************************************************************************)
(* What module AffinityTree promises, for every set of paths and slots,    *)
(* every TTL and every number of steps: the index is exact                 *)
(* (IndexAlwaysExact) and implements the table of prefixes                 *)
(* (ForestImplementsStore).                                                *)
(*                                                                         *)
(* Neither is inductive.  The forest's shape carries them: runs are pieces *)
(* of paths that do not overlap (Apart), nothing hangs in the air          *)
(* (Rooted), a run has no holder and no recent use that the runs above it  *)
(* lack (Fading), and every run has a holder (Held).  From the shape       *)
(* follow what a descent meets, which run covers a prefix, and that an     *)
(* eviction from the tails upwards takes whole branches.  Each operation   *)
(* is first described by a predicate that relates two forests (Halved,     *)
(* Touched, Hung, Extended, Cleared, Kept, Ticked), and what it does to    *)
(* the shape, to the table and to the totals is derived from that alone.   *)
(***************************************************************************)
EXTENDS AffinityTree, Sums, FiniteSetTheorems, SequenceTheorems, TLAPS

Ways == Seq(Hashes)

\* x is r, or what r begins with.
Leads(x, r) == Len(x) <= Len(r) /\ x = Upto(r, Len(x))

\* What a path begins with is a path, of the length asked for.
LEMMA UptoOK ==
  ASSUME NEW p \in Ways, NEW k \in 0..Len(p)
  PROVE  Upto(p, k) \in Ways /\ Len(Upto(p, k)) = k /\ Leads(Upto(p, k), p)
<1>1. \A i \in 1..k : p[i] \in Hashes
  BY DEF Ways
<1>2. k \in Nat /\ Len(p) \in Nat
  BY DEF Ways
<1>3. Upto(p, k) \in Ways /\ Len(Upto(p, k)) = k
  BY <1>1, <1>2, SubSeqProperties DEF Upto, Ways
<1>4. QED
  BY <1>2, <1>3 DEF Leads

\* and has the path's elements.
LEMMA UptoAt ==
  ASSUME NEW p \in Ways, NEW k \in 0..Len(p), NEW i \in 1..k
  PROVE  Upto(p, k)[i] = p[i]
<1>1. \A j \in 1..k : p[j] \in Hashes
  BY DEF Ways
<1>2. k \in Nat /\ Len(p) \in Nat
  BY DEF Ways
<1>3. QED
  BY <1>1, <1>2, SubSeqProperties DEF Upto, Ways

\* Leads says that the elements agree.
LEMMA LeadsMeans ==
  ASSUME NEW x \in Ways, NEW r \in Ways
  PROVE  Leads(x, r) <=> Len(x) <= Len(r) /\ \A i \in 1..Len(x) : x[i] = r[i]
<1>0. Len(x) \in Nat /\ Len(r) \in Nat
  BY DEF Ways
<1>1. ASSUME Len(x) <= Len(r) PROVE x = Upto(r, Len(x)) <=> \A i \in 1..Len(x) : x[i] = r[i]
  <2>1. Upto(r, Len(x)) \in Ways /\ Len(Upto(r, Len(x))) = Len(x)
    BY <1>0, <1>1, UptoOK
  <2>2. \A i \in 1..Len(x) : Upto(r, Len(x))[i] = r[i]
    BY <1>0, <1>1, UptoAt
  <2>3. QED
    BY <2>1, <2>2, SeqEqual DEF Ways
<1>2. QED
  BY <1>1 DEF Leads

\* Leads is an order by length, total on what leads the same path.
LEMMA LeadsOrder ==
  /\ \A x \in Ways : Leads(x, x) /\ Len(x) \in Nat
  /\ \A x, y, z \in Ways : Leads(x, y) /\ Leads(y, z) => Leads(x, z)
  /\ \A x, y \in Ways : Leads(x, y) => Len(x) <= Len(y) /\ (Len(x) = Len(y) => x = y)
  /\ \A x, y, z \in Ways : Leads(x, z) /\ Leads(y, z) /\ Len(x) <= Len(y) => Leads(x, y)
<1>0. \A x \in Ways : Len(x) \in Nat
  BY DEF Ways
<1>1. \A x \in Ways : Leads(x, x)
  BY <1>0, LeadsMeans
<1>2. ASSUME NEW x \in Ways, NEW y \in Ways, NEW z \in Ways, Leads(x, y), Leads(y, z) PROVE Leads(x, z)
  BY <1>0, <1>2, LeadsMeans
<1>3. ASSUME NEW x \in Ways, NEW y \in Ways, Leads(x, y) PROVE Len(x) <= Len(y) /\ (Len(x) = Len(y) => x = y)
  <2>1. Len(x) <= Len(y) /\ \A i \in 1..Len(x) : x[i] = y[i]
    BY <1>3, LeadsMeans
  <2>2. QED
    BY <2>1, SeqEqual DEF Ways
<1>4. ASSUME NEW x \in Ways, NEW y \in Ways, NEW z \in Ways, Leads(x, z), Leads(y, z), Len(x) <= Len(y) PROVE Leads(x, y)
  <2>1. \A i \in 1..Len(x) : x[i] = z[i]
    BY <1>4, LeadsMeans
  <2>2. \A i \in 1..Len(y) : y[i] = z[i]
    BY <1>4, LeadsMeans
  <2>3. QED
    BY <1>0, <1>4, <2>1, <2>2, LeadsMeans
<1>5. QED
  BY <1>0, <1>1, <1>2, <1>3, <1>4

\* IsAbove, and what a run or a run above it is.
LEMMA AboveIsLeads ==
  ASSUME NEW q \in Ways, NEW p \in Ways
  PROVE  /\ IsAbove(q, p) <=> Leads(q, p) /\ q # p
         /\ Leads(q, p) <=> q = p \/ IsAbove(q, p)
<1>1. Leads(p, p) /\ Len(p) \in Nat /\ Len(q) \in Nat
  BY LeadsOrder
<1>2. Leads(q, p) /\ q # p => Len(q) < Len(p)
  BY LeadsOrder, <1>1
<1>3. QED
  BY <1>1, <1>2 DEF IsAbove, Leads

\* Agree is the length of the longest common beginning (the loops at tree.go:340-343, 467-470).
LEMMA AgreeOK ==
  ASSUME NEW q \in Ways, NEW p \in Ways
  PROVE  /\ Agree(q, p) \in 0..Len(p) /\ Agree(q, p) <= Len(q)
         /\ \A x \in Ways : Leads(x, p) => (Leads(x, q) <=> Len(x) <= Agree(q, p))
<1> DEFINE m == Min({Len(q), Len(p)})
           K == {k \in 0..m : Upto(q, k) = Upto(p, k)}
<1>0. Len(q) \in Nat /\ Len(p) \in Nat
  BY LeadsOrder
<1>1. m \in Nat /\ m <= Len(q) /\ m <= Len(p) /\ (m = Len(q) \/ m = Len(p))
  <2>1. m = IF Len(q) <= Len(p) THEN Len(q) ELSE Len(p)
    BY <1>0 DEF Min
  <2>2. QED
    BY <1>0, <2>1
<1> HIDE DEF m
<1>2. 0 \in K
  <2>1. Len(Upto(q, 0)) = 0 /\ Upto(q, 0) \in Ways /\ Len(Upto(p, 0)) = 0 /\ Upto(p, 0) \in Ways
    BY <1>0, UptoOK
  <2>2. QED
    BY <1>1, <2>1 DEF Ways
<1>3. Max(K) \in K /\ \A k \in K : k <= Max(K)
  <2>1. K \subseteq Nat /\ K # {} /\ \A k \in K : k <= m
    BY <1>1, <1>2
  <2>2. QED
    BY <1>1, <2>1, BoundedMax
<1>4. Agree(q, p) = Max(K)
  BY DEF Agree, m
<1> DEFINE a == Max(K)
<1>5. a \in 0..m /\ Upto(q, a) = Upto(p, a) /\ \A k \in K : k <= a
  BY <1>3
<1> HIDE DEF a
<1>6. ASSUME NEW x \in Ways, Leads(x, p) PROVE Leads(x, q) <=> Len(x) <= a
  <2>1. ASSUME Leads(x, q) PROVE Len(x) <= a
    <3>1. Len(x) \in 0..m
      BY <1>0, <1>1, <1>6, <2>1, LeadsOrder
    <3>2. Upto(q, Len(x)) = Upto(p, Len(x))
      BY <1>6, <2>1 DEF Leads
    <3>3. QED
      BY <3>1, <3>2, <1>5
  <2>2. ASSUME Len(x) <= a PROVE Leads(x, q)
    <3>1. Upto(p, a) \in Ways /\ Len(Upto(p, a)) = a /\ Leads(Upto(p, a), p)
      BY <1>0, <1>1, <1>5, UptoOK
    <3>2. Leads(Upto(p, a), q)
      BY <1>0, <1>1, <1>5, UptoOK
    <3>3. Leads(x, Upto(p, a))
      BY <1>6, <2>2, <3>1, LeadsOrder
    <3>4. QED
      BY <3>1, <3>2, <3>3, LeadsOrder
  <2>3. QED
    BY <2>1, <2>2
<1>7. QED
  BY <1>0, <1>1, <1>4, <1>5, <1>6 DEF a

----------------------------------------------------------------------------
(* The shape of a forest. *)

RunRecord == [from : Nat, marks : SUBSET Slots, age : 0..Ttl + 1]

\* Every run is a piece of a path, at least a block long.
Pieces(f) ==
  /\ IsFiniteSet(DOMAIN f)
  /\ \A q \in DOMAIN f : /\ q \in Names /\ q \in Ways
                         /\ f[q] \in RunRecord /\ IsFiniteSet(f[q].marks)
                         /\ f[q].from >= 1 /\ f[q].from < Len(q)

\* No two runs cover the same prefix.
Apart(f) ==
  \A q, r \in DOMAIN f : \A x \in Ways :
    Leads(x, q) /\ Leads(x, r) /\ f[q].from < Len(x) /\ f[r].from < Len(x) => q = r

\* What a run begins with is covered by the runs on its way.
Rooted(f) ==
  \A r \in DOMAIN f : \A k \in 2..Len(r) :
    \E c \in DOMAIN f : Leads(c, r) /\ f[c].from < k /\ k <= Len(c)

\* Downwards, holders only leave and ages only grow.
Fading(f) ==
  \A q, r \in DOMAIN f : Leads(q, r) => f[r].marks \subseteq f[q].marks /\ f[q].age <= f[r].age

Shaped(f) == Pieces(f) /\ Apart(f) /\ Rooted(f) /\ Fading(f)

\* A request's path has its model's key and at least one block (affinity.go computes it so).
LEMMA PathOK ==
  ASSUME NEW p \in Paths
  PROVE  p \in Ways /\ Len(p) \in Nat /\ Len(p) >= 2
BY PathsAssumption DEF Ways

\* The names of runs are what requests' paths begin with, from the first block on.
LEMMA NameOK ==
  /\ \A q \in Names : q \in Ways /\ Len(q) >= 2
  /\ \A q \in Names : \E p \in Paths : Leads(q, p)
  /\ \A p \in Paths : \A q \in Ways : Leads(q, p) /\ Len(q) >= 2 => q \in Names
<1>1. ASSUME NEW q \in Names PROVE q \in Ways /\ Len(q) >= 2 /\ \E p \in Paths : Leads(q, p)
  <2>1. PICK p \in Paths : \E k \in 2..Len(p) : q = Upto(p, k)
    BY DEF Names, Upto
  <2>2. PICK k \in 2..Len(p) : q = Upto(p, k)
    BY <2>1
  <2>3. QED
    BY <2>2, PathOK, UptoOK
<1>2. ASSUME NEW p \in Paths, NEW q \in Ways, Leads(q, p), Len(q) >= 2 PROVE q \in Names
  <2>1. q = SubSeq(p, 1, Len(q)) /\ Len(q) \in 2..Len(p)
    BY <1>2, LeadsOrder, PathOK, SMTT(30) DEF Leads, Upto
  <2>2. q \in {SubSeq(p, 1, k) : k \in 2..Len(p)}
    BY <2>1
  <2>3. QED
    BY <2>2 DEF Names
<1>3. QED
  BY <1>1, <1>2

\* A run ends where those below it begin, or earlier.
LEMMA RunsApart ==
  ASSUME NEW f, Shaped(f), NEW q \in DOMAIN f, NEW r \in DOMAIN f, Leads(q, r), q # r
  PROVE  Len(q) <= f[r].from
<1>1. q \in Ways /\ r \in Ways /\ f[q].from \in Nat /\ f[r].from \in Nat /\ f[q].from < Len(q)
  BY DEF Shaped, Pieces, RunRecord
<1>2. SUFFICES ASSUME f[r].from < Len(q) PROVE FALSE
  BY <1>1, LeadsOrder
<1>3. QED
  BY <1>1, <1>2, LeadsOrder DEF Shaped, Apart

\* A run that does not start at its root starts at the end of another (run.parent).
LEMMA ParentThere ==
  ASSUME NEW f, Shaped(f), NEW r \in DOMAIN f, f[r].from > 1
  PROVE  /\ Parent(f, r) \in DOMAIN f /\ Leads(Parent(f, r), r)
         /\ Len(Parent(f, r)) = f[r].from /\ Parent(f, r) # r
<1> DEFINE k == f[r].from
<1>1. r \in Ways /\ k \in Nat /\ k >= 2 /\ k < Len(r) /\ Len(r) \in Nat
  BY LeadsOrder DEF Shaped, Pieces, RunRecord
<1>2. PICK c \in DOMAIN f : Leads(c, r) /\ f[c].from < k /\ k <= Len(c)
  BY <1>1 DEF Shaped, Rooted
<1>3. c # r
  BY <1>1, <1>2
<1>4. Len(c) <= k
  BY <1>2, <1>3, RunsApart
<1>5. c \in Ways
  BY DEF Shaped, Pieces
<1>6. Len(c) = k
  BY <1>1, <1>2, <1>4, <1>5, LeadsOrder
<1>7. c = Parent(f, r)
  BY <1>2, <1>6 DEF Leads, Parent
<1>8. QED
  BY <1>2, <1>3, <1>6, <1>7

\* The runs a descent visits: those that leave their parent along p.
LEMMA VisitedOK ==
  ASSUME NEW f, Pieces(f), NEW p \in Ways
  PROVE  Visited(f, p) = {q \in DOMAIN f : f[q].from < Agree(q, p)}
<1>1. ASSUME NEW q \in DOMAIN f
      PROVE  (f[q].from < Len(p) /\ Upto(q, f[q].from + 1) = Upto(p, f[q].from + 1))
               <=> f[q].from < Agree(q, p)
  <2> DEFINE k == f[q].from + 1
             a == Agree(q, p)
  <2>1. q \in Ways /\ k \in Nat /\ k >= 2 /\ k <= Len(q) /\ Len(q) \in Nat /\ Len(p) \in Nat /\ f[q].from \in Nat
    BY LeadsOrder DEF Pieces, RunRecord
  <2>2. a \in 0..Len(p) /\ a <= Len(q)
         /\ \A x \in Ways : Leads(x, p) => (Leads(x, q) <=> Len(x) <= a)
    BY <2>1, AgreeOK
  <2>3. ASSUME f[q].from < Len(p) PROVE Upto(q, k) = Upto(p, k) <=> f[q].from < a
    <3> DEFINE x == Upto(p, k)
    <3>1. x \in Ways /\ Len(x) = k /\ Leads(x, p)
      BY <2>1, <2>3, UptoOK
    <3>2. Upto(q, k) = x <=> Leads(x, q)
      BY <2>1, <3>1 DEF Leads
    <3>3. QED
      BY <2>1, <2>2, <3>1, <3>2
  <2>4. QED
    BY <2>1, <2>2, <2>3
<1>2. QED
  BY <1>1 DEF Visited

\* A descent ends in one run, and passes through all of the others.
LEMMA OneTorn ==
  ASSUME NEW f, Shaped(f), NEW p \in Ways, NEW q \in Visited(f, p), NEW w \in Visited(f, p),
         Agree(q, p) < Agree(w, p)
  PROVE  Agree(q, p) = Len(q) /\ Leads(q, p) /\ Leads(q, w) /\ Len(q) < Len(w)
<1> DEFINE a == Agree(q, p)
           d == Agree(w, p)
<1>1. /\ q \in DOMAIN f /\ w \in DOMAIN f /\ f[q].from < a /\ f[w].from < d
      /\ q \in Ways /\ w \in Ways /\ f[q].from \in Nat /\ f[q].from >= 1
      /\ Len(q) \in Nat /\ Len(w) \in Nat /\ Len(p) \in Nat
  BY VisitedOK, LeadsOrder DEF Shaped, Pieces, RunRecord
<1>2. /\ a \in 0..Len(p) /\ a <= Len(q)
      /\ \A x \in Ways : Leads(x, p) => (Leads(x, q) <=> Len(x) <= a)
  BY <1>1, AgreeOK
<1>3. /\ d \in 0..Len(p) /\ d <= Len(w)
      /\ \A x \in Ways : Leads(x, p) => (Leads(x, w) <=> Len(x) <= d)
  BY <1>1, AgreeOK
<1> HIDE DEF a, d
<1>4. a < d
  BY DEF a, d
<1>5. PICK c \in DOMAIN f : Leads(c, w) /\ f[c].from < a + 1 /\ a + 1 <= Len(c)
  <2>1. a + 1 \in 2..Len(w)
    BY <1>1, <1>2, <1>3, <1>4 DEF a
  <2>2. QED
    BY <1>1, <2>1 DEF Shaped, Rooted
<1>6. c \in Ways /\ f[c].from \in Nat
  BY DEF Shaped, Pieces, RunRecord
<1> DEFINE x == Upto(p, a)
           y == Upto(p, a + 1)
<1>7. x \in Ways /\ Len(x) = a /\ Leads(x, p)
  BY <1>1, <1>2, UptoOK
<1>8. y \in Ways /\ Len(y) = a + 1 /\ Leads(y, p)
  BY <1>1, <1>2, <1>3, <1>4, UptoOK
<1> HIDE DEF x, y
<1>9. Leads(y, w) /\ Leads(x, q) /\ Leads(x, w)
  BY <1>2, <1>3, <1>4, <1>7, <1>8
<1>10. Leads(y, c) /\ Leads(x, c)
  BY <1>1, <1>2, <1>5, <1>6, <1>7, <1>8, <1>9, LeadsOrder
<1>11. c # q
  BY <1>2, <1>8, <1>10
<1>12. f[c].from = a
  <2>1. ~(f[c].from < a)
    BY <1>1, <1>6, <1>7, <1>9, <1>10, <1>11 DEF Shaped, Apart
  <2>2. QED
    BY <1>2, <1>5, <1>6, <2>1
<1>13. x \in DOMAIN f
  <2>1. a > 1
    BY <1>1, <1>2
  <2>2. Parent(f, c) \in DOMAIN f /\ Leads(Parent(f, c), c) /\ Len(Parent(f, c)) = a
    BY <2>1, <1>12, ParentThere
  <2>3. Parent(f, c) \in Ways
    BY <2>2 DEF Shaped, Pieces
  <2>4. Parent(f, c) = x
    BY <2>2, <2>3, <1>6, <1>7, <1>10, LeadsOrder, <1>2
  <2>5. QED
    BY <2>2, <2>4
<1>14. x = q
  BY <1>1, <1>2, <1>7, <1>9, <1>13, RunsApart
<1>15. QED
  BY <1>2, <1>4, <1>3, <1>1, <1>7, <1>9, <1>14 DEF a

\* The depth found is one at which some visited run agrees with the path, and the largest.
LEMMA DepthOK ==
  ASSUME NEW f, Pieces(f), NEW p \in Paths
  PROVE  /\ Depth(f, p) \in 1..Len(p)
         /\ \A q \in Visited(f, p) : Agree(q, p) <= Depth(f, p)
         /\ Depth(f, p) > 1 => \E q \in Visited(f, p) : Agree(q, p) = Depth(f, p)
<1> DEFINE K == {1} \cup {Agree(q, p) : q \in Visited(f, p)}
<1>1. p \in Ways /\ Len(p) \in Nat /\ Len(p) >= 2
  BY PathOK
<1>2. \A q \in Visited(f, p) : Agree(q, p) \in 1..Len(p)
  <2>1. \A q \in Visited(f, p) : q \in Ways /\ f[q].from \in Nat /\ f[q].from < Agree(q, p)
    BY <1>1, VisitedOK DEF Pieces, RunRecord
  <2>2. QED
    BY <1>1, <2>1, AgreeOK
<1>3. Max(K) \in K /\ \A k \in K : k <= Max(K)
  <2>1. K \subseteq Nat /\ K # {} /\ \A k \in K : k <= Len(p)
    BY <1>1, <1>2
  <2>2. QED
    BY <1>1, <2>1, BoundedMax
<1>4. Depth(f, p) = Max(K)
  BY DEF Depth
<1> DEFINE d == Depth(f, p)
<1>5. d \in K /\ \A k \in K : k <= d
  BY <1>3, <1>4
<1> HIDE DEF d
<1>6. QED
  BY <1>1, <1>2, <1>5 DEF d

----------------------------------------------------------------------------
(* What a forest says of a prefix. *)

\* Cover in terms of what leads what.
LEMMA CoverIs ==
  ASSUME NEW f, Pieces(f), NEW x \in Ways
  PROVE  Cover(f, x) = {r \in DOMAIN f : f[r].from < Len(x) /\ Leads(x, r)}
<1>1. \A r \in DOMAIN f : r \in Ways
  BY DEF Pieces
<1>2. QED
  BY <1>1, AboveIsLeads DEF Cover

\* A prefix is covered by one run at most: HoldersOf and IdleOf are its marks and its age.
LEMMA CoverOne ==
  ASSUME NEW f, Shaped(f), NEW x \in Ways, NEW r \in Cover(f, x)
  PROVE  Cover(f, x) = {r}
<1>1. Cover(f, x) = {q \in DOMAIN f : f[q].from < Len(x) /\ Leads(x, q)}
  BY CoverIs DEF Shaped
<1>2. QED
  BY <1>1 DEF Shaped, Apart

\* A table of prefixes: the holders and the age of the run that covers one.
LEMMA CoverSays ==
  ASSUME NEW f, Shaped(f), NEW x \in Ways
  PROVE  /\ \A r \in Cover(f, x) : HoldersOf(f, x) = f[r].marks /\ IdleOf(f, x) = f[r].age
         /\ Cover(f, x) = {} => HoldersOf(f, x) = {} /\ IdleOf(f, x) = 0
<1>0. /\ Max({0}) \in {0}
      /\ \A n \in Nat : Max({0, n}) \in {0, n} /\ \A k \in {0, n} : k <= Max({0, n})
  BY BoundedMax
<1>1. ASSUME NEW r \in Cover(f, x) PROVE HoldersOf(f, x) = f[r].marks /\ IdleOf(f, x) = f[r].age
  <2>1. Cover(f, x) = {r}
    BY CoverOne
  <2>2. HoldersOf(f, x) = f[r].marks
    BY <2>1 DEF HoldersOf
  <2>3. r \in DOMAIN f
    BY DEF Cover
  <2>4. f[r].age \in Nat
    BY <2>3, TtlAssumption DEF Shaped, Pieces, RunRecord
  <2>5. {0} \cup {f[q].age : q \in {r}} = {0, f[r].age}
    OBVIOUS
  <2>6. Max({0, f[r].age}) = f[r].age
    BY <2>4, <1>0
  <2>7. QED
    BY <2>1, <2>2, <2>5, <2>6 DEF IdleOf
<1>2. ASSUME Cover(f, x) = {} PROVE HoldersOf(f, x) = {} /\ IdleOf(f, x) = 0
  <2>1. {0} \cup {f[q].age : q \in {}} = {0} /\ UNION {f[q].marks : q \in {}} = {}
    OBVIOUS
  <2>2. QED
    BY <1>0, <1>2, <2>1 DEF HoldersOf, IdleOf
<1>3. QED
  BY <1>1, <1>2

\* Which runs cover the prefixes of p: those visited, each as far as it agrees.
LEMMA CoverVisited ==
  ASSUME NEW f, Pieces(f), NEW p \in Ways, NEW k \in 1..Len(p)
  PROVE  Cover(f, Upto(p, k)) = {q \in Visited(f, p) : f[q].from < k /\ k <= Agree(q, p)}
<1> DEFINE x == Upto(p, k)
<1>0. Len(p) \in Nat
  BY LeadsOrder
<1>1. x \in Ways /\ Len(x) = k /\ Leads(x, p)
  BY <1>0, UptoOK
<1> HIDE DEF x
<1>2. Cover(f, x) = {q \in DOMAIN f : f[q].from < k /\ Leads(x, q)}
  BY <1>1, CoverIs
<1>3. ASSUME NEW q \in DOMAIN f
      PROVE  /\ Leads(x, q) <=> k <= Agree(q, p)
             /\ f[q].from \in Nat /\ Agree(q, p) \in Nat
  <2>1. q \in Ways /\ f[q].from \in Nat
    BY DEF Pieces, RunRecord
  <2>2. QED
    BY <1>1, <2>1, AgreeOK
<1>4. Visited(f, p) = {q \in DOMAIN f : f[q].from < Agree(q, p)}
  BY VisitedOK
<1>5. QED
  BY <1>2, <1>3, <1>4 DEF x

\* The depth found is how far the path's prefixes are covered.
LEMMA DepthCovers ==
  ASSUME NEW f, Shaped(f), NEW p \in Paths, NEW k \in 2..Len(p)
  PROVE  k <= Depth(f, p) <=> Cover(f, Upto(p, k)) # {}
<1>0. p \in Ways /\ Len(p) \in Nat /\ k \in 1..Len(p) /\ Pieces(f)
  BY PathOK DEF Shaped
<1>1. Cover(f, Upto(p, k)) = {q \in Visited(f, p) : f[q].from < k /\ k <= Agree(q, p)}
  BY <1>0, CoverVisited
<1>2. \A q \in Visited(f, p) : /\ q \in DOMAIN f /\ q \in Ways /\ f[q].from \in Nat
                               /\ Agree(q, p) \in Nat /\ f[q].from < Agree(q, p)
  BY <1>0, VisitedOK, AgreeOK DEF Pieces, RunRecord
<1>3. /\ Depth(f, p) \in 1..Len(p)
      /\ \A q \in Visited(f, p) : Agree(q, p) <= Depth(f, p)
      /\ Depth(f, p) > 1 => \E q \in Visited(f, p) : Agree(q, p) = Depth(f, p)
  BY <1>0, DepthOK
<1>4. ASSUME k <= Depth(f, p) PROVE Cover(f, Upto(p, k)) # {}
  <2>1. PICK w \in Visited(f, p) : Agree(w, p) = Depth(f, p)
    BY <1>3, <1>4
  <2>2. w \in Ways /\ Agree(w, p) <= Len(w) /\ Len(w) \in Nat
         /\ \A x \in Ways : Leads(x, p) => (Leads(x, w) <=> Len(x) <= Agree(w, p))
    BY <1>0, <1>2, AgreeOK, LeadsOrder
  <2>3. k \in 2..Len(w)
    BY <1>3, <1>4, <2>1, <2>2
  <2>4. PICK c \in DOMAIN f : Leads(c, w) /\ f[c].from < k /\ k <= Len(c)
    BY <1>2, <2>3 DEF Shaped, Rooted
  <2>5. c \in Ways
    BY <1>0 DEF Pieces
  <2>6. Upto(p, k) \in Ways /\ Len(Upto(p, k)) = k /\ Leads(Upto(p, k), p)
    BY <1>0, UptoOK
  <2>7. Leads(Upto(p, k), w)
    BY <1>4, <2>1, <2>2, <2>6
  <2>8. Leads(Upto(p, k), c)
    BY <2>2, <2>4, <2>5, <2>6, <2>7, LeadsOrder
  <2>9. QED
    BY <1>0, <2>4, <2>6, <2>8, CoverIs
<1>5. ASSUME Cover(f, Upto(p, k)) # {} PROVE k <= Depth(f, p)
  BY <1>1, <1>2, <1>3, <1>5
<1>6. QED
  BY <1>4, <1>5

----------------------------------------------------------------------------
(* Splitting a run. *)

\* A run below the cut of q is below q.
LEMMA BelowCut ==
  ASSUME NEW f, Shaped(f), NEW q \in DOMAIN f, NEW x \in Ways,
         Leads(x, q), f[q].from < Len(x), NEW b \in DOMAIN f, Leads(x, b)
  PROVE  Leads(q, b)
<1>1. /\ q \in Ways /\ b \in Ways /\ f[q].from \in Nat /\ f[q].from >= 1
      /\ Len(x) \in Nat /\ Len(b) \in Nat
  BY LeadsOrder DEF Shaped, Pieces, RunRecord
<1>2. Len(x) \in 2..Len(b)
  BY <1>1, LeadsOrder
<1>3. PICK c \in DOMAIN f : Leads(c, b) /\ f[c].from < Len(x) /\ Len(x) <= Len(c)
  BY <1>2 DEF Shaped, Rooted
<1>4. c \in Ways
  BY DEF Shaped, Pieces
<1>5. Leads(x, c)
  BY <1>1, <1>3, <1>4, LeadsOrder
<1>6. c = q
  BY <1>3, <1>5 DEF Shaped, Apart
<1>7. QED
  BY <1>3, <1>6

\* In g the run q of f is in two, the upper half being u.
Halved(f, q, m, u, g) ==
  /\ u \notin DOMAIN f /\ Leads(u, q) /\ Len(u) = m /\ u \in Ways /\ u # q
  /\ DOMAIN g = DOMAIN f \cup {u} /\ g[u] = f[q]
  /\ g[q] = [from |-> m, marks |-> f[q].marks, age |-> f[q].age]
  /\ \A r \in DOMAIN f : r # q => g[r] = f[r]

\* g shows of every prefix what f shows.
SameShown(f, g) ==
  \A x \in Ways : /\ Cover(g, x) = {} <=> Cover(f, x) = {}
                /\ HoldersOf(g, x) = HoldersOf(f, x) /\ IdleOf(g, x) = IdleOf(f, x)

\* splitRun keeps the shape and shows nothing (tree.go:494-519): every prefix has the
\* holders and the age it had.
LEMMA SplitOK ==
  ASSUME NEW f, Shaped(f), NEW q \in DOMAIN f, NEW m, m \in Nat, f[q].from < m, m < Len(q)
  PROVE  /\ Halved(f, q, m, Upto(q, m), Split(f, q, m))
         /\ Shaped(Split(f, q, m)) /\ SameShown(f, Split(f, q, m))
<1> DEFINE u == Upto(q, m)
           g == Split(f, q, m)
           Whole(a) == IF a = u THEN q ELSE a
<1>1. /\ q \in Ways /\ Len(q) \in Nat /\ f[q] \in RunRecord /\ f[q].from \in Nat /\ f[q].from >= 1
      /\ q \in Names
  BY LeadsOrder DEF Shaped, Pieces, RunRecord
<1>2. u \in Ways /\ Len(u) = m /\ Leads(u, q) /\ u # q
  BY <1>1, UptoOK
<1>3. u \notin DOMAIN f
  <2>1. SUFFICES ASSUME u \in DOMAIN f PROVE FALSE
    OBVIOUS
  <2>2. Len(u) <= f[q].from
    BY <1>2, <2>1, RunsApart
  <2>3. QED
    BY <1>1, <1>2, <2>2
<1>4. DOMAIN g = DOMAIN f \cup {u} /\ g[u] = f[q]
  BY DEF Split
<1>5. g[q] = [from |-> m, marks |-> f[q].marks, age |-> f[q].age]
  BY <1>1, <1>2 DEF Split, RunRecord
<1>6. \A r \in DOMAIN f : r # q => g[r] = f[r]
  BY <1>3 DEF Split
<1> HIDE DEF u, g
<1>7. \A a \in DOMAIN g : /\ Whole(a) \in DOMAIN f /\ Leads(a, Whole(a)) /\ a \in Ways /\ Whole(a) \in Ways
                          /\ f[Whole(a)].from \in Nat /\ f[Whole(a)].from <= g[a].from
                          /\ g[a].marks = f[Whole(a)].marks /\ g[a].age = f[Whole(a)].age
  <2>1. /\ \A a \in DOMAIN f : a \in Ways /\ f[a].from \in Nat /\ Leads(a, a)
        /\ f[q].from <= m /\ u # q
    BY <1>1, <1>2, LeadsOrder DEF Shaped, Pieces, RunRecord
  <2>2. SUFFICES ASSUME NEW a \in DOMAIN g
                 PROVE  /\ Whole(a) \in DOMAIN f /\ Leads(a, Whole(a)) /\ a \in Ways /\ Whole(a) \in Ways
                        /\ f[Whole(a)].from \in Nat /\ f[Whole(a)].from <= g[a].from
                        /\ g[a].marks = f[Whole(a)].marks /\ g[a].age = f[Whole(a)].age
    OBVIOUS
  <2>3. CASE a = u
    BY <2>1, <2>3, <1>2, <1>4
  <2>4. CASE a = q
    BY <2>1, <2>4, <1>2, <1>5
  <2>5. CASE a # u /\ a # q
    BY <2>1, <2>5, <1>4, <1>6
  <2>6. QED
    BY <2>3, <2>4, <2>5
<1>8. Pieces(g)
  <2>1. IsFiniteSet(DOMAIN g)
    BY <1>4, FS_AddElement DEF Shaped, Pieces
  <2>2. u \in Names
    <3>1. PICK p \in Paths : Leads(q, p)
      BY <1>1, NameOK
    <3>2. p \in Ways
      BY PathOK
    <3>3. Leads(u, p)
      BY <1>1, <1>2, <3>1, <3>2, LeadsOrder
    <3>4. QED
      BY <1>1, <1>2, <3>3, NameOK
  <2>3. ASSUME NEW a \in DOMAIN g
        PROVE  /\ a \in Names /\ a \in Ways
               /\ g[a] \in RunRecord /\ IsFiniteSet(g[a].marks)
               /\ g[a].from >= 1 /\ g[a].from < Len(a)
    <3>1. CASE a = u
      BY <3>1, <1>1, <1>2, <1>4, <2>2 DEF Shaped, Pieces
    <3>2. CASE a = q
      BY <3>2, <1>1, <1>5 DEF Shaped, Pieces, RunRecord
    <3>3. CASE a # u /\ a # q
      BY <3>3, <1>4, <1>6 DEF Shaped, Pieces
    <3>4. QED
      BY <3>1, <3>2, <3>3
  <2>4. QED
    BY <2>1, <2>3 DEF Pieces
<1>9. Apart(g)
  <2>1. SUFFICES ASSUME NEW a \in DOMAIN g, NEW b \in DOMAIN g, NEW x \in Ways,
                        Leads(x, a), Leads(x, b), g[a].from < Len(x), g[b].from < Len(x)
                 PROVE  a = b
    BY DEF Apart
  <2>2. Len(x) \in Nat /\ g[a].from \in Nat /\ g[b].from \in Nat
    BY <1>8, LeadsOrder DEF Pieces, RunRecord
  <2>3. Leads(x, Whole(a)) /\ Leads(x, Whole(b))
    BY <1>7, <2>1, LeadsOrder
  <2>4. f[Whole(a)].from < Len(x) /\ f[Whole(b)].from < Len(x)
    BY <1>7, <2>1, <2>2
  <2>5. Whole(a) = Whole(b)
    BY <1>7, <2>3, <2>4 DEF Shaped, Apart
  <2>6. ASSUME Leads(x, u) PROVE ~(g[q].from < Len(x))
    BY <1>2, <1>5, <2>2, <2>6, LeadsOrder
  <2>7. QED
    BY <2>1, <2>5, <2>6
<1>10. Rooted(g)
  <2>1. SUFFICES ASSUME NEW r \in DOMAIN g, NEW k \in 2..Len(r)
                 PROVE  \E c \in DOMAIN g : Leads(c, r) /\ g[c].from < k /\ k <= Len(c)
    BY DEF Rooted
  <2>2. r \in Ways /\ Len(r) \in Nat /\ Len(r) <= Len(Whole(r)) /\ Len(Whole(r)) \in Nat /\ Leads(r, Whole(r))
    BY <1>7, LeadsOrder
  <2>3. PICK c \in DOMAIN f : Leads(c, Whole(r)) /\ f[c].from < k /\ k <= Len(c)
    BY <1>7, <2>2, SMTT(30) DEF Shaped, Rooted
  <2>4. c \in Ways /\ Len(c) \in Nat /\ f[c].from \in Nat
    BY LeadsOrder DEF Shaped, Pieces, RunRecord
  <2>5. CASE c = q /\ k <= m
    <3>1. Leads(u, r)
      BY <1>1, <1>2, <2>2, <2>3, <2>5, LeadsOrder
    <3>2. QED
      BY <1>2, <1>4, <2>3, <2>5, <3>1
  <2>6. CASE c = q /\ k > m
    <3>1. r # u
      BY <1>2, <2>6
    <3>2. QED
      BY <1>4, <1>5, <2>3, <2>6, <3>1
  <2>7. CASE c # q
    <3>1. Leads(c, r)
      <4>1. CASE r # u
        BY <4>1, <2>3
      <4>2. CASE r = u
        <5>1. Len(c) <= f[q].from
          BY <2>3, <2>7, <4>2, RunsApart
        <5>2. QED
          BY <1>1, <1>2, <2>3, <2>4, <4>2, <5>1, LeadsOrder
      <4>3. QED
        BY <4>1, <4>2
    <3>2. QED
      BY <1>4, <1>6, <2>3, <2>7, <3>1
  <2>8. QED
    BY <2>4, <2>5, <2>6, <2>7
<1>11. Fading(g)
  <2>1. SUFFICES ASSUME NEW a \in DOMAIN g, NEW b \in DOMAIN g, Leads(a, b)
                 PROVE  Leads(Whole(a), Whole(b))
    BY <1>7 DEF Shaped, Fading
  <2>2. Leads(a, Whole(b))
    BY <1>7, <2>1, LeadsOrder
  <2>3. CASE a # u
    BY <2>2, <2>3
  <2>4. CASE a = u
    BY <1>1, <1>2, <1>7, <2>2, <2>4, BelowCut
  <2>5. QED
    BY <2>3, <2>4
<1>12. Shaped(g)
  BY <1>8, <1>9, <1>10, <1>11 DEF Shaped
<1>13. ASSUME NEW x \in Ways
       PROVE  /\ Cover(g, x) = {} <=> Cover(f, x) = {}
              /\ HoldersOf(g, x) = HoldersOf(f, x) /\ IdleOf(g, x) = IdleOf(f, x)
  <2>0. Len(x) \in Nat
    BY LeadsOrder
  <2>1. Cover(f, x) = {r \in DOMAIN f : f[r].from < Len(x) /\ Leads(x, r)}
    BY CoverIs DEF Shaped
  <2>2. Cover(g, x) = {r \in DOMAIN g : g[r].from < Len(x) /\ Leads(x, r)}
    BY <1>8, CoverIs
  <2>3. ASSUME NEW r \in Cover(g, x) PROVE Whole(r) \in Cover(f, x)
    <3>1. r \in DOMAIN g /\ g[r].from < Len(x) /\ Leads(x, r) /\ g[r].from \in Nat
      BY <1>8, <2>2 DEF Pieces, RunRecord
    <3>2. f[Whole(r)].from < Len(x) /\ Leads(x, Whole(r))
      BY <1>7, <2>0, <3>1, LeadsOrder
    <3>3. QED
      BY <1>7, <2>1, <3>1, <3>2
  <2>4. ASSUME NEW r \in Cover(f, x) PROVE Cover(g, x) # {}
    <3>1. CASE r # q
      BY <3>1, <1>4, <1>6, <2>1, <2>2
    <3>2. CASE r = q /\ Len(x) <= m
      BY <3>2, <1>1, <1>2, <1>4, <2>1, <2>2, LeadsOrder
    <3>3. CASE r = q /\ Len(x) > m
      BY <3>3, <1>4, <1>5, <2>1, <2>2
    <3>4. QED
      BY <2>0, <3>1, <3>2, <3>3
  <2>5. CASE Cover(g, x) = {}
    BY <2>4, <2>5, <1>12, CoverSays
  <2>6. CASE Cover(g, x) # {}
    <3>1. PICK r \in Cover(g, x) : TRUE
      BY <2>6
    <3>2. r \in DOMAIN g
      BY <2>2
    <3>3. QED
      BY <3>1, <3>2, <2>3, <1>7, <1>12, CoverSays
  <2>7. QED
    BY <2>5, <2>6
<1>14. QED
  BY <1>2, <1>3, <1>4, <1>5, <1>6, <1>12, <1>13 DEF u, g, Halved, SameShown

\* A run agrees with p to its end if p goes through it.
LEMMA AgreeAll ==
  ASSUME NEW q \in Ways, NEW p \in Ways
  PROVE  Agree(q, p) = Len(q) <=> Leads(q, p)
<1>1. /\ Agree(q, p) \in 0..Len(p) /\ Agree(q, p) <= Len(q)
      /\ \A x \in Ways : Leads(x, p) => (Leads(x, q) <=> Len(x) <= Agree(q, p))
  BY AgreeOK
<1>2. Leads(q, q) /\ Len(q) \in Nat /\ Len(p) \in Nat
  BY LeadsOrder
<1>3. ASSUME Agree(q, p) = Len(q) PROVE Leads(q, p)
  <2> DEFINE x == Upto(p, Len(q))
  <2>1. x \in Ways /\ Len(x) = Len(q) /\ Leads(x, p)
    BY <1>1, <1>2, <1>3, UptoOK
  <2>2. Leads(x, q)
    BY <1>1, <1>2, <1>3, <2>1
  <2>3. QED
    BY <2>1, <2>2, LeadsOrder
<1>4. QED
  BY <1>1, <1>2, <1>3

\* After the split no visited run is left in the middle (tree.go:467-473).
LEMMA CutOK ==
  ASSUME NEW f, Shaped(f), NEW p \in Paths
  PROVE  LET g == Cut(f, p) IN
         /\ g = f \/ \E q \in DOMAIN f, m \in Nat :
                       f[q].from < m /\ m < Len(q) /\ g = Split(f, q, m)
         /\ \A q \in Visited(g, p) : Leads(q, p)
<1> DEFINE torn == {q \in Visited(f, p) : Agree(q, p) < Len(q)}
           d == Depth(f, p)
<1>1. p \in Ways /\ Len(p) \in Nat /\ Pieces(f)
  BY PathOK DEF Shaped
<1>2. \A q \in DOMAIN f : /\ q \in Ways /\ Len(q) \in Nat /\ f[q].from \in Nat /\ f[q].from >= 1
                          /\ Agree(q, p) \in Nat /\ Agree(q, p) <= Len(q)
  BY <1>1, AgreeOK, LeadsOrder DEF Pieces, RunRecord
<1>3. \A q : q \in Visited(f, p) <=> q \in DOMAIN f /\ f[q].from < Agree(q, p)
  BY <1>1, VisitedOK
<1>4. CASE torn = {}
  <2>1. Cut(f, p) = f
    BY <1>4 DEF Cut
  <2>2. ASSUME NEW q \in Visited(f, p) PROVE Leads(q, p)
    BY <1>1, <1>2, <1>3, <1>4, AgreeAll
  <2>3. QED
    BY <2>1, <2>2
<1>5. CASE torn # {}
  <2> DEFINE t == CHOOSE q \in torn : TRUE
  <2>1. t \in torn /\ Cut(f, p) = Split(f, t, d)
    BY <1>5 DEF Cut
  <2> HIDE DEF t
  <2>2. t \in DOMAIN f /\ f[t].from < Agree(t, p) /\ Agree(t, p) < Len(t) /\ t \in Ways
    BY <1>2, <1>3, <2>1
  <2>3. /\ d \in 1..Len(p) /\ \A q \in Visited(f, p) : Agree(q, p) <= d
        /\ d > 1 => \E q \in Visited(f, p) : Agree(q, p) = d
    BY <1>1, DepthOK
  <2> HIDE DEF d
  <2>4. ASSUME NEW q \in torn PROVE Agree(q, p) = d
    <3>1. d > 1
      BY <1>2, <1>3, <2>3
    <3>2. PICK w \in Visited(f, p) : Agree(w, p) = d
      BY <2>3, <3>1
    <3>3. ~(Agree(q, p) < Agree(w, p))
      BY <1>1, <1>2, <1>3, OneTorn
    <3>4. QED
      BY <1>2, <1>3, <2>3, <3>2, <3>3
  <2>5. Agree(t, p) = d /\ d \in Nat
    BY <2>1, <2>3, <2>4
  <2> DEFINE g == Split(f, t, d)
             u == Upto(t, d)
             z == Upto(p, d)
  <2>6. /\ DOMAIN g = DOMAIN f \cup {u} /\ g[t].from = d
        /\ \A r \in DOMAIN f : r # t => g[r] = f[r]
        /\ u \in Ways /\ Leads(u, t) /\ Len(u) = d /\ Shaped(g)
    <3>1. t \in DOMAIN f /\ d \in Nat /\ f[t].from < d /\ d < Len(t)
      BY <2>2, <2>5
    <3>2. Halved(f, t, d, u, g) /\ Shaped(g)
      BY <3>1, SplitOK
    <3> HIDE DEF u, g
    <3>3. QED
      BY <3>2 DEF Halved
  <2>7. z \in Ways /\ Len(z) = d /\ Leads(z, p)
    BY <1>1, <2>3, UptoOK
  <2> HIDE DEF g, u, z
  <2>8. \A q \in Ways : Leads(z, q) <=> d <= Agree(q, p)
    BY <1>1, <2>7, AgreeOK
  <2>9. u = z
    BY <2>2, <2>5, <2>6, <2>7, <2>8, LeadsOrder
  <2>10. ASSUME NEW q \in Visited(g, p) PROVE Leads(q, p)
    <3>1. q \in DOMAIN g /\ g[q].from < Agree(q, p)
      BY <1>1, <2>6, VisitedOK DEF Shaped
    <3>2. CASE q = u
      BY <3>2, <2>7, <2>9
    <3>3. q # t
      BY <2>5, <2>6, <3>1
    <3>4. CASE q # u
      <4>1. q \in DOMAIN f /\ f[q].from < Agree(q, p) /\ q \in Ways
        BY <1>2, <2>6, <3>1, <3>3, <3>4
      <4>2. q \in Visited(f, p)
        BY <1>3, <4>1
      <4>3. q \notin torn
        <5>1. SUFFICES ASSUME q \in torn PROVE FALSE
          OBVIOUS
        <5>2. Agree(q, p) = d
          BY <2>4, <5>1
        <5>3. Leads(z, q) /\ Leads(z, t)
          BY <2>2, <2>5, <2>8, <4>1, <5>2
        <5>4. QED
          BY <2>2, <2>5, <2>7, <3>3, <4>1, <5>2, <5>3 DEF Shaped, Apart
      <4>4. QED
        BY <1>1, <1>2, <4>1, <4>2, <4>3, AgreeAll
    <3>5. QED
      BY <3>2, <3>4
  <2>11. QED
    BY <2>1, <2>2, <2>5, <2>10 DEF g
<1>6. QED
  BY <1>4, <1>5

\* Splitting a run does not show.
LEMMA CutSame ==
  ASSUME NEW f, Shaped(f), NEW p \in Paths
  PROVE  LET g == Cut(f, p) IN
         /\ Shaped(g) /\ DOMAIN f \subseteq DOMAIN g /\ Depth(g, p) = Depth(f, p)
         /\ SameShown(f, g)
<1> DEFINE g == Cut(f, p)
<1>1. Shaped(g) /\ DOMAIN f \subseteq DOMAIN g /\ SameShown(f, g)
  <2>1. CASE g = f
    BY <2>1 DEF SameShown
  <2>2. CASE g # f
    <3>1. PICK q \in DOMAIN f, m \in Nat : f[q].from < m /\ m < Len(q) /\ g = Split(f, q, m)
      BY <2>2, CutOK
    <3>2. Halved(f, q, m, Upto(q, m), g) /\ Shaped(g) /\ SameShown(f, g)
      BY <3>1, SplitOK
    <3>3. QED
      BY <3>2 DEF Halved
  <2>3. QED
    BY <2>1, <2>2
<1> HIDE DEF g
<1>2. p \in Ways /\ Len(p) \in Nat
  BY PathOK
<1>3. Depth(f, p) \in 1..Len(p) /\ Depth(g, p) \in 1..Len(p)
  BY <1>1, DepthOK DEF Shaped
<1>4. ASSUME NEW k \in 2..Len(p) PROVE k <= Depth(f, p) <=> k <= Depth(g, p)
  <2>1. Upto(p, k) \in Ways
    BY <1>2, UptoOK
  <2>2. QED
    BY <1>1, <2>1, DepthCovers DEF SameShown
<1>5. Depth(g, p) = Depth(f, p)
  BY <1>2, <1>3, <1>4
<1>6. QED
  BY <1>1, <1>5 DEF g

----------------------------------------------------------------------------
(* Marking the runs along a path. *)

\* h is g once the runs along p are marked s.
Touched(g, h, p, s) ==
  /\ DOMAIN h = DOMAIN g
  /\ \A q \in DOMAIN g : h[q].from = g[q].from
  /\ \A q \in Visited(g, p) : h[q].marks = g[q].marks \cup {s} /\ h[q].age = 0
  /\ \A q \in DOMAIN g \ Visited(g, p) : h[q] = g[q]

\* p ends where a run does, as far as it is found.
Whole(g, p) == \A q \in Visited(g, p) : Leads(q, p)

\* A run on the way is visited.
LEMMA OnTheWay ==
  ASSUME NEW g, Pieces(g), NEW p \in Ways, NEW q \in DOMAIN g, Leads(q, p)
  PROVE  q \in Visited(g, p) /\ Agree(q, p) = Len(q)
<1>1. q \in Ways /\ g[q].from < Len(q)
  BY DEF Pieces
<1>2. Agree(q, p) = Len(q)
  BY <1>1, AgreeAll
<1>3. QED
  BY <1>1, <1>2, VisitedOK

\* Marking the visited runs keeps the shape (tree.go:481-486): they are all the runs from
\* the root to the tip, so that no holder or recent use appears below a run without it.
LEMMA MarkedOK ==
  ASSUME NEW g, Shaped(g), NEW p \in Paths, NEW s \in Slots, Whole(g, p)
  PROVE  LET h == Marked(g, p, s) IN
         /\ Touched(g, h, p, s) /\ Shaped(h)
         /\ Visited(h, p) = Visited(g, p) /\ Depth(h, p) = Depth(g, p) /\ Whole(h, p)
         /\ \A x \in Ways : Cover(h, x) = Cover(g, x)
<1> DEFINE h == Marked(g, p, s)
<1>0. p \in Ways /\ Pieces(g)
  BY PathOK DEF Shaped
<1>1. \A q \in DOMAIN g : /\ q \in Ways /\ g[q] \in RunRecord /\ IsFiniteSet(g[q].marks)
                          /\ g[q].age \in Nat /\ g[q].from \in Nat /\ g[q].from < Len(q)
  BY <1>0, TtlAssumption DEF Pieces, RunRecord
<1>2. DOMAIN h = DOMAIN g
  BY DEF Marked
<1>3. \A q \in Visited(g, p) : q \in DOMAIN g
  BY DEF Visited
<1>4. ASSUME NEW q \in Visited(g, p)
      PROVE  /\ h[q].from = g[q].from /\ h[q].marks = g[q].marks \cup {s} /\ h[q].age = 0
             /\ h[q] \in RunRecord
  <2>1. h[q] = [g[q] EXCEPT !.marks = g[q].marks \cup {s}, !.age = 0]
    BY <1>3 DEF Marked
  <2>2. g[q] \in RunRecord
    BY <1>1, <1>3
  <2>3. 0 \in 0..Ttl + 1
    BY TtlAssumption
  <2>4. QED
    BY <2>1, <2>2, <2>3 DEF RunRecord
<1>5. \A q \in DOMAIN g \ Visited(g, p) : h[q] = g[q]
  BY DEF Marked
<1> HIDE DEF h
<1>6. \A q \in DOMAIN g : h[q].from = g[q].from
  BY <1>4, <1>5
<1>7. Touched(g, h, p, s)
  BY <1>2, <1>4, <1>5, <1>6 DEF Touched
<1>8. Pieces(h)
  <2>1. ASSUME NEW q \in DOMAIN g PROVE h[q] \in RunRecord /\ IsFiniteSet(h[q].marks)
    <3>1. CASE q \in Visited(g, p)
      <4>1. IsFiniteSet(g[q].marks \cup {s})
        BY <1>1, FS_AddElement
      <4>2. QED
        BY <3>1, <4>1, <1>4
    <3>2. CASE q \notin Visited(g, p)
      BY <3>2, <1>1, <1>5
    <3>3. QED
      BY <3>1, <3>2
  <2>2. QED
    BY <1>0, <1>2, <1>6, <2>1 DEF Pieces
<1>9. Apart(h)
  BY <1>2, <1>6 DEF Shaped, Apart
<1>10. Rooted(h)
  BY <1>2, <1>6 DEF Shaped, Rooted
<1>11. Fading(h)
  <2>1. SUFFICES ASSUME NEW a \in DOMAIN g, NEW b \in DOMAIN g, Leads(a, b)
                 PROVE  h[b].marks \subseteq h[a].marks /\ h[a].age <= h[b].age
    BY <1>2 DEF Fading
  <2>2. g[b].marks \subseteq g[a].marks /\ g[a].age <= g[b].age
    BY <2>1 DEF Shaped, Fading
  <2>3. CASE b \in Visited(g, p)
    <3>1. Leads(a, p)
      BY <1>0, <1>1, <2>1, <2>3, LeadsOrder DEF Whole
    <3>2. a \in Visited(g, p)
      BY <1>0, <3>1, OnTheWay
    <3>3. QED
      BY <1>4, <2>2, <2>3, <3>2
  <2>4. CASE b \notin Visited(g, p) /\ a \in Visited(g, p)
    BY <1>1, <1>4, <1>5, <2>2, <2>4
  <2>5. CASE b \notin Visited(g, p) /\ a \notin Visited(g, p)
    BY <1>5, <2>2, <2>5
  <2>6. QED
    BY <2>3, <2>4, <2>5
<1>12. Shaped(h)
  BY <1>8, <1>9, <1>10, <1>11 DEF Shaped
<1>13. Visited(h, p) = Visited(g, p)
  BY <1>2, <1>6 DEF Visited
<1>14. Depth(h, p) = Depth(g, p)
  BY <1>13 DEF Depth
<1>15. \A x \in Ways : Cover(h, x) = Cover(g, x)
  BY <1>2, <1>6 DEF Cover
<1>16. QED
  BY <1>7, <1>12, <1>13, <1>14, <1>15 DEF h, Whole

----------------------------------------------------------------------------
(* Growing the forest along a path. *)

\* The rest of p is a run of its own below tip.
Hung(h, g, p, s, d) ==
  /\ DOMAIN g = DOMAIN h \cup {p} /\ g[p] = [from |-> d, marks |-> {s}, age |-> 0]
  /\ \A q \in DOMAIN h : g[q] = h[q]

\* It is the end of tip, which goes by p from now on.
Extended(h, g, p, s, tip) ==
  /\ tip \in DOMAIN h /\ Below(h, tip) = {} /\ h[tip].marks = {s}
  /\ DOMAIN g = (DOMAIN h \ {tip}) \cup {p} /\ g[p] = h[tip]
  /\ \A q \in DOMAIN h \ {tip} : g[q] = h[q]

\* Where the forest ends along p.
LEMMA TipOK ==
  ASSUME NEW h, Shaped(h), NEW p \in Paths, Whole(h, p)
  PROVE  LET d == Depth(h, p)
             tip == Upto(p, d)
         IN  /\ d \in 1..Len(p) /\ d \in Nat /\ tip \in Ways /\ Len(tip) = d /\ Leads(tip, p)
             /\ tip \in DOMAIN h <=> d > 1
             /\ p \in DOMAIN h <=> d = Len(p)
             /\ tip = p <=> d = Len(p)
             /\ \A q \in DOMAIN h : Leads(q, p) => Leads(q, tip)
             /\ \A q \in DOMAIN h : ~(Leads(p, q) /\ p # q /\ d < Len(p))
<1> DEFINE d == Depth(h, p)
           tip == Upto(p, d)
<1>1. p \in Ways /\ Len(p) \in Nat /\ Len(p) >= 2 /\ Pieces(h)
  BY PathOK DEF Shaped
<1>2. /\ d \in 1..Len(p) /\ \A q \in Visited(h, p) : Agree(q, p) <= d
      /\ d > 1 => \E q \in Visited(h, p) : Agree(q, p) = d
  BY <1>1, DepthOK
<1> HIDE DEF d
<1>3. tip \in Ways /\ Len(tip) = d /\ Leads(tip, p)
  BY <1>1, <1>2, UptoOK
<1> HIDE DEF tip
<1>4. \A q \in DOMAIN h : q \in Ways /\ Len(q) >= 2 /\ Len(q) \in Nat
  BY <1>1, LeadsOrder, NameOK DEF Pieces
<1>5. \A q \in Visited(h, p) : q \in DOMAIN h /\ Leads(q, p)
  BY DEF Visited, Whole
<1>6. ASSUME NEW q \in DOMAIN h, Leads(q, p) PROVE Leads(q, tip) /\ Len(q) <= d
  <2>1. q \in Visited(h, p) /\ Agree(q, p) = Len(q)
    BY <1>1, <1>6, OnTheWay
  <2>2. QED
    BY <1>1, <1>2, <1>3, <1>4, <1>6, <2>1, LeadsOrder
<1>7. ASSUME d > 1 PROVE tip \in DOMAIN h
  <2>1. PICK q \in Visited(h, p) : Agree(q, p) = d
    BY <1>2, <1>7
  <2>2. q \in DOMAIN h /\ Leads(q, p) /\ Agree(q, p) = Len(q)
    BY <1>1, <1>5, OnTheWay
  <2>3. q = tip
    BY <1>1, <1>3, <1>4, <2>1, <2>2, LeadsOrder
  <2>4. QED
    BY <2>2, <2>3
<1>8. tip = p <=> d = Len(p)
  BY <1>1, <1>3, LeadsOrder
<1>9. ASSUME NEW q \in DOMAIN h, Leads(p, q), p # q, d < Len(p) PROVE FALSE
  <2>1. q \in Ways /\ Len(p) \in 2..Len(q)
    BY <1>1, <1>4, <1>9, LeadsOrder
  <2>2. PICK c \in DOMAIN h : Leads(c, q) /\ h[c].from < Len(p) /\ Len(p) <= Len(c)
    BY <2>1 DEF Shaped, Rooted
  <2>3. Leads(p, c)
    BY <1>1, <1>4, <1>9, <2>1, <2>2, LeadsOrder
  <2>4. c \in Cover(h, p)
    BY <1>1, <2>2, <2>3, CoverIs
  <2>5. Upto(p, Len(p)) = p
    BY <1>1, LeadsOrder DEF Leads
  <2>6. Len(p) <= Depth(h, p)
    BY <1>1, <2>4, <2>5, DepthCovers
  <2>7. QED
    BY <1>1, <1>2, <1>9, <2>6 DEF d
<1>10. p \in DOMAIN h <=> d = Len(p)
  <2>1. Leads(p, p)
    BY <1>1, LeadsOrder
  <2>2. QED
    BY <1>1, <1>2, <1>6, <1>7, <1>8, <2>1
<1>11. QED
  BY <1>1, <1>2, <1>3, <1>4, <1>6, <1>7, <1>8, <1>9, <1>10 DEF d, tip

\* The growth hangs a new run below the tip or renames the tip (tree.go:435-465), or there
\* is nothing to grow.
LEMMA GrownOK ==
  ASSUME NEW h, NEW p \in Paths, NEW s, Shaped(h), Whole(h, p)
  PROVE  LET d == Depth(h, p)
             tip == Upto(p, d)
             g == Grown(h, p, s)
         IN  /\ d = Len(p) => g = h
             /\ d < Len(p) => Hung(h, g, p, s, d) \/ Extended(h, g, p, s, tip)
<1> DEFINE d == Depth(h, p)
           tip == Upto(p, d)
           g == Grown(h, p, s)
<1>1. /\ d \in 1..Len(p) /\ d \in Nat /\ Len(tip) = d
      /\ p \in DOMAIN h <=> d = Len(p)
      /\ tip = p <=> d = Len(p)
  BY TipOK
<1>2. ASSUME d < Len(p), PrivateTail(h, tip, s) PROVE Extended(h, g, p, s, tip)
  <2>1. g = [q \in (DOMAIN h \ {tip}) \cup {p} |-> IF q = p THEN h[tip] ELSE h[q]]
    BY <1>1, <1>2 DEF Grown
  <2>2. p \notin DOMAIN h
    BY <1>1, <1>2
  <2> HIDE DEF g, tip
  <2>3. QED
    BY <1>2, <2>1, <2>2 DEF Extended, PrivateTail
<1>3. ASSUME d < Len(p), ~PrivateTail(h, tip, s) PROVE Hung(h, g, p, s, d)
  <2>1. g = [q \in DOMAIN h \cup {p} |->
               IF q = p THEN [from |-> Len(tip), marks |-> {s}, age |-> 0] ELSE h[q]]
    BY <1>1, <1>3 DEF Grown
  <2>2. p \notin DOMAIN h
    BY <1>1, <1>3
  <2> HIDE DEF g, tip
  <2>3. QED
    BY <1>1, <1>3, <2>1, <2>2 DEF Hung
<1>4. ASSUME d = Len(p) PROVE g = h
  BY <1>1, <1>4 DEF Grown
<1>5. QED
  BY <1>1, <1>2, <1>3, <1>4

\* What is added covers what was not found, and what its tip covered.
LEMMA GrownShaped ==
  ASSUME NEW h, NEW p \in Paths, NEW s \in Slots, Shaped(h), Whole(h, p),
         \A q \in Visited(h, p) : s \in h[q].marks /\ h[q].age = 0,
         NEW d, d = Depth(h, p), d < Len(p), NEW tip, tip = Upto(p, d),
         NEW g, Hung(h, g, p, s, d) \/ Extended(h, g, p, s, tip)
  PROVE  /\ Shaped(g)
         /\ \A x \in Ways : Len(x) >= 2 =>
              /\ Leads(x, p) => /\ HoldersOf(g, x) = HoldersOf(h, x) \cup {s}
                               /\ IdleOf(g, x) = 0
              /\ ~Leads(x, p) => HoldersOf(g, x) = HoldersOf(h, x) /\ IdleOf(g, x) = IdleOf(h, x)
<1>1. p \in Ways /\ Len(p) \in Nat /\ Len(p) >= 2 /\ Pieces(h) /\ Leads(p, p) /\ p \in Names
  BY PathOK, LeadsOrder, NameOK DEF Shaped
<1>2. /\ d \in 1..Len(p) /\ d \in Nat /\ tip \in Ways /\ Len(tip) = d /\ Leads(tip, p)
      /\ tip \in DOMAIN h <=> d > 1
      /\ p \notin DOMAIN h /\ tip # p
      /\ \A q \in DOMAIN h : Leads(q, p) => Leads(q, tip)
      /\ \A q \in DOMAIN h : ~Leads(p, q)
  BY TipOK
<1>3. \A q \in DOMAIN h : /\ q \in Names /\ q \in Ways /\ Len(q) \in Nat
                          /\ h[q] \in RunRecord /\ IsFiniteSet(h[q].marks)
                          /\ h[q].from \in Nat /\ h[q].from >= 1 /\ h[q].from < Len(q) /\ h[q].age \in Nat
  BY <1>1, LeadsOrder, TtlAssumption DEF Pieces, RunRecord
\* The run p starts at d, or where its tip did.
<1>4. /\ g[p].from \in Nat /\ g[p].from >= 1 /\ g[p].from <= d /\ g[p].from < Len(p)
      /\ g[p].marks = {s} /\ g[p].age = 0 /\ g[p] \in RunRecord
      /\ p \in DOMAIN g /\ DOMAIN g \subseteq DOMAIN h \cup {p}
      /\ \A q \in DOMAIN g \ {p} : g[q] = h[q]
      /\ \A q \in DOMAIN h : q \in DOMAIN g \/ (q = tip /\ g[p].from = h[tip].from /\ Below(h, tip) = {})
      /\ g[p].from = d \/ (tip \in DOMAIN h /\ tip \notin DOMAIN g /\ g[p].from = h[tip].from)
  <2>1. CASE Hung(h, g, p, s, d)
    <3>1. 0 \in 0..Ttl + 1
      BY TtlAssumption
    <3>2. g[p] = [from |-> d, marks |-> {s}, age |-> 0]
      BY <2>1 DEF Hung
    <3>3. g[p].from = d /\ g[p].marks = {s} /\ g[p].age = 0 /\ g[p] \in RunRecord
      BY <1>2, <3>1, <3>2 DEF RunRecord
    <3>4. QED
      BY <1>1, <1>2, <2>1, <3>3 DEF Hung
  <2>2. CASE Extended(h, g, p, s, tip)
    <3>1. tip \in Visited(h, p)
      BY <1>1, <1>2, <2>2, OnTheWay DEF Extended
    <3>2. h[tip].age = 0
      BY <3>1
    <3>3. QED
      BY <1>1, <1>2, <1>3, <2>2, <3>2 DEF Extended
  <2>3. QED
    BY <2>1, <2>2
<1>5. \A x \in Ways : Leads(x, p) /\ Len(x) >= 2 => (Len(x) <= d <=> Cover(h, x) # {})
  <2>1. ASSUME NEW x \in Ways, Leads(x, p), Len(x) >= 2 PROVE Len(x) <= d <=> Cover(h, x) # {}
    <3>1. Len(x) \in 2..Len(p) /\ x = Upto(p, Len(x))
      BY <1>1, <2>1, LeadsOrder DEF Leads
    <3>2. QED
      BY <3>1, DepthCovers
  <2>2. QED
    BY <2>1
<1>6. \A x \in Ways : Cover(h, x) = {r \in DOMAIN h : h[r].from < Len(x) /\ Leads(x, r)}
  BY <1>1, CoverIs
<1>7. Pieces(g)
  <2>1. IsFiniteSet(DOMAIN g)
    <3>1. IsFiniteSet(DOMAIN h \cup {p})
      BY <1>1, FS_AddElement DEF Pieces
    <3>2. QED
      BY <1>4, <3>1, FS_Subset
  <2>2. IsFiniteSet({s})
    BY FS_Singleton
  <2>3. QED
    BY <1>1, <1>3, <1>4, <2>1, <2>2 DEF Pieces
\* What p and an old run both cover, only p's tip did.
<1>8. ASSUME NEW a \in DOMAIN g, a # p, NEW x \in Ways, Leads(x, a), Leads(x, p),
             g[a].from < Len(x), g[p].from < Len(x)
      PROVE  FALSE
  <2>1. a \in DOMAIN h /\ g[a] = h[a] /\ Len(x) \in Nat /\ Len(x) >= 2
    BY <1>3, <1>4, <1>8, LeadsOrder
  <2>2. a \in Cover(h, x)
    BY <1>6, <1>8, <2>1
  <2>3. Len(x) <= d
    BY <1>5, <1>8, <2>1, <2>2
  <2>4. tip \in DOMAIN h /\ tip \notin DOMAIN g /\ g[p].from = h[tip].from
    BY <1>2, <1>4, <1>8, <2>1, <2>3
  <2>5. Leads(x, tip)
    BY <1>1, <1>2, <1>8, <2>3, LeadsOrder
  <2>6. tip \in Cover(h, x)
    BY <1>6, <1>8, <2>4, <2>5
  <2>7. a = tip
    BY <2>2, <2>6, CoverOne
  <2>8. QED
    BY <1>8, <2>4, <2>7
<1>9. Apart(g)
  <2>1. SUFFICES ASSUME NEW a \in DOMAIN g, NEW b \in DOMAIN g, NEW x \in Ways,
                        Leads(x, a), Leads(x, b), g[a].from < Len(x), g[b].from < Len(x)
                 PROVE  a = b
    BY DEF Apart
  <2>2. CASE a # p /\ b # p
    BY <1>4, <2>1, <2>2 DEF Shaped, Apart
  <2>3. QED
    BY <1>8, <2>1, <2>2
<1>10. Rooted(g)
  <2>1. SUFFICES ASSUME NEW r \in DOMAIN g, NEW k \in 2..Len(r)
                 PROVE  \E c \in DOMAIN g : Leads(c, r) /\ g[c].from < k /\ k <= Len(c)
    BY DEF Rooted
  <2>2. CASE r # p
    <3>1. r \in DOMAIN h /\ r \in Ways
      BY <1>3, <1>4, <2>2
    <3>2. PICK c \in DOMAIN h : Leads(c, r) /\ h[c].from < k /\ k <= Len(c)
      BY <3>1 DEF Shaped, Rooted
    <3>3. c \in DOMAIN g
      <4>1. SUFFICES ASSUME c \notin DOMAIN g PROVE FALSE
        OBVIOUS
      <4>2. c = tip /\ Below(h, tip) = {}
        BY <1>4, <4>1
      <4>3. IsAbove(c, r)
        BY <1>3, <3>1, <3>2, <4>1, AboveIsLeads
      <4>4. QED
        BY <3>1, <4>2, <4>3 DEF Below
    <3>4. QED
      BY <1>2, <1>4, <3>2, <3>3
  <2>3. CASE r = p /\ k <= d
    <3>1. Upto(p, k) \in Ways /\ Len(Upto(p, k)) = k /\ Leads(Upto(p, k), p)
      BY <1>1, <1>2, <2>1, <2>3, UptoOK
    <3>2. PICK c \in Cover(h, Upto(p, k)) : TRUE
      BY <1>5, <2>3, <3>1
    <3>3. c \in Visited(h, p) /\ h[c].from < k /\ c \in DOMAIN h /\ Leads(Upto(p, k), c)
      BY <1>1, <1>6, <2>1, <2>3, <3>1, <3>2, CoverVisited
    <3>4. Leads(c, p) /\ k <= Len(c)
      BY <1>3, <3>1, <3>3, LeadsOrder DEF Whole
    <3>5. CASE c \in DOMAIN g
      BY <1>2, <1>4, <2>3, <3>3, <3>4, <3>5
    <3>6. CASE c \notin DOMAIN g
      BY <1>1, <1>4, <2>3, <3>3, <3>6
    <3>7. QED
      BY <3>5, <3>6
  <2>4. CASE r = p /\ k > d
    BY <1>1, <1>2, <1>4, <2>4
  <2>5. QED
    BY <1>2, <2>2, <2>3, <2>4
<1>11. Fading(g)
  <2>1. SUFFICES ASSUME NEW a \in DOMAIN g, NEW b \in DOMAIN g, Leads(a, b)
                 PROVE  g[b].marks \subseteq g[a].marks /\ g[a].age <= g[b].age
    BY DEF Fading
  <2>2. CASE a # p /\ b # p
    BY <1>4, <2>1, <2>2 DEF Shaped, Fading
  <2>3. CASE a # p /\ b = p
    <3>1. a \in DOMAIN h /\ g[a] = h[a]
      BY <1>4, <2>3
    <3>2. a \in Visited(h, p)
      BY <1>1, <2>1, <2>3, <3>1, OnTheWay
    <3>3. QED
      BY <1>4, <2>3, <3>1, <3>2
  <2>4. CASE a = p /\ b # p
    BY <1>2, <1>4, <2>1, <2>4
  <2>5. CASE a = p /\ b = p
    BY <1>4, <2>5
  <2>6. QED
    BY <2>2, <2>3, <2>4, <2>5
<1>12. Shaped(g)
  BY <1>7, <1>9, <1>10, <1>11 DEF Shaped
<1>13. \A x \in Ways : Cover(g, x) = {r \in DOMAIN g : g[r].from < Len(x) /\ Leads(x, r)}
  BY <1>7, CoverIs
<1>14. ASSUME NEW x \in Ways, Len(x) >= 2, Leads(x, p)
       PROVE  HoldersOf(g, x) = HoldersOf(h, x) \cup {s} /\ IdleOf(g, x) = 0
  <2>0. Len(x) \in Nat /\ Len(x) <= Len(p)
    BY <1>1, <1>14, LeadsOrder
  <2>1. CASE Len(x) <= d
    <3>1. PICK c \in Cover(h, x) : TRUE
      BY <1>5, <1>14, <2>1
    <3>2. c \in DOMAIN h /\ h[c].from < Len(x) /\ Leads(x, c)
      BY <1>6, <3>1
    <3>3. c \in Visited(h, p)
      <4>1. Len(x) \in 1..Len(p) /\ x = Upto(p, Len(x))
        BY <1>14, <2>0 DEF Leads
      <4>2. QED
        BY <1>1, <3>1, <4>1, CoverVisited
    <3>4. s \in h[c].marks /\ h[c].age = 0 /\ HoldersOf(h, x) = h[c].marks
      BY <3>1, <3>3, CoverSays
    <3>5. CASE c \in DOMAIN g
      <4>1. c \in Cover(g, x) /\ g[c] = h[c]
        BY <1>2, <1>4, <1>13, <3>2, <3>5
      <4>2. QED
        BY <1>12, <3>4, <4>1, CoverSays
    <3>6. CASE c \notin DOMAIN g
      <4>1. Extended(h, g, p, s, tip) /\ c = tip
        BY <1>4, <3>2, <3>6 DEF Hung
      <4>2. p \in Cover(g, x)
        BY <1>4, <1>13, <1>14, <3>2, <3>6
      <4>3. HoldersOf(g, x) = {s} /\ IdleOf(g, x) = 0
        BY <1>4, <1>12, <4>2, CoverSays
      <4>4. HoldersOf(h, x) = {s}
        BY <3>4, <4>1 DEF Extended
      <4>5. QED
        BY <4>3, <4>4
    <3>7. QED
      BY <3>5, <3>6
  <2>2. CASE Len(x) > d
    <3>1. Cover(h, x) = {}
      BY <1>2, <1>5, <1>14, <2>0, <2>2
    <3>2. HoldersOf(h, x) = {}
      BY <3>1, CoverSays
    <3>3. p \in Cover(g, x)
      BY <1>2, <1>4, <1>13, <1>14, <2>0, <2>2
    <3>4. HoldersOf(g, x) = {s} /\ IdleOf(g, x) = 0
      BY <1>4, <1>12, <3>3, CoverSays
    <3>5. QED
      BY <3>2, <3>4
  <2>3. QED
    BY <1>2, <2>0, <2>1, <2>2
<1>15. ASSUME NEW x \in Ways, Len(x) >= 2, ~Leads(x, p)
       PROVE  HoldersOf(g, x) = HoldersOf(h, x) /\ IdleOf(g, x) = IdleOf(h, x)
  <2>1. \A r \in Cover(h, x) : r \in DOMAIN g /\ r # p
    <3>1. ~Leads(x, tip)
      BY <1>1, <1>2, <1>15, LeadsOrder
    <3>2. QED
      BY <1>2, <1>4, <1>6, <3>1
  <2>2. \A r \in Cover(g, x) : r # p
    BY <1>13, <1>15
  <2>3. \A r \in DOMAIN g \ {p} : r \in DOMAIN h /\ g[r] = h[r]
    BY <1>4
  <2>4. ASSUME NEW r \in Cover(g, x) PROVE r \in Cover(h, x) /\ g[r] = h[r]
    BY <1>6, <1>13, <2>2, <2>3
  <2>5. ASSUME NEW r \in Cover(h, x) PROVE r \in Cover(g, x)
    BY <1>6, <1>13, <2>1, <2>3
  <2>6. CASE Cover(h, x) = {}
    BY <1>12, <2>4, <2>6, CoverSays
  <2>7. CASE Cover(h, x) # {}
    <3>1. PICK r \in Cover(h, x) : TRUE
      BY <2>7
    <3>2. r \in Cover(g, x) /\ g[r] = h[r]
      BY <2>4, <2>5
    <3>3. QED
      BY <1>12, <3>2, CoverSays
  <2>8. QED
    BY <2>6, <2>7
<1>16. QED
  BY <1>12, <1>14, <1>15

----------------------------------------------------------------------------
(* The totals of a forest. *)

Blk(f) == [q \in DOMAIN f |-> BlocksOf(f, q)]
Cpy(f) == [q \in DOMAIN f |-> BlocksOf(f, q) * Cardinality(f[q].marks)]
BlockSum(f) == SumOver(Blk(f), DOMAIN f)
CopySum(f) == SumOver(Cpy(f), DOMAIN f)

\* A run's blocks and copies are numbers.
LEMMA BlkOK ==
  ASSUME NEW f, Pieces(f)
  PROVE  /\ IsFiniteSet(DOMAIN f)
         /\ \A q \in DOMAIN f : /\ Blk(f)[q] = Len(q) - f[q].from /\ Blk(f)[q] \in Int
                                /\ Cpy(f)[q] = Blk(f)[q] * Cardinality(f[q].marks)
                                /\ Cpy(f)[q] \in Int /\ Cardinality(f[q].marks) \in Nat
                                /\ Len(q) \in Nat /\ f[q].from \in Nat
<1>1. \A q \in DOMAIN f : Len(q) \in Nat /\ f[q].from \in Nat /\ IsFiniteSet(f[q].marks)
  BY LeadsOrder DEF Pieces, RunRecord
<1>2. ASSUME NEW q \in DOMAIN f
      PROVE  /\ Blk(f)[q] = Len(q) - f[q].from /\ Blk(f)[q] \in Int
             /\ Cpy(f)[q] = Blk(f)[q] * Cardinality(f[q].marks)
             /\ Cpy(f)[q] \in Int /\ Cardinality(f[q].marks) \in Nat
  <2>1. Cardinality(f[q].marks) \in Nat
    BY <1>1, FS_CardinalityType
  <2>2. Blk(f)[q] = Len(q) - f[q].from /\ Cpy(f)[q] = (Len(q) - f[q].from) * Cardinality(f[q].marks)
    BY DEF Blk, Cpy, BlocksOf
  <2>3. QED
    BY <1>1, <2>1, <2>2
<1>3. QED
  BY <1>1, <1>2 DEF Pieces

\* A run that is the same counts the same.
LEMMA SameBlk ==
  ASSUME NEW f, NEW g, NEW r \in DOMAIN f, r \in DOMAIN g, g[r] = f[r]
  PROVE  Blk(g)[r] = Blk(f)[r] /\ Cpy(g)[r] = Cpy(f)[r]
BY DEF Blk, Cpy, BlocksOf

\* The blocks the model counts by folding are the sum over Blk.
LEMMA BlocksTotal ==
  ASSUME NEW f, NEW S, S \subseteq DOMAIN f, IsFiniteSet(S)
  PROVE  MapThenSumSet(LAMBDA q : BlocksOf(f, q), S) = SumOver(Blk(f), S)
<1> DEFINE e == [q \in S |-> BlocksOf(f, q)]
           K(it) == [s \in SUBSET S |-> IF s = {} THEN 0 ELSE BlocksOf(f, First(s)) + it[s \ {First(s)}]]
           h == [s \in SUBSET S |-> Iter(e, S)[s]]
           it0 == CHOOSE it : it = K(it)
<1>1. \A s \in SUBSET S : Iter(e, S)[s] = Folded(e, Iter(e, S), s)
  <2> HIDE DEF e
  <2>1. QED
    BY IterFolds
<1>2. \A s \in SUBSET S : s # {} => First(s) \in S /\ s \ {First(s)} \in SUBSET S
  BY DEF First
<1>3. h = K(h)
  BY <1>1, <1>2 DEF Folded
<1>4. it0 = K(it0)
  <2> HIDE DEF h, K
  <2>1. QED
    BY <1>3
<1>5. \A s \in SUBSET S : it0[s] = Folded(e, it0, s)
  <2> HIDE DEF it0
  <2>1. QED
    BY <1>2, <1>4 DEF Folded
<1>6. it0[S] = SumOver(e, S)
  <2> HIDE DEF it0, e
  <2>1. QED
    BY <1>5, FoldIsSum
<1>7. MapThenSumSet(LAMBDA q : BlocksOf(f, q), S) = it0[S]
  BY DEF MapThenSumSet, MapThenFoldSet, First
<1>8. SumOver(e, S) = SumOver(Blk(f), S)
  <2>1. \A x \in S : e[x] = Blk(f)[x]
    BY DEF Blk
  <2> HIDE DEF e
  <2>2. QED
    BY <2>1, SumAgrees
<1>9. QED
  BY <1>6, <1>7, <1>8

\* The copies the model counts by folding are the sum over Cpy.
LEMMA CopiesTotal ==
  ASSUME NEW f, NEW S, S \subseteq DOMAIN f, IsFiniteSet(S)
  PROVE  CopiesOf(f, S) = SumOver(Cpy(f), S)
<1> DEFINE e == [q \in S |-> BlocksOf(f, q) * Cardinality(f[q].marks)]
           K(it) == [s \in SUBSET S |-> IF s = {} THEN 0
                       ELSE BlocksOf(f, First(s)) * Cardinality(f[First(s)].marks) + it[s \ {First(s)}]]
           h == [s \in SUBSET S |-> Iter(e, S)[s]]
           it0 == CHOOSE it : it = K(it)
<1>1. \A s \in SUBSET S : Iter(e, S)[s] = Folded(e, Iter(e, S), s)
  <2> HIDE DEF e
  <2>1. QED
    BY IterFolds
<1>2. \A s \in SUBSET S : s # {} => First(s) \in S /\ s \ {First(s)} \in SUBSET S
  BY DEF First
<1>3. h = K(h)
  BY <1>1, <1>2 DEF Folded
<1>4. it0 = K(it0)
  <2> HIDE DEF h, K
  <2>1. QED
    BY <1>3
<1>5. \A s \in SUBSET S : it0[s] = Folded(e, it0, s)
  <2> HIDE DEF it0
  <2>1. QED
    BY <1>2, <1>4 DEF Folded
<1>6. it0[S] = SumOver(e, S)
  <2> HIDE DEF it0, e
  <2>1. QED
    BY <1>5, FoldIsSum
<1>7. CopiesOf(f, S) = it0[S]
  BY DEF CopiesOf, MapThenSumSet, MapThenFoldSet, First
<1>8. SumOver(e, S) = SumOver(Cpy(f), S)
  <2>1. \A x \in S : e[x] = Cpy(f)[x]
    BY DEF Cpy
  <2> HIDE DEF e
  <2>2. QED
    BY <2>1, SumAgrees
<1>9. QED
  BY <1>6, <1>7, <1>8

\* A sum when one run comes in.
LEMMA SumGains ==
  ASSUME NEW D, IsFiniteSet(D), NEW u, u \notin D, NEW e, NEW c,
         \A x \in D : c[x] = e[x] /\ e[x] \in Int, c[u] \in Int
  PROVE  SumOver(c, D \cup {u}) = SumOver(e, D) + c[u] /\ SumOver(e, D) \in Int
<1>1. IsFiniteSet(D \cup {u}) /\ u \in D \cup {u} /\ (D \cup {u}) \ {u} = D
  BY FS_AddElement
<1>2. \A x \in D \cup {u} : c[x] \in Int
  OBVIOUS
<1>3. SumOver(c, D \cup {u}) = c[u] + SumOver(c, D) /\ SumOver(c, D) \in Int
  BY <1>1, <1>2, SumRemoves
<1>4. SumOver(c, D) = SumOver(e, D)
  BY SumAgrees
<1>5. QED
  BY <1>3, <1>4

\* A sum when the term of q is split in two, the other part being u's.
Halves(D, q, u, e, c) ==
  /\ IsFiniteSet(D) /\ q \in D /\ u \notin D /\ c[u] \in Int
  /\ \A r \in D : e[r] \in Int /\ c[r] \in Int
  /\ \A r \in D \ {q} : c[r] = e[r]
  /\ c[u] + c[q] = e[q]

\* A sum in which one term becomes two that add up to it stays what it was.
LEMMA SumHalves ==
  ASSUME NEW D, NEW q, NEW u, NEW e, NEW c, Halves(D, q, u, e, c)
  PROVE  SumOver(c, D \cup {u}) = SumOver(e, D)
<1>1. IsFiniteSet(D) /\ q \in D /\ u \notin D /\ c[u] \in Int /\ c[u] + c[q] = e[q]
  BY DEF Halves
<1>2. (\A x \in D : e[x] \in Int) /\ \A x \in D : c[x] \in Int
  BY DEF Halves
<1>3. IsFiniteSet(D \ {q}) /\ \A x \in D \ {q} : c[x] = e[x]
  BY <1>1, FS_Subset DEF Halves
<1>4. SumOver(e, D) = e[q] + SumOver(e, D \ {q}) /\ SumOver(e, D \ {q}) \in Int
  BY <1>1, <1>2, SumRemoves
<1>5. SumOver(c, D) = c[q] + SumOver(c, D \ {q}) /\ SumOver(c, D) \in Int
  BY <1>1, <1>2, SumRemoves
<1>6. SumOver(c, D \ {q}) = SumOver(e, D \ {q})
  BY <1>3, SumAgrees
<1>7. SumOver(c, D \cup {u}) = SumOver(c, D) + c[u]
  <2>1. IsFiniteSet(D \cup {u}) /\ u \in D \cup {u} /\ (D \cup {u}) \ {u} = D
    BY <1>1, FS_AddElement
  <2>2. \A x \in D \cup {u} : c[x] \in Int
    BY <1>1, <1>2
  <2>3. SumOver(c, D \cup {u}) = c[u] + SumOver(c, D)
    BY <2>1, <2>2, SumRemoves
  <2>4. QED
    BY <1>1, <1>5, <2>3
<1>8. c[q] \in Int /\ e[q] \in Int
  BY <1>1, <1>2
<1>9. QED
  BY <1>1, <1>4, <1>5, <1>6, <1>7, <1>8

\* Two halves are as long as the run, and as often held.
LEMMA SplitSums ==
  ASSUME NEW f, Pieces(f), NEW q \in DOMAIN f, NEW m, m \in Nat, NEW u, NEW g, Pieces(g),
         Halved(f, q, m, u, g)
  PROVE  BlockSum(g) = BlockSum(f) /\ CopySum(g) = CopySum(f)
<1> DEFINE D == DOMAIN f
<1>0. /\ u \notin D /\ Len(u) = m /\ u # q /\ DOMAIN g = D \cup {u} /\ g[u] = f[q]
      /\ g[q].from = m /\ g[q].marks = f[q].marks
      /\ \A r \in D : r # q => g[r] = f[r]
  BY DEF Halved
<1>1. /\ IsFiniteSet(D)
      /\ \A r \in D : /\ Blk(f)[r] = Len(r) - f[r].from /\ Blk(f)[r] \in Int
                      /\ Cpy(f)[r] = Blk(f)[r] * Cardinality(f[r].marks)
                      /\ Cpy(f)[r] \in Int /\ Cardinality(f[r].marks) \in Nat
                      /\ Len(r) \in Nat /\ f[r].from \in Nat
  BY BlkOK
<1>2. \A r \in D \cup {u} : /\ Blk(g)[r] = Len(r) - g[r].from /\ Blk(g)[r] \in Int
                             /\ Cpy(g)[r] = Blk(g)[r] * Cardinality(g[r].marks)
                             /\ Cpy(g)[r] \in Int
  BY <1>0, BlkOK
<1>3. \A r \in D \ {q} : Blk(g)[r] = Blk(f)[r] /\ Cpy(g)[r] = Cpy(f)[r]
  BY <1>0, SameBlk
<1>4. Blk(g)[u] + Blk(g)[q] = Blk(f)[q]
  <2>1. Blk(g)[u] = m - f[q].from /\ Blk(g)[q] = Len(q) - m /\ Blk(f)[q] = Len(q) - f[q].from
    BY <1>0, <1>1, <1>2
  <2>2. Len(q) \in Nat /\ f[q].from \in Nat
    BY <1>1
  <2>3. QED
    BY <2>1, <2>2
<1>5. Cpy(g)[u] + Cpy(g)[q] = Cpy(f)[q]
  <2> DEFINE c == Cardinality(f[q].marks)
  <2>1. Cpy(g)[u] = Blk(g)[u] * c /\ Cpy(g)[q] = Blk(g)[q] * c /\ Cpy(f)[q] = Blk(f)[q] * c
    BY <1>0, <1>1, <1>2
  <2>2. c \in Nat /\ Blk(g)[u] \in Int /\ Blk(g)[q] \in Int
    BY <1>0, <1>1, <1>2
  <2> HIDE DEF c
  <2>3. \A a, b \in Int : (a + b) * c = a * c + b * c
    BY <2>2
  <2>4. QED
    BY <1>4, <2>1, <2>2, <2>3
<1>6. IsFiniteSet(D) /\ q \in D /\ u \notin D
  BY <1>0, <1>1
<1>7. SumOver(Blk(g), D \cup {u}) = SumOver(Blk(f), D)
  <2>1. (\A r \in D : Blk(f)[r] \in Int /\ Blk(g)[r] \in Int) /\ Blk(g)[u] \in Int
    BY <1>1, <1>2
  <2>2. Halves(D, q, u, Blk(f), Blk(g))
    BY <1>3, <1>4, <1>6, <2>1 DEF Halves
  <2>3. QED
    BY <2>2, SumHalves
<1>8. SumOver(Cpy(g), D \cup {u}) = SumOver(Cpy(f), D)
  <2>1. (\A r \in D : Cpy(f)[r] \in Int /\ Cpy(g)[r] \in Int) /\ Cpy(g)[u] \in Int
    BY <1>1, <1>2
  <2>2. Halves(D, q, u, Cpy(f), Cpy(g))
    BY <1>3, <1>5, <1>6, <2>1 DEF Halves
  <2>3. QED
    BY <2>2, SumHalves
<1>9. QED
  BY <1>0, <1>7, <1>8 DEF BlockSum, CopySum

\* Marking adds a copy of every run that was not marked.
LEMMA MarkSums ==
  ASSUME NEW g, Pieces(g), NEW p, NEW s, NEW h, Pieces(h), Touched(g, h, p, s)
  PROVE  LET new == {q \in Visited(g, p) : s \notin g[q].marks} IN
         /\ BlockSum(h) = BlockSum(g)
         /\ CopySum(h) = CopySum(g) + SumOver(Blk(g), new)
         /\ CopySum(g) \in Int /\ BlockSum(g) \in Int /\ SumOver(Blk(g), new) \in Int
         /\ new \subseteq DOMAIN g /\ IsFiniteSet(new)
<1> DEFINE D == DOMAIN g
           new == {q \in Visited(g, p) : s \notin g[q].marks}
           e == [q \in D |-> IF q \in new THEN Blk(g)[q] ELSE 0]
<1>1. /\ DOMAIN h = D /\ \A q \in D : h[q].from = g[q].from
      /\ \A q \in Visited(g, p) : h[q].marks = g[q].marks \cup {s}
      /\ \A q \in D \ Visited(g, p) : h[q] = g[q]
  BY DEF Touched
<1>2. /\ IsFiniteSet(D)
      /\ \A r \in D : /\ Blk(g)[r] = Len(r) - g[r].from /\ Blk(g)[r] \in Int
                      /\ Cpy(g)[r] = Blk(g)[r] * Cardinality(g[r].marks)
                      /\ Cpy(g)[r] \in Int /\ Cardinality(g[r].marks) \in Nat
  BY BlkOK
<1>3. \A r \in D : /\ Blk(h)[r] = Len(r) - h[r].from /\ Cpy(h)[r] \in Int
                   /\ Cpy(h)[r] = Blk(h)[r] * Cardinality(h[r].marks)
  BY <1>1, BlkOK
<1>4. \A r \in D : Blk(h)[r] = Blk(g)[r]
  BY <1>1, <1>2, <1>3
<1>5. new \subseteq D /\ IsFiniteSet(new)
  BY <1>2, FS_Subset DEF Visited
<1>6. ASSUME NEW r \in D PROVE e[r] \in Int /\ Cpy(h)[r] = Cpy(g)[r] + e[r]
  <2>1. CASE r \in new
    <3>1. h[r].marks = g[r].marks \cup {s} /\ s \notin g[r].marks
      BY <1>1, <2>1
    <3>2. IsFiniteSet(g[r].marks)
      BY DEF Pieces
    <3>3. Cardinality(h[r].marks) = Cardinality(g[r].marks) + 1
      BY <3>1, <3>2, FS_AddElement
    <3>4. \A a \in Int, c \in Nat : a * (c + 1) = a * c + a
      OBVIOUS
    <3>5. Cpy(h)[r] = Blk(g)[r] * (Cardinality(g[r].marks) + 1)
      BY <1>3, <1>4, <3>3
    <3>6. QED
      BY <1>2, <2>1, <3>4, <3>5
  <2>2. CASE r \notin new
    <3>1. h[r].marks = g[r].marks
      <4>1. CASE r \in Visited(g, p)
        BY <1>1, <2>2, <4>1, ZenonT(40)
      <4>2. CASE r \notin Visited(g, p)
        BY <1>1, <4>2
      <4>3. QED
        BY <4>1, <4>2
    <3>2. QED
      BY <1>2, <1>3, <1>4, <2>2, <3>1
  <2>3. QED
    BY <2>1, <2>2
<1>7. (\A r \in D \ new : e[r] = 0) /\ \A r \in new : e[r] = Blk(g)[r]
  BY <1>5
<1> HIDE DEF e, new
<1>8. SumOver(Cpy(h), D) = SumOver(Cpy(g), D) + SumOver(e, D) /\ SumOver(Cpy(g), D) \in Int
      /\ SumOver(e, D) \in Int
  <2>1. IsFiniteSet(D) /\ \A x \in D : Cpy(g)[x] \in Int /\ e[x] \in Int /\ Cpy(h)[x] = Cpy(g)[x] + e[x]
    BY <1>2, <1>6
  <2> HIDE DEF D
  <2>2. QED
    BY <2>1, SumAdds, ZenonT(40)
<1>9. SumOver(e, D) = SumOver(e, new)
  BY <1>2, <1>5, <1>6, <1>7, SumSkips
<1>10. SumOver(e, new) = SumOver(Blk(g), new)
  BY <1>5, <1>7, SumAgrees
<1>11. SumOver(Blk(h), D) = SumOver(Blk(g), D) /\ SumOver(Blk(g), D) \in Int
  <2>1. SumOver(Blk(h), D) = SumOver(Blk(g), D)
    BY <1>2, <1>4, SumAgrees
  <2>2. SumOver(Blk(g), D) \in Int
    BY <1>2, SumSplits
  <2>3. QED
    BY <2>1, <2>2
<1>12. QED
  BY <1>1, <1>5, <1>8, <1>9, <1>10, <1>11 DEF BlockSum, CopySum, new

\* g is h grown along p below tip, which ends at d.
Grew(h, g, p, s, d, tip) ==
  /\ d \in Nat /\ Len(tip) = d /\ Len(p) \in Nat /\ tip # p /\ p \notin DOMAIN h
  /\ Hung(h, g, p, s, d) \/ Extended(h, g, p, s, tip)

\* Growing adds what was not found, held once.
LEMMA GrowSums ==
  ASSUME NEW h, Pieces(h), NEW g, Pieces(g), NEW p, NEW s, NEW d, NEW tip, Grew(h, g, p, s, d, tip)
  PROVE  /\ BlockSum(g) = BlockSum(h) + (Len(p) - d)
         /\ CopySum(g) = CopySum(h) + (Len(p) - d)
         /\ BlockSum(h) \in Int /\ CopySum(h) \in Int
<1> DEFINE D == DOMAIN h
<1> USE DEF Grew
<1>1. /\ IsFiniteSet(D)
      /\ \A r \in D : /\ Blk(h)[r] = Len(r) - h[r].from /\ Blk(h)[r] \in Int
                      /\ Cpy(h)[r] = Blk(h)[r] * Cardinality(h[r].marks)
                      /\ Cpy(h)[r] \in Int /\ Cardinality(h[r].marks) \in Nat
                      /\ h[r].from \in Nat
  BY BlkOK
<1>2. \A r \in DOMAIN g : /\ Blk(g)[r] = Len(r) - g[r].from /\ Blk(g)[r] \in Int
                          /\ Cpy(g)[r] = Blk(g)[r] * Cardinality(g[r].marks)
                          /\ Cpy(g)[r] \in Int
  BY BlkOK
<1>3. Cardinality({s}) = 1
  BY FS_Singleton
<1>4. CASE Hung(h, g, p, s, d)
  <2>1. /\ DOMAIN g = D \cup {p} /\ g[p].from = d /\ g[p].marks = {s}
        /\ \A q \in D : g[q] = h[q]
    <3>1. g[p] = [from |-> d, marks |-> {s}, age |-> 0]
      BY <1>4 DEF Hung
    <3>2. g[p].from = d /\ g[p].marks = {s}
      BY <3>1
    <3>3. QED
      BY <1>4, <3>2 DEF Hung
  <2>2. \A q \in D : Blk(g)[q] = Blk(h)[q] /\ Cpy(g)[q] = Cpy(h)[q]
    BY <2>1, SameBlk
  <2>3. Blk(g)[p] = Len(p) - d /\ Cpy(g)[p] = Len(p) - d
    <3>1. p \in DOMAIN g
      BY <2>1
    <3>2. Blk(g)[p] = Len(p) - d /\ Cpy(g)[p] = Blk(g)[p] * 1 /\ Blk(g)[p] \in Int
      BY <1>2, <1>3, <2>1, <3>1
    <3>3. QED
      BY <3>2
  <2>4. /\ \A q \in D : Blk(h)[q] \in Int /\ Cpy(h)[q] \in Int
        /\ Blk(g)[p] \in Int /\ Cpy(g)[p] \in Int /\ IsFiniteSet(D) /\ p \notin D
    BY <1>1, <2>3
  <2> HIDE DEF D
  <2>5. SumOver(Blk(g), D \cup {p}) = SumOver(Blk(h), D) + Blk(g)[p] /\ SumOver(Blk(h), D) \in Int
    BY <2>2, <2>4, SumGains
  <2>6. SumOver(Cpy(g), D \cup {p}) = SumOver(Cpy(h), D) + Cpy(g)[p] /\ SumOver(Cpy(h), D) \in Int
    BY <2>2, <2>4, SumGains
  <2>7. QED
    BY <2>1, <2>3, <2>5, <2>6 DEF BlockSum, CopySum, D
<1>5. CASE Extended(h, g, p, s, tip)
  <2> DEFINE E == D \ {tip}
  <2>1. /\ tip \in D /\ h[tip].marks = {s} /\ DOMAIN g = E \cup {p} /\ g[p] = h[tip]
        /\ \A q \in E : g[q] = h[q]
    BY <1>5 DEF Extended
  <2>2. \A q \in E : /\ Blk(g)[q] = Blk(h)[q] /\ Cpy(g)[q] = Cpy(h)[q]
                     /\ Blk(h)[q] \in Int /\ Cpy(h)[q] \in Int
    <3>1. \A q \in E : q \in DOMAIN h /\ q \in DOMAIN g /\ g[q] = h[q]
      BY <2>1
    <3>2. \A q \in E : Blk(h)[q] \in Int /\ Cpy(h)[q] \in Int
      BY <1>1
    <3> HIDE DEF E
    <3>3. QED
      BY <3>1, <3>2, SameBlk
  <2>3. /\ Blk(g)[p] = Blk(h)[tip] + (Len(p) - d) /\ Blk(g)[p] \in Int
        /\ Cpy(g)[p] = Cpy(h)[tip] + (Len(p) - d) /\ Cpy(g)[p] \in Int
        /\ Blk(h)[tip] \in Int /\ Cpy(h)[tip] \in Int
    <3>0. p \in DOMAIN g /\ g[p].from = h[tip].from /\ Cardinality(g[p].marks) = 1
      BY <1>3, <2>1
    <3>1. /\ Blk(g)[p] = Len(p) - h[tip].from /\ Cpy(g)[p] = Blk(g)[p] * 1 /\ Blk(g)[p] \in Int
      BY <1>2, <3>0
    <3>2. /\ Blk(h)[tip] = d - h[tip].from /\ Cpy(h)[tip] = Blk(h)[tip] * 1 /\ Blk(h)[tip] \in Int
          /\ h[tip].from \in Nat
      BY <1>1, <1>3, <2>1
    <3>3. QED
      BY <3>1, <3>2
  <2>4. IsFiniteSet(E) /\ p \notin E
    BY <1>1, FS_Subset
  <2>5. /\ IsFiniteSet(D) /\ tip \in D /\ \A q \in D : Blk(h)[q] \in Int /\ Cpy(h)[q] \in Int
    BY <1>1, <2>1
  <2>6. SumOver(Blk(h), D) = Blk(h)[tip] + SumOver(Blk(h), E)
    <3> HIDE DEF D
    <3>1. QED
      BY <2>5, SumRemoves
  <2>7. SumOver(Cpy(h), D) = Cpy(h)[tip] + SumOver(Cpy(h), E)
    <3> HIDE DEF D
    <3>1. QED
      BY <2>5, SumRemoves
  <2> HIDE DEF D, E
  <2>8. SumOver(Blk(g), E \cup {p}) = SumOver(Blk(h), E) + Blk(g)[p] /\ SumOver(Blk(h), E) \in Int
    <3>1. (\A x \in E : Blk(g)[x] = Blk(h)[x] /\ Blk(h)[x] \in Int) /\ Blk(g)[p] \in Int
      BY <2>2, <2>3
    <3>2. QED
      BY <2>4, <3>1, SumGains
  <2>9. SumOver(Cpy(g), E \cup {p}) = SumOver(Cpy(h), E) + Cpy(g)[p] /\ SumOver(Cpy(h), E) \in Int
    <3>1. (\A x \in E : Cpy(g)[x] = Cpy(h)[x] /\ Cpy(h)[x] \in Int) /\ Cpy(g)[p] \in Int
      BY <2>2, <2>3
    <3>2. QED
      BY <2>4, <3>1, SumGains
  <2>10. BlockSum(g) = SumOver(Blk(g), E \cup {p}) /\ CopySum(g) = SumOver(Cpy(g), E \cup {p})
    BY <2>1 DEF BlockSum, CopySum
  <2>11. BlockSum(h) = SumOver(Blk(h), D) /\ CopySum(h) = SumOver(Cpy(h), D)
    BY DEF BlockSum, CopySum, D
  <2>12. BlockSum(g) = BlockSum(h) + (Len(p) - d) /\ BlockSum(h) \in Int
    BY <2>3, <2>6, <2>8, <2>10, <2>11, SMTT(30)
  <2>13. CopySum(g) = CopySum(h) + (Len(p) - d) /\ CopySum(h) \in Int
    BY <2>3, <2>7, <2>9, <2>10, <2>11, SMTT(30)
  <2>14. QED
    BY <2>12, <2>13
<1>6. QED
  BY <1>4, <1>5

----------------------------------------------------------------------------
(* Tails and roots. *)

Childless(f) == {q \in DOMAIN f : Below(f, q) = {}}
Firsts(f) == {q[1] : q \in DOMAIN f}

\* Below in terms of what leads what.
LEMMA BelowIs ==
  ASSUME NEW f, Pieces(f), NEW q \in Ways
  PROVE  Below(f, q) = {r \in DOMAIN f : Leads(q, r) /\ r # q}
<1>1. \A r \in DOMAIN f : r \in Ways
  BY DEF Pieces
<1>2. QED
  BY <1>1, AboveIsLeads DEF Below

\* A path and what it begins with have one model's key.
LEMMA SameFirst ==
  ASSUME NEW x \in Ways, NEW q \in Ways, Leads(x, q), Len(x) >= 1
  PROVE  x[1] = q[1]
<1>1. Len(x) \in Nat
  BY LeadsOrder
<1>2. 1 \in 1..Len(x)
  BY <1>1
<1>3. QED
  BY <1>2, LeadsMeans

\* A split changes neither the tails nor the roots.
LEMMA SplitTails ==
  ASSUME NEW f, Shaped(f), NEW q \in DOMAIN f, NEW m \in Nat, f[q].from < m, NEW u, NEW g, Shaped(g),
         Halved(f, q, m, u, g)
  PROVE  Childless(g) = Childless(f) /\ Firsts(g) = Firsts(f)
<1>1. u \notin DOMAIN f /\ Leads(u, q) /\ Len(u) = m /\ u \in Ways /\ u # q /\ DOMAIN g = DOMAIN f \cup {u}
  BY DEF Halved
<1>2. Pieces(f) /\ Pieces(g) /\ \A r \in DOMAIN f : r \in Ways
  BY DEF Shaped, Pieces
<1>3. \A r \in DOMAIN f : Below(f, r) = {b \in DOMAIN f : Leads(r, b) /\ b # r}
  BY <1>2, BelowIs
<1>4. \A r \in DOMAIN g : Below(g, r) = {b \in DOMAIN g : Leads(r, b) /\ b # r}
  BY <1>1, <1>2, BelowIs
<1>5. q \in Below(g, u)
  BY <1>1, <1>4
<1>6. ASSUME NEW r \in DOMAIN f PROVE Below(f, r) = {} <=> Below(g, r) = {}
  <2>1. Below(f, r) \subseteq Below(g, r)
    BY <1>1, <1>3, <1>4
  <2>2. ASSUME u \in Below(g, r) PROVE Below(f, r) # {}
    <3>1. Leads(r, u) /\ r # u
      BY <1>1, <1>4, <2>2
    <3>2. Leads(r, q) /\ r # q
      BY <1>1, <1>2, <3>1, LeadsOrder
    <3>3. QED
      BY <1>3, <3>2
  <2>3. \A b \in Below(g, r) : b = u \/ b \in Below(f, r)
    BY <1>1, <1>3, <1>4
  <2>4. QED
    BY <2>1, <2>2, <2>3
<1>7. Childless(g) = Childless(f)
  BY <1>1, <1>5, <1>6 DEF Childless
<1>8. u[1] = q[1]
  <2>1. Len(u) >= 1 /\ q \in Ways
    BY <1>1, <1>2 DEF Pieces, RunRecord
  <2>2. QED
    BY <1>1, <2>1, SameFirst
<1>9. Firsts(g) = Firsts(f)
  BY <1>1, <1>8 DEF Firsts
<1>10. QED
  BY <1>7, <1>9

\* Growth makes the path's end a tail and the tip one no longer.
LEMMA GrowTails ==
  ASSUME NEW h, NEW p \in Paths, NEW s, Shaped(h), Whole(h, p),
         NEW d, d = Depth(h, p), d < Len(p), NEW tip, tip = Upto(p, d),
         NEW g, Hung(h, g, p, s, d) \/ Extended(h, g, p, s, tip), Shaped(g)
  PROVE  Childless(g) = (Childless(h) \ {tip}) \cup {p} /\ Firsts(g) = Firsts(h) \cup {p[1]}
<1>1. p \in Ways /\ Len(p) \in Nat /\ Len(p) >= 2 /\ Pieces(h) /\ Pieces(g)
  BY PathOK DEF Shaped
<1>2. /\ d \in 1..Len(p) /\ d \in Nat /\ tip \in Ways /\ Len(tip) = d /\ Leads(tip, p)
      /\ tip \in DOMAIN h <=> d > 1
      /\ p \notin DOMAIN h /\ tip # p
      /\ \A q \in DOMAIN h : Leads(q, p) => Leads(q, tip)
      /\ \A q \in DOMAIN h : ~Leads(p, q)
  BY TipOK
<1>3. \A q \in DOMAIN h : q \in Ways /\ Len(q) >= 2 /\ Len(q) \in Nat
  BY <1>1, NameOK, LeadsOrder DEF Pieces
<1>4. /\ p \in DOMAIN g /\ \A r \in DOMAIN g : r = p \/ r \in DOMAIN h
      /\ \A r \in DOMAIN h : r \in DOMAIN g \/ (r = tip /\ Below(h, tip) = {})
  BY <1>1 DEF Hung, Extended
<1>5. \A r \in DOMAIN h : Below(h, r) = {b \in DOMAIN h : Leads(r, b) /\ b # r}
  BY <1>1, <1>3, BelowIs
<1>6. \A r \in DOMAIN g : Below(g, r) = {b \in DOMAIN g : Leads(r, b) /\ b # r}
  BY <1>1, <1>3, <1>4, BelowIs
<1>7. Below(g, p) = {}
  BY <1>2, <1>4, <1>6
<1>8. ASSUME NEW q \in DOMAIN h, q \in DOMAIN g, q # tip PROVE Below(g, q) = {} <=> Below(h, q) = {}
  <2>1. ASSUME NEW r \in Below(g, q) PROVE Below(h, q) # {}
    <3>1. r \in DOMAIN g /\ Leads(q, r) /\ r # q
      BY <1>6, <1>8, <2>1
    <3>2. CASE r = p
      <4>1. Leads(q, tip)
        BY <1>2, <1>8, <3>1, <3>2
      <4>2. Len(q) <= d
        BY <1>2, <1>3, <1>8, <4>1, LeadsOrder
      <4>3. tip \in DOMAIN h
        BY <1>2, <1>3, <1>8, <4>2
      <4>4. QED
        BY <1>5, <1>8, <4>1, <4>3
    <3>3. CASE r # p
      BY <1>4, <1>5, <1>8, <3>1, <3>3
    <3>4. QED
      BY <3>2, <3>3
  <2>2. ASSUME NEW r \in Below(h, q) PROVE Below(g, q) # {}
    <3>1. r \in DOMAIN h /\ Leads(q, r) /\ r # q
      BY <1>5, <1>8, <2>2
    <3>2. CASE r \in DOMAIN g
      BY <1>6, <1>8, <3>1, <3>2
    <3>3. CASE r \notin DOMAIN g
      <4>1. r = tip
        BY <1>4, <3>1, <3>3
      <4>2. Leads(q, p) /\ p # q
        BY <1>1, <1>2, <1>3, <1>8, <3>1, <4>1, LeadsOrder
      <4>3. QED
        BY <1>4, <1>6, <1>8, <4>2
    <3>4. QED
      BY <3>2, <3>3
  <2>3. QED
    BY <2>1, <2>2
<1>9. tip \in DOMAIN g => Below(g, tip) # {}
  BY <1>2, <1>4, <1>6
<1>10. ASSUME NEW q PROVE q \in Childless(g) <=> q = p \/ (q \in Childless(h) /\ q # tip)
  <2>1. CASE q = p
    BY <1>4, <1>7, <2>1 DEF Childless
  <2>2. CASE q = tip
    BY <1>2, <1>9, <2>2 DEF Childless
  <2>3. CASE q # p /\ q # tip
    BY <1>4, <1>8, <2>3 DEF Childless
  <2>4. QED
    BY <2>1, <2>2, <2>3
<1>11. Childless(g) = (Childless(h) \ {tip}) \cup {p}
  BY <1>10
<1>12. \A q \in DOMAIN h : q[1] = p[1] \/ q \in DOMAIN g
  <2>1. tip[1] = p[1]
    BY <1>1, <1>2, SameFirst
  <2>2. QED
    BY <1>4, <2>1
<1>13. Firsts(g) = Firsts(h) \cup {p[1]}
  <2>1. p[1] \in Firsts(g)
    BY <1>4 DEF Firsts
  <2>2. \A q \in DOMAIN h : q[1] \in Firsts(g)
    BY <1>12, <2>1 DEF Firsts
  <2>3. \A q \in DOMAIN g : q[1] = p[1] \/ q[1] \in Firsts(h)
    BY <1>4 DEF Firsts
  <2>4. QED
    BY <2>1, <2>2, <2>3 DEF Firsts
<1>14. QED
  BY <1>11, <1>13

----------------------------------------------------------------------------
(* A commit. *)

\* What a prefix shows once p was committed for s.
Served(f, g, p, s) ==
  \A x \in Ways : Len(x) >= 2 =>
    /\ Leads(x, p) => HoldersOf(g, x) = HoldersOf(f, x) \cup {s} /\ IdleOf(g, x) = 0
    /\ ~Leads(x, p) => HoldersOf(g, x) = HoldersOf(f, x) /\ IdleOf(g, x) = IdleOf(f, x)

\* Marking serves as much of p as is found.
LEMMA MarkedShows ==
  ASSUME NEW g, Shaped(g), NEW p \in Paths, NEW s, Whole(g, p), NEW h, Shaped(h), Touched(g, h, p, s),
         \A x \in Ways : Cover(h, x) = Cover(g, x), NEW x \in Ways, Len(x) >= 2
  PROVE  /\ Leads(x, p) /\ Len(x) <= Depth(g, p) =>
              HoldersOf(h, x) = HoldersOf(g, x) \cup {s} /\ IdleOf(h, x) = 0
         /\ ~(Leads(x, p) /\ Len(x) <= Depth(g, p)) =>
              HoldersOf(h, x) = HoldersOf(g, x) /\ IdleOf(h, x) = IdleOf(g, x)
<1>1. p \in Ways /\ Len(p) \in Nat /\ Pieces(g) /\ Len(x) \in Nat
  BY PathOK, LeadsOrder DEF Shaped
<1>2. Cover(h, x) = Cover(g, x) /\ Cover(g, x) = {r \in DOMAIN g : g[r].from < Len(x) /\ Leads(x, r)}
  BY <1>1, CoverIs
<1>3. ASSUME Leads(x, p), Len(x) <= Depth(g, p)
      PROVE  HoldersOf(h, x) = HoldersOf(g, x) \cup {s} /\ IdleOf(h, x) = 0
  <2>1. Len(x) \in 2..Len(p) /\ Len(x) \in 1..Len(p) /\ x = Upto(p, Len(x))
    BY <1>1, <1>3, LeadsOrder DEF Leads
  <2>2. Cover(g, x) # {}
    BY <1>3, <2>1, DepthCovers
  <2>3. PICK r \in Cover(g, x) : TRUE
    BY <2>2
  <2>4. r \in Visited(g, p)
    BY <1>1, <2>1, <2>3, CoverVisited
  <2>5. h[r].marks = g[r].marks \cup {s} /\ h[r].age = 0
    BY <2>4 DEF Touched
  <2>6. HoldersOf(h, x) = h[r].marks /\ IdleOf(h, x) = h[r].age /\ HoldersOf(g, x) = g[r].marks
    BY <1>2, <2>3, CoverSays
  <2>7. QED
    BY <2>5, <2>6
<1>4. ASSUME ~(Leads(x, p) /\ Len(x) <= Depth(g, p))
      PROVE  HoldersOf(h, x) = HoldersOf(g, x) /\ IdleOf(h, x) = IdleOf(g, x)
  <2>1. CASE Cover(g, x) = {}
    BY <1>2, <2>1, CoverSays
  <2>2. CASE Cover(g, x) # {}
    <3>1. PICK r \in Cover(g, x) : TRUE
      BY <2>2
    <3>2. r \in DOMAIN g /\ Leads(x, r) /\ r \in Ways
      BY <1>1, <1>2, <3>1 DEF Pieces
    <3>3. r \notin Visited(g, p)
      <4>1. SUFFICES ASSUME r \in Visited(g, p) PROVE FALSE
        OBVIOUS
      <4>2. Leads(r, p)
        BY <4>1 DEF Whole
      <4>3. Leads(x, p)
        BY <1>1, <3>2, <4>2, LeadsOrder
      <4>4. Len(x) \in 2..Len(p) /\ x = Upto(p, Len(x))
        BY <1>1, <4>3, LeadsOrder DEF Leads
      <4>5. Len(x) <= Depth(g, p)
        BY <3>1, <4>4, DepthCovers
      <4>6. QED
        BY <1>4, <4>3, <4>5
    <3>4. h[r] = g[r]
      BY <3>2, <3>3 DEF Touched
    <3>5. HoldersOf(h, x) = h[r].marks /\ IdleOf(h, x) = h[r].age
      BY <1>2, <3>1, CoverSays
    <3>6. HoldersOf(g, x) = g[r].marks /\ IdleOf(g, x) = g[r].age
      BY <3>1, CoverSays
    <3>7. QED
      BY <3>4, <3>5, <3>6
  <2>3. QED
    BY <2>1, <2>2
<1>5. QED
  BY <1>3, <1>4

\* No run without a holder.
Held(f) == \A q \in DOMAIN f : f[q].marks # {}

\* What splitting leaves as it was.
SameBooks(f, g) ==
  /\ BlockSum(g) = BlockSum(f) /\ CopySum(g) = CopySum(f)
  /\ Childless(g) = Childless(f) /\ Firsts(g) = Firsts(f)

\* A split keeps every total.
LEMMA CutBooks ==
  ASSUME NEW f, Shaped(f), NEW p \in Paths
  PROVE  /\ SameBooks(f, Cut(f, p))
         /\ Held(f) => Held(Cut(f, p))
         /\ Whole(Cut(f, p), p)
<1> DEFINE g == Cut(f, p)
<1>1. /\ g = f \/ \E q \in DOMAIN f, m \in Nat : f[q].from < m /\ m < Len(q) /\ g = Split(f, q, m)
      /\ \A q \in Visited(g, p) : Leads(q, p)
  BY CutOK
<1>2. Shaped(g)
  BY CutSame
<1> HIDE DEF g
<1>3. SameBooks(f, g) /\ (Held(f) => Held(g))
  <2>1. CASE g = f
    BY <2>1 DEF SameBooks
  <2>2. CASE g # f
    <3>1. PICK q \in DOMAIN f, m \in Nat : f[q].from < m /\ m < Len(q) /\ g = Split(f, q, m)
      BY <1>1, <2>2
    <3> DEFINE u == Upto(q, m)
    <3>2. Halved(f, q, m, u, g)
      BY <3>1, SplitOK
    <3> HIDE DEF u
    <3>3. BlockSum(g) = BlockSum(f) /\ CopySum(g) = CopySum(f)
      BY <1>2, <3>1, <3>2, SplitSums DEF Shaped
    <3>4. Childless(g) = Childless(f) /\ Firsts(g) = Firsts(f)
      BY <1>2, <3>1, <3>2, SplitTails
    <3>5. /\ DOMAIN g = DOMAIN f \cup {u} /\ g[u].marks = f[q].marks /\ g[q].marks = f[q].marks
          /\ \A r \in DOMAIN f : r # q => g[r].marks = f[r].marks
      <4>1. g[q] = [from |-> m, marks |-> f[q].marks, age |-> f[q].age]
        BY <3>2 DEF Halved
      <4>2. g[q].marks = f[q].marks
        BY <4>1
      <4>3. QED
        BY <3>2, <4>2 DEF Halved
    <3>6. Held(f) => Held(g)
      BY <3>5 DEF Held
    <3>7. QED
      BY <3>3, <3>4, <3>6 DEF SameBooks
  <2>3. QED
    BY <2>1, <2>2
<1>4. QED
  BY <1>1, <1>3 DEF g, Whole

\* What a commit of p makes of f, d being how much of p was there, tip where it
\* ended and new the runs of cut that were not marked.
Committed(f, all, cut, on, p, s, d, tip, new) ==
  /\ Shaped(all) /\ Served(f, all, p, s) /\ (Held(f) => Held(all))
  /\ DOMAIN on = DOMAIN cut /\ Shaped(cut)
  /\ BlockSum(all) = BlockSum(f) + (Len(p) - d)
  /\ CopySum(all) = CopySum(f) + (Len(p) - d) + SumOver(Blk(cut), new)
  /\ new \subseteq DOMAIN cut /\ IsFiniteSet(new)
  /\ Childless(all) = IF tip = p THEN Childless(f) ELSE (Childless(f) \ {tip}) \cup {p}
  /\ Firsts(all) = Firsts(f) \cup {p[1]}

\* The forest after a commit, and the totals the commit adds.
LEMMA CommitOK ==
  ASSUME NEW f, Shaped(f), NEW p \in Paths, NEW s \in Slots
  PROVE  LET cut == Cut(f, p)
             on == Marked(cut, p, s)
             d == Depth(on, p)
         IN  Committed(f, Grown(on, p, s), cut, on, p, s, d, Upto(p, d),
                       {q \in Visited(cut, p) : s \notin cut[q].marks})
<1> DEFINE cut == Cut(f, p)
           on == Marked(cut, p, s)
           all == Grown(on, p, s)
           d == Depth(on, p)
           tip == Upto(p, d)
           new == {q \in Visited(cut, p) : s \notin cut[q].marks}
<1>1. p \in Ways /\ Len(p) \in Nat /\ Len(p) >= 2 /\ Leads(p, p)
  BY PathOK, LeadsOrder
<1>2. Shaped(cut) /\ SameShown(f, cut) /\ SameBooks(f, cut) /\ (Held(f) => Held(cut)) /\ Whole(cut, p)
  BY CutSame, CutBooks
<1> HIDE DEF cut
<1>3. /\ Touched(cut, on, p, s) /\ Shaped(on) /\ Whole(on, p)
      /\ Visited(on, p) = Visited(cut, p) /\ d = Depth(cut, p)
      /\ \A x \in Ways : Cover(on, x) = Cover(cut, x)
  BY <1>2, MarkedOK
<1> HIDE DEF on
<1>4. DOMAIN on = DOMAIN cut /\ \A q \in Visited(on, p) : s \in on[q].marks /\ on[q].age = 0
  BY <1>3 DEF Touched
<1>5. /\ d \in 1..Len(p) /\ d \in Nat /\ Len(tip) = d
      /\ p \in DOMAIN on <=> d = Len(p)
      /\ tip = p <=> d = Len(p)
  BY <1>3, TipOK
<1>6. /\ d = Len(p) => all = on
      /\ d < Len(p) => Hung(on, all, p, s, d) \/ Extended(on, all, p, s, tip)
  BY <1>3, GrownOK
<1> HIDE DEF d, tip, all
<1>7. /\ BlockSum(on) = BlockSum(f)
      /\ CopySum(on) = CopySum(f) + SumOver(Blk(cut), new)
      /\ CopySum(f) \in Int /\ BlockSum(f) \in Int /\ SumOver(Blk(cut), new) \in Int
      /\ new \subseteq DOMAIN cut /\ IsFiniteSet(new)
  <2>1. /\ BlockSum(on) = BlockSum(cut)
        /\ CopySum(on) = CopySum(cut) + SumOver(Blk(cut), new)
        /\ CopySum(cut) \in Int /\ BlockSum(cut) \in Int /\ SumOver(Blk(cut), new) \in Int
        /\ new \subseteq DOMAIN cut /\ IsFiniteSet(new)
    BY <1>2, <1>3, MarkSums DEF Shaped
  <2>2. BlockSum(cut) = BlockSum(f) /\ CopySum(cut) = CopySum(f)
    BY <1>2 DEF SameBooks
  <2> HIDE DEF new
  <2>3. QED
    BY <2>1, <2>2
<1> HIDE DEF new
<1>8. Childless(on) = Childless(f) /\ Firsts(on) = Firsts(f)
  <2>1. Childless(on) = Childless(cut) /\ Firsts(on) = Firsts(cut)
    BY <1>4 DEF Childless, Below, Firsts
  <2>2. QED
    BY <1>2, <2>1 DEF SameBooks
<1>9. Held(f) => Held(on)
  <2>1. \A q \in DOMAIN cut : on[q].marks = cut[q].marks \/ s \in on[q].marks
    BY <1>3, <1>4 DEF Touched
  <2>2. QED
    BY <1>2, <1>4, <2>1 DEF Held
<1>10. \A x \in Ways : HoldersOf(cut, x) = HoldersOf(f, x) /\ IdleOf(cut, x) = IdleOf(f, x)
  BY <1>2 DEF SameShown
<1>11. \A x \in Ways : Len(x) >= 2 =>
         /\ Leads(x, p) /\ Len(x) <= d => HoldersOf(on, x) = HoldersOf(cut, x) \cup {s} /\ IdleOf(on, x) = 0
         /\ ~(Leads(x, p) /\ Len(x) <= d) =>
              HoldersOf(on, x) = HoldersOf(cut, x) /\ IdleOf(on, x) = IdleOf(cut, x)
  BY <1>2, <1>3, MarkedShows
<1> DEFINE Goal == Committed(f, all, cut, on, p, s, d, tip, new)
<1>12. ASSUME d = Len(p) PROVE Goal
  <2>1. all = on /\ tip = p
    BY <1>5, <1>6, <1>12
  <2>2. Served(f, on, p, s)
    <3>1. \A x \in Ways : Leads(x, p) => Len(x) <= d
      BY <1>1, <1>12, LeadsOrder
    <3>2. QED
      BY <1>10, <1>11, <3>1 DEF Served
  <2>3. p[1] \in Firsts(on)
    BY <1>5, <1>12 DEF Firsts
  <2>4. Firsts(on) = Firsts(f) \cup {p[1]}
    BY <1>8, <2>3
  <2>5. Len(p) - d = 0
    BY <1>1, <1>12
  <2>6. QED
    BY <1>2, <1>3, <1>4, <1>7, <1>8, <1>9, <2>1, <2>2, <2>4, <2>5 DEF Committed
<1>13. ASSUME d # Len(p) PROVE Goal
  <2>1. d < Len(p) /\ tip # p /\ p \notin DOMAIN on /\ (Hung(on, all, p, s, d) \/ Extended(on, all, p, s, tip))
    BY <1>1, <1>5, <1>6, <1>13
  <2>2. /\ Shaped(all)
        /\ \A x \in Ways : Len(x) >= 2 =>
             /\ Leads(x, p) => HoldersOf(all, x) = HoldersOf(on, x) \cup {s} /\ IdleOf(all, x) = 0
             /\ ~Leads(x, p) => HoldersOf(all, x) = HoldersOf(on, x) /\ IdleOf(all, x) = IdleOf(on, x)
    BY <1>3, <1>4, <2>1, GrownShaped DEF d, tip
  <2>3. Served(f, all, p, s)
    <3>1. ASSUME NEW x \in Ways, Len(x) >= 2, Leads(x, p)
          PROVE  HoldersOf(all, x) = HoldersOf(f, x) \cup {s} /\ IdleOf(all, x) = 0
      BY <1>10, <1>11, <2>2, <3>1
    <3>2. ASSUME NEW x \in Ways, Len(x) >= 2, ~Leads(x, p)
          PROVE  HoldersOf(all, x) = HoldersOf(f, x) /\ IdleOf(all, x) = IdleOf(f, x)
      BY <1>10, <1>11, <2>2, <3>2
    <3>3. QED
      BY <3>1, <3>2 DEF Served
  <2>4. Held(f) => Held(all)
    <3>1. \A q \in DOMAIN all : all[q].marks = {s} \/ (q \in DOMAIN on /\ all[q] = on[q])
      <4>1. ASSUME Hung(on, all, p, s, d) PROVE all[p].marks = {s}
        <5>1. all[p] = [from |-> d, marks |-> {s}, age |-> 0]
          BY <4>1 DEF Hung
        <5>2. QED
          BY <5>1
      <4>2. QED
        BY <2>1, <4>1 DEF Hung, Extended
    <3>2. QED
      BY <1>9, <3>1 DEF Held
  <2>5. /\ BlockSum(all) = BlockSum(on) + (Len(p) - d)
        /\ CopySum(all) = CopySum(on) + (Len(p) - d)
    <3>1. Pieces(on) /\ Pieces(all)
      BY <1>3, <2>2 DEF Shaped
    <3>2. d \in Nat /\ Len(tip) = d /\ Len(p) \in Nat
      BY <1>1, <1>5
    <3>3. p \notin DOMAIN on /\ tip # p /\ (Hung(on, all, p, s, d) \/ Extended(on, all, p, s, tip))
      BY <2>1
    <3>4. Grew(on, all, p, s, d, tip)
      BY <3>2, <3>3 DEF Grew
    <3>5. QED
      BY <3>1, <3>4, GrowSums
  <2>6. Childless(all) = (Childless(on) \ {tip}) \cup {p} /\ Firsts(all) = Firsts(on) \cup {p[1]}
    <3>1. Shaped(on) /\ Shaped(all) /\ Whole(on, p)
      BY <1>3, <2>2
    <3>2. d = Depth(on, p) /\ tip = Upto(p, d)
      BY DEF d, tip
    <3>3. QED
      BY <2>1, <3>1, <3>2, GrowTails
  <2>7. BlockSum(all) = BlockSum(f) + (Len(p) - d)
    BY <1>7, <2>5
  <2>8. CopySum(all) = CopySum(f) + (Len(p) - d) + SumOver(Blk(cut), new)
    BY <1>1, <1>5, <1>7, <2>5
  <2>9. QED
    BY <1>2, <1>4, <1>7, <1>8, <2>1, <2>2, <2>3, <2>4, <2>6, <2>7, <2>8 DEF Committed
<1>14. QED
  BY <1>12, <1>13 DEF cut, on, all, d, tip, new

----------------------------------------------------------------------------
(* Unlinking runs. *)

\* g is what is left of f, with every run on the way to what is left.
Kept(f, g) ==
  /\ DOMAIN g \subseteq DOMAIN f
  /\ \A q \in DOMAIN g : g[q] = f[q]
  /\ \A q \in DOMAIN f, r \in DOMAIN g : Leads(q, r) => q \in DOMAIN g

\* A forest without some runs, and without all those below them, keeps the shape.
LEMMA KeptShaped ==
  ASSUME NEW f, Shaped(f), NEW g, Kept(f, g)
  PROVE  Shaped(g) /\ \A x : Cover(g, x) = Cover(f, x) \cap DOMAIN g
<1>1. /\ DOMAIN g \subseteq DOMAIN f /\ \A q \in DOMAIN g : g[q] = f[q]
      /\ \A q \in DOMAIN f, r \in DOMAIN g : Leads(q, r) => q \in DOMAIN g
  BY DEF Kept
<1>2. Pieces(g)
  <2>1. IsFiniteSet(DOMAIN g)
    BY <1>1, FS_Subset DEF Shaped, Pieces
  <2>2. QED
    BY <1>1, <2>1 DEF Shaped, Pieces
<1>3. Apart(g)
  BY <1>1 DEF Shaped, Apart
<1>4. Rooted(g)
  <2>1. SUFFICES ASSUME NEW r \in DOMAIN g, NEW k \in 2..Len(r)
                 PROVE  \E c \in DOMAIN g : Leads(c, r) /\ g[c].from < k /\ k <= Len(c)
    BY DEF Rooted
  <2>2. PICK c \in DOMAIN f : Leads(c, r) /\ f[c].from < k /\ k <= Len(c)
    BY <1>1 DEF Shaped, Rooted
  <2>3. QED
    BY <1>1, <2>2
<1>5. Fading(g)
  BY <1>1 DEF Shaped, Fading
<1>6. \A x : Cover(g, x) = Cover(f, x) \cap DOMAIN g
  BY <1>1 DEF Cover
<1>7. QED
  BY <1>2, <1>3, <1>4, <1>5, <1>6 DEF Shaped

\* A run with something below it has a child.
LEMMA ChildThere ==
  ASSUME NEW f, Shaped(f), NEW q \in DOMAIN f, NEW r \in Below(f, q)
  PROVE  \E c \in Below(f, q) : Parent(f, c) = q
<1>1. /\ Pieces(f) /\ \A a \in DOMAIN f : a \in Ways /\ Len(a) \in Nat /\ Len(a) >= 2 /\ f[a].from \in Nat
  BY NameOK, LeadsOrder DEF Shaped, Pieces, RunRecord
<1>2. Below(f, q) = {b \in DOMAIN f : Leads(q, b) /\ b # q}
  BY <1>1, BelowIs
<1>3. r \in DOMAIN f /\ Leads(q, r) /\ r # q /\ r \in Ways
  BY <1>1, <1>2
<1>4. Len(q) < Len(r)
  BY <1>1, <1>3, LeadsOrder
<1>5. PICK c \in DOMAIN f : Leads(c, r) /\ f[c].from < Len(q) + 1 /\ Len(q) + 1 <= Len(c)
  <2>1. Len(q) + 1 \in 2..Len(r)
    BY <1>1, <1>3, <1>4
  <2>2. QED
    BY <1>3, <2>1 DEF Shaped, Rooted
<1>6. Leads(q, c) /\ c # q
  BY <1>1, <1>3, <1>5, LeadsOrder
<1>7. Len(q) <= f[c].from
  BY <1>6, RunsApart
<1>8. f[c].from = Len(q)
  BY <1>1, <1>5, <1>7
<1>9. Parent(f, c) = q
  BY <1>6, <1>8 DEF Leads, Parent
<1>10. QED
  BY <1>2, <1>6, <1>9

\* The books of what is left once the runs in gone are unlinked.
Lessened(f, left, gone) ==
  /\ Cardinality(DOMAIN left) = Cardinality(DOMAIN f) - Cardinality(gone)
  /\ BlockSum(left) = BlockSum(f) - SumOver(Blk(f), gone)
  /\ CopySum(left) = CopySum(f) - SumOver(Cpy(f), gone)
  /\ IsFiniteSet(gone)
  /\ Childless(left) = (Childless(f) \ gone) \cup
       {Parent(f, q) : q \in {r \in gone : /\ Parent(f, r) \in DOMAIN left
                                           /\ Below(left, Parent(f, r)) = {}}}
  /\ Firsts(left) = {m \in Firsts(f) : \E q \in DOMAIN left : q[1] = m}

\* unlinkRun of all of gone books what went (tree.go:557-582).
LEMMA UnlinkedOK ==
  ASSUME NEW f, Shaped(f), NEW gone, gone \subseteq DOMAIN f, NEW left, Kept(f, left),
         DOMAIN left = DOMAIN f \ gone
  PROVE  Lessened(f, left, gone)
<1> DEFINE D == DOMAIN f
           E == DOMAIN left
           orphaned == {r \in gone : Parent(f, r) \in DOMAIN left /\ Below(left, Parent(f, r)) = {}}
<1>1. /\ IsFiniteSet(D) /\ Shaped(left) /\ gone \in SUBSET D /\ E = D \ gone /\ E \subseteq D
      /\ \A q \in E : left[q] = f[q]
  BY KeptShaped DEF Shaped, Pieces, Kept
<1>2. IsFiniteSet(gone) /\ IsFiniteSet(E)
  BY <1>1, FS_Subset
<1>3. Cardinality(E) = Cardinality(D) - Cardinality(gone)
  <2>1. Cardinality(D \ gone) = Cardinality(D) - Cardinality(D \cap gone)
    BY <1>1, FS_Difference
  <2>2. D \cap gone = gone
    BY <1>1
  <2>3. QED
    BY <1>1, <2>1, <2>2
<1>4. ASSUME NEW e, NEW c, \A x \in D : e[x] \in Int, \A x \in E : c[x] = e[x]
      PROVE  SumOver(c, E) = SumOver(e, D) - SumOver(e, gone)
  <2>1. SumOver(e, D) = SumOver(e, gone) + SumOver(e, D \ gone)
    BY <1>1, <1>4, SumSplits
  <2>2. SumOver(e, gone) \in Int /\ SumOver(e, D \ gone) \in Int
    BY <1>1, <1>4, SumSplits
  <2>3. SumOver(c, E) = SumOver(e, E)
    BY <1>2, <1>4, SumAgrees
  <2>4. QED
    BY <1>1, <2>1, <2>2, <2>3
<1>5. \A q \in D : Blk(f)[q] \in Int /\ Cpy(f)[q] \in Int
  BY BlkOK DEF Shaped
<1>6. \A q \in E : Blk(left)[q] = Blk(f)[q] /\ Cpy(left)[q] = Cpy(f)[q]
  BY <1>1, SameBlk
<1>7. BlockSum(left) = BlockSum(f) - SumOver(Blk(f), gone)
  BY <1>4, <1>5, <1>6 DEF BlockSum
<1>8. CopySum(left) = CopySum(f) - SumOver(Cpy(f), gone)
  BY <1>4, <1>5, <1>6 DEF CopySum
<1>9. Firsts(left) = {m \in Firsts(f) : \E q \in DOMAIN left : q[1] = m}
  BY <1>1 DEF Firsts
<1>10. \A q \in E : Below(left, q) = Below(f, q) \ gone
  BY <1>1 DEF Below
<1>11. ASSUME NEW q \in Childless(left), q \notin Childless(f) PROVE \E c \in orphaned : Parent(f, c) = q
  <2>1. q \in E /\ Below(left, q) = {} /\ Below(f, q) # {}
    BY <1>1, <1>11 DEF Childless
  <2>2. PICK c \in Below(f, q) : Parent(f, c) = q
    BY <1>1, <2>1, ChildThere
  <2>3. c \in gone
    BY <1>10, <2>1, <2>2
  <2>4. QED
    BY <2>1, <2>2, <2>3
<1>12. \A q \in Childless(f) \ gone : q \in Childless(left)
  BY <1>1, <1>10 DEF Childless
<1>13. \A c \in orphaned : Parent(f, c) \in Childless(left)
  BY DEF Childless
<1>14. \A q \in Childless(left) : q \notin gone
  BY <1>1 DEF Childless
<1> HIDE DEF orphaned
<1>15. Childless(left) = (Childless(f) \ gone) \cup {Parent(f, q) : q \in orphaned}
  BY <1>11, <1>12, <1>13, <1>14
<1>16. QED
  BY <1>2, <1>3, <1>7, <1>8, <1>9, <1>15 DEF Lessened, orphaned

----------------------------------------------------------------------------
(* A backend is dropped. *)

\* g is f without the marks of s, mine being the runs that had one.
Cleared(f, g, s, mine) ==
  /\ Shaped(g) /\ DOMAIN g = DOMAIN f
  /\ \A q \in DOMAIN f : /\ g[q].from = f[q].from /\ g[q].age = f[q].age
                         /\ g[q].marks = f[q].marks \ {s}
  /\ \A x : Cover(g, x) = Cover(f, x)
  /\ BlockSum(g) = BlockSum(f) /\ CopySum(g) = CopySum(f) - SumOver(Blk(f), mine)
  /\ BlockSum(f) \in Int /\ CopySum(f) \in Int /\ SumOver(Blk(f), mine) \in Int
  /\ Childless(g) = Childless(f) /\ Firsts(g) = Firsts(f)
  /\ mine \subseteq DOMAIN f /\ IsFiniteSet(mine)

\* Clearing s takes its copy of every run it holds.
LEMMA ClearedOK ==
  ASSUME NEW f, Shaped(f), NEW s, NEW g, g = [q \in DOMAIN f |-> [f[q] EXCEPT !.marks = @ \ {s}]]
  PROVE  Cleared(f, g, s, {q \in DOMAIN f : s \in f[q].marks})
<1> DEFINE D == DOMAIN f
           mine == {q \in D : s \in f[q].marks}
           e == [q \in D |-> IF q \in mine THEN Blk(f)[q] ELSE 0]
<1>1. /\ IsFiniteSet(D) /\ Pieces(f)
      /\ \A q \in D : f[q] \in RunRecord /\ IsFiniteSet(f[q].marks)
  BY DEF Shaped, Pieces
<1>2. /\ DOMAIN g = D
      /\ \A q \in D : /\ g[q].from = f[q].from /\ g[q].age = f[q].age
                      /\ g[q].marks = f[q].marks \ {s} /\ g[q] \in RunRecord
  <2>1. ASSUME NEW q \in D
        PROVE  /\ g[q].from = f[q].from /\ g[q].age = f[q].age
               /\ g[q].marks = f[q].marks \ {s} /\ g[q] \in RunRecord
    <3>1. g[q] = [f[q] EXCEPT !.marks = f[q].marks \ {s}] /\ f[q] \in RunRecord
      BY <1>1
    <3>2. QED
      BY <3>1 DEF RunRecord
  <2>2. QED
    BY <2>1
<1>3. \A q \in D : IsFiniteSet(g[q].marks)
  BY <1>1, <1>2, FS_Subset
<1>4. Pieces(g) /\ Apart(g) /\ Rooted(g) /\ Fading(g)
  <2>1. Pieces(g)
    BY <1>1, <1>2, <1>3 DEF Pieces
  <2>2. Apart(g)
    BY <1>2, ZenonT(40) DEF Shaped, Apart
  <2>3. Rooted(g)
    BY <1>2 DEF Shaped, Rooted
  <2>4. Fading(g)
    <3>1. SUFFICES ASSUME NEW q \in D, NEW r \in D, Leads(q, r)
                   PROVE  g[r].marks \subseteq g[q].marks /\ g[q].age <= g[r].age
      BY <1>2 DEF Fading
    <3>2. f[r].marks \subseteq f[q].marks /\ f[q].age <= f[r].age
      BY <3>1 DEF Shaped, Fading
    <3>3. g[r].marks = f[r].marks \ {s} /\ g[q].marks = f[q].marks \ {s}
          /\ g[r].age = f[r].age /\ g[q].age = f[q].age
      BY <1>2
    <3>4. QED
      BY <3>2, <3>3
  <2>5. QED
    BY <2>1, <2>2, <2>3, <2>4
<1>5. \A x : Cover(g, x) = Cover(f, x)
  BY <1>2 DEF Cover
<1>6. Childless(g) = Childless(f) /\ Firsts(g) = Firsts(f)
  BY <1>2 DEF Childless, Firsts, Below
<1>7. \A r \in D : /\ Blk(f)[r] = Len(r) - f[r].from /\ Blk(f)[r] \in Int
                   /\ Cpy(f)[r] = Blk(f)[r] * Cardinality(f[r].marks)
                   /\ Cpy(f)[r] \in Int /\ Cardinality(f[r].marks) \in Nat
  BY <1>1, BlkOK
<1>8. \A r \in D : /\ Blk(g)[r] = Len(r) - g[r].from /\ Cpy(g)[r] \in Int
                   /\ Cpy(g)[r] = Blk(g)[r] * Cardinality(g[r].marks)
                   /\ Cardinality(g[r].marks) \in Nat
  BY <1>2, <1>4, BlkOK, ZenonT(40)
<1>9. \A r \in D : Blk(g)[r] = Blk(f)[r]
  BY <1>2, <1>7, <1>8, ZenonT(40)
<1>10. mine \subseteq D /\ IsFiniteSet(mine)
  BY <1>1, FS_Subset
<1>11. ASSUME NEW r \in D PROVE e[r] \in Int /\ Cpy(f)[r] = Cpy(g)[r] + e[r]
  <2>1. CASE r \in mine
    <3>1. Cardinality(g[r].marks) = Cardinality(f[r].marks) - 1
      BY <1>1, <1>2, <2>1, FS_RemoveElement
    <3>2. \A a \in Int, c \in Int : a * c = a * (c - 1) + a
      OBVIOUS
    <3>3. Cpy(g)[r] = Blk(f)[r] * (Cardinality(f[r].marks) - 1)
      BY <1>8, <1>9, <3>1
    <3>4. QED
      BY <1>7, <2>1, <3>2, <3>3
  <2>2. CASE r \notin mine
    <3>1. g[r].marks = f[r].marks
      <4>1. g[r].marks = f[r].marks \ {s} /\ s \notin f[r].marks
        BY <1>2, <2>2
      <4>2. QED
        BY <4>1
    <3>2. Cpy(g)[r] = Blk(f)[r] * Cardinality(f[r].marks)
      BY <1>8, <1>9, <3>1
    <3>3. e[r] = 0
      BY <2>2
    <3>4. QED
      BY <1>7, <3>2, <3>3
  <2>3. QED
    BY <2>1, <2>2
<1>12. (\A r \in D \ mine : e[r] = 0) /\ \A r \in mine : e[r] = Blk(f)[r]
  OBVIOUS
<1> HIDE DEF e, mine, D
<1>13. SumOver(Cpy(f), D) = SumOver(Cpy(g), D) + SumOver(e, D) /\ SumOver(Cpy(g), D) \in Int
       /\ SumOver(e, D) \in Int
  <2>1. \A x \in D : Cpy(g)[x] \in Int /\ e[x] \in Int /\ Cpy(f)[x] = Cpy(g)[x] + e[x]
    BY <1>8, <1>11
  <2>2. IsFiniteSet(D)
    BY <1>1
  <2>3. SumOver(Cpy(f), D) = SumOver(Cpy(g), D) + SumOver(e, D)
    BY <2>1, <2>2, SumAdds
  <2>4. (\A x \in D : Cpy(g)[x] \in Int) /\ \A x \in D : e[x] \in Int
    BY <2>1
  <2>5. SumOver(Cpy(g), D) \in Int
    BY <2>2, <2>4, SumSplits
  <2>6. SumOver(e, D) \in Int
    BY <2>2, <2>4, SumSplits
  <2>7. QED
    BY <2>3, <2>5, <2>6
<1>14. SumOver(e, D) = SumOver(e, mine)
  BY <1>1, <1>10, <1>11, <1>12, SumSkips
<1>15. SumOver(e, mine) = SumOver(Blk(f), mine)
  BY <1>10, <1>12, SumAgrees
<1>16. SumOver(Blk(g), D) = SumOver(Blk(f), D)
  BY <1>1, <1>9, SumAgrees
<1>17. SumOver(Blk(f), D) \in Int
  BY <1>1, <1>7, SumSplits
<1>18. /\ BlockSum(g) = BlockSum(f) /\ CopySum(g) = CopySum(f) - SumOver(Blk(f), mine)
       /\ BlockSum(f) \in Int /\ CopySum(f) \in Int /\ SumOver(Blk(f), mine) \in Int
  BY <1>2, <1>13, <1>14, <1>15, <1>16, <1>17 DEF BlockSum, CopySum, D
<1>19. QED
  BY <1>2, <1>4, <1>5, <1>6, <1>10, <1>18 DEF Shaped, Cleared, D, mine

\* What nobody holds any more goes, and it is all that goes.
LEMMA OrphansOK ==
  ASSUME NEW f, Shaped(f), NEW left, left = [q \in DOMAIN f \ Orphans(f) |-> f[q]]
  PROVE  /\ Kept(f, left) /\ Orphans(f) \subseteq DOMAIN f /\ DOMAIN left = DOMAIN f \ Orphans(f)
         /\ \A q \in DOMAIN f : q \in Orphans(f) <=> f[q].marks = {}
         /\ SumOver(Cpy(f), Orphans(f)) = 0
<1>1. Pieces(f) /\ IsFiniteSet(DOMAIN f) /\ \A q \in DOMAIN f : q \in Ways
  BY DEF Shaped, Pieces
<1>2. \A q \in DOMAIN f : Below(f, q) = {r \in DOMAIN f : Leads(q, r) /\ r # q}
  BY <1>1, BelowIs
<1>3. \A q \in DOMAIN f : q \in Orphans(f) <=> f[q].marks = {}
  BY <1>2 DEF Shaped, Fading, Orphans
<1>4. Orphans(f) \subseteq DOMAIN f
  BY DEF Orphans
<1>5. Kept(f, left) /\ DOMAIN left = DOMAIN f \ Orphans(f)
  <2>1. DOMAIN left = DOMAIN f \ Orphans(f) /\ \A q \in DOMAIN left : left[q] = f[q]
    OBVIOUS
  <2>2. \A q \in DOMAIN f, r \in DOMAIN f : Leads(q, r) /\ f[q].marks = {} => f[r].marks = {}
    BY DEF Shaped, Fading
  <2>3. QED
    BY <1>3, <2>1, <2>2 DEF Kept
<1>6. SumOver(Cpy(f), Orphans(f)) = 0
  <2>1. IsFiniteSet(Orphans(f))
    BY <1>1, <1>4, FS_Subset
  <2>2. \A q \in Orphans(f) : Cpy(f)[q] = 0
    <3>1. ASSUME NEW q \in Orphans(f) PROVE Cpy(f)[q] = 0
      <4>1. f[q].marks = {} /\ q \in DOMAIN f
        BY <1>3, <1>4
      <4>2. Cpy(f)[q] = Blk(f)[q] * Cardinality(f[q].marks) /\ Blk(f)[q] \in Int
        BY <1>1, <4>1, BlkOK
      <4>3. Cardinality(f[q].marks) = 0
        BY <4>1, FS_EmptySet
      <4>4. QED
        BY <4>2, <4>3
    <3>2. QED
      BY <3>1
  <2>3. QED
    BY <2>1, <2>2, SumOfZeros
<1>7. QED
  BY <1>3, <1>4, <1>5, <1>6

----------------------------------------------------------------------------
(* Time passes. *)

\* g is f one tick later.
Ticked(f, g) ==
  /\ Shaped(g) /\ DOMAIN g = DOMAIN f
  /\ \A q \in DOMAIN f : /\ g[q].from = f[q].from /\ g[q].marks = f[q].marks
                         /\ g[q].age = IF f[q].age > Ttl THEN f[q].age ELSE f[q].age + 1
  /\ \A x : Cover(g, x) = Cover(f, x)
  /\ SameBooks(f, g)

\* Time makes every run older that is not stale already, and changes nothing else.
LEMMA TickOK ==
  ASSUME NEW f, Shaped(f),
         NEW g, g = [q \in DOMAIN f |-> IF Stale(f, q) THEN f[q] ELSE [f[q] EXCEPT !.age = @ + 1]]
  PROVE  Ticked(f, g)
<1> DEFINE D == DOMAIN f
<1>1. /\ IsFiniteSet(D) /\ Pieces(f)
      /\ \A q \in D : f[q] \in RunRecord /\ f[q].age \in Nat
  BY TtlAssumption DEF Shaped, Pieces, RunRecord
<1>2. /\ DOMAIN g = D
      /\ \A q \in D : /\ g[q].from = f[q].from /\ g[q].marks = f[q].marks /\ g[q] \in RunRecord
                      /\ g[q].age = IF f[q].age > Ttl THEN f[q].age ELSE f[q].age + 1
  <2>1. ASSUME NEW q \in D
        PROVE  /\ g[q].from = f[q].from /\ g[q].marks = f[q].marks /\ g[q] \in RunRecord
               /\ g[q].age = IF f[q].age > Ttl THEN f[q].age ELSE f[q].age + 1
    <3>1. g[q] = (IF f[q].age > Ttl THEN f[q] ELSE [f[q] EXCEPT !.age = f[q].age + 1]) /\ f[q] \in RunRecord
      BY <1>1 DEF Stale
    <3>2. CASE f[q].age > Ttl
      BY <3>1, <3>2
    <3>3. CASE ~(f[q].age > Ttl)
      <4>1. f[q].age + 1 \in 0..Ttl + 1
        BY <1>1, <3>3, TtlAssumption
      <4>2. QED
        BY <3>1, <3>3, <4>1 DEF RunRecord
    <3>4. QED
      BY <3>2, <3>3
  <2>2. QED
    BY <2>1
<1>3. Pieces(g) /\ Apart(g) /\ Rooted(g) /\ Fading(g)
  <2>1. Pieces(g)
    BY <1>1, <1>2 DEF Pieces
  <2>2. Apart(g)
    BY <1>2 DEF Shaped, Apart
  <2>3. Rooted(g)
    BY <1>2 DEF Shaped, Rooted
  <2>4. Fading(g)
    <3>1. SUFFICES ASSUME NEW q \in D, NEW r \in D, Leads(q, r)
                   PROVE  g[r].marks \subseteq g[q].marks /\ g[q].age <= g[r].age
      BY <1>2 DEF Fading
    <3>2. f[r].marks \subseteq f[q].marks /\ f[q].age <= f[r].age
      BY <3>1 DEF Shaped, Fading
    <3>3. /\ g[r].marks = f[r].marks /\ g[q].marks = f[q].marks
          /\ f[r].age \in Nat /\ f[q].age \in Nat
          /\ g[r].age = IF f[r].age > Ttl THEN f[r].age ELSE f[r].age + 1
          /\ g[q].age = IF f[q].age > Ttl THEN f[q].age ELSE f[q].age + 1
      BY <1>1, <1>2
    <3>4. Ttl \in Nat /\ f[q].age \in 0..Ttl + 1
      BY TtlAssumption, <1>1 DEF RunRecord
    <3>5. g[q].age <= g[r].age
      BY <3>2, <3>3, <3>4
    <3>6. QED
      BY <3>2, <3>3, <3>5
  <2>5. QED
    BY <2>1, <2>2, <2>3, <2>4
<1>4. \A x : Cover(g, x) = Cover(f, x)
  BY <1>2 DEF Cover
<1>5. SameBooks(f, g)
  <2>1. Blk(g) = Blk(f) /\ Cpy(g) = Cpy(f)
    BY <1>2 DEF Blk, Cpy, BlocksOf
  <2>2. QED
    BY <1>2, <2>1 DEF SameBooks, BlockSum, CopySum, Childless, Firsts, Below
<1>6. QED
  BY <1>2, <1>3, <1>4, <1>5 DEF Shaped, Ticked

----------------------------------------------------------------------------
(* The sweep, as the fold of evictTail over the dead tails. *)

\* One step of the fold from base b.
Swept(b, it, s) == IF s = {} THEN b ELSE EvictTail(First(s), it[s \ {First(s)}])
SweptUpto(it, b, S, k) == \A s \in OfSize(S, k) : it[s] = Swept(b, it, s)

\* There is a function that follows the fold on the subsets of up to k elements.
LEMMA SweptExists ==
  ASSUME NEW b, NEW S, IsFiniteSet(S), NEW k \in Nat
  PROVE  \E it : SweptUpto(it, b, S, k)
<1> DEFINE bad == {n \in Nat : ~\E it : SweptUpto(it, b, S, n)}
<1> SUFFICES ASSUME bad # {} PROVE FALSE
  OBVIOUS
<1>1. bad \subseteq Nat
  OBVIOUS
<1>2. PICK n \in bad : \A m \in bad : n <= m
  BY <1>1, LeastNatural
<1>3. n \in Nat /\ ~\E it : SweptUpto(it, b, S, n)
  OBVIOUS
<1>4. CASE n = 0
  <2> DEFINE g == [s \in SUBSET S |-> b]
  <2>1. \A s \in OfSize(S, 0) : s = {}
    <3> SUFFICES ASSUME NEW s \in OfSize(S, 0) PROVE s = {}
      OBVIOUS
    <3>1. IsFiniteSet(s) /\ Cardinality(s) <= 0
      BY FS_Subset DEF OfSize
    <3>2. QED
      BY <3>1, FS_CardinalityType, FS_EmptySet
  <2>2. SweptUpto(g, b, S, 0)
    BY <2>1 DEF SweptUpto, Swept, OfSize
  <2>3. QED
    BY <1>3, <1>4, <2>2
<1>5. CASE n # 0
  <2>1. n - 1 \in Nat /\ ~(n <= n - 1)
    BY <1>3, <1>5
  <2>2. PICK g : SweptUpto(g, b, S, n - 1)
    BY <1>2, <2>1
  <2> DEFINE h == [s \in SUBSET S |-> Swept(b, g, s)]
  <2>3. ASSUME NEW s \in OfSize(S, n) PROVE h[s] = Swept(b, h, s)
    <3>1. s \in SUBSET S /\ h[s] = Swept(b, g, s)
      BY DEF OfSize
    <3>2. CASE s = {}
      BY <3>1, <3>2 DEF Swept
    <3>3. CASE s # {}
      <4> DEFINE t == s \ {First(s)}
      <4>1. IsFiniteSet(s) /\ Cardinality(s) <= n
        BY FS_Subset DEF OfSize
      <4>2. /\ Cardinality(t) \in Nat /\ Cardinality(s) \in Nat
            /\ Cardinality(t) = Cardinality(s) - 1
        BY <3>3, <4>1, Smaller
      <4>3. Cardinality(t) <= n - 1
        BY <1>3, <4>1, <4>2
      <4>4. t \in SUBSET S /\ t \in OfSize(S, n - 1)
        BY <3>1, <4>3 DEF OfSize
      <4>5. h[t] = g[t]
        BY <2>2, <4>4 DEF SweptUpto
      <4> HIDE DEF h
      <4>6. QED
        BY <3>1, <3>3, <4>5 DEF Swept
    <3>4. QED
      BY <3>2, <3>3
  <2>4. SweptUpto(h, b, S, n)
    BY <2>3 DEF SweptUpto
  <2>5. QED
    BY <1>3, <2>4
<1>6. QED
  BY <1>4, <1>5

\* The fold is the value on the whole set of a function that follows it.
LEMMA SweepFolds ==
  ASSUME NEW b, NEW S, IsFiniteSet(S)
  PROVE  \E it : (\A s \in SUBSET S : it[s] = Swept(b, it, s)) /\ FoldSet(EvictTail, b, S) = it[S]
<1> DEFINE k == Cardinality(S)
           K(it) == [s \in SUBSET S |-> IF s = {} THEN b ELSE EvictTail(First(s), it[s \ {First(s)}])]
           it0 == CHOOSE it : it = K(it)
<1>1. k \in Nat
  BY FS_CardinalityType
<1>2. PICK g : SweptUpto(g, b, S, k)
  BY <1>1, SweptExists
<1>3. OfSize(S, k) = SUBSET S
  BY FS_Subset DEF OfSize
<1> DEFINE h == [s \in SUBSET S |-> g[s]]
<1>4. ASSUME NEW s \in SUBSET S PROVE h[s] = Swept(b, h, s)
  <2>1. g[s] = Swept(b, g, s)
    BY <1>2, <1>3 DEF SweptUpto
  <2>2. h[s] = g[s] /\ h[s \ {First(s)}] = g[s \ {First(s)}]
    OBVIOUS
  <2> HIDE DEF h
  <2>3. QED
    BY <2>1, <2>2 DEF Swept
<1>5. h = K(h)
  BY <1>4 DEF Swept
<1>6. it0 = K(it0)
  <2> HIDE DEF h, K
  <2>1. QED
    BY <1>5
<1>7. \A s \in SUBSET S : it0[s] = Swept(b, it0, s)
  <2> HIDE DEF it0
  <2>1. QED
    BY <1>6 DEF Swept
<1>8. FoldSet(EvictTail, b, S) = it0[S]
  BY DEF FoldSet, MapThenFoldSet, First
<1>9. QED
  BY <1>7, <1>8

\* Evicting a tail keeps what is above what it keeps.
LEMMA EvictKeeps ==
  ASSUME NEW f, Shaped(f), NEW q
  PROVE  /\ Kept(f, EvictTail(q, f))
         /\ \A a \in DOMAIN f \ DOMAIN EvictTail(q, f) : a = q \/ Stale(f, a)
<1> DEFINE Stem(a) == {b \in DOMAIN f : b = a \/ IsAbove(a, b)}
           g == EvictTail(q, f)
<1>1. IsFiniteSet(DOMAIN f) /\ \A a \in DOMAIN f : a \in Ways
  BY DEF Shaped, Pieces
<1>2. \A a \in DOMAIN f : Stem(a) = {b \in DOMAIN f : Leads(a, b)}
  BY <1>1, AboveIsLeads
<1>3. CASE q \notin DOMAIN f
  <2>1. g = f
    BY <1>3 DEF EvictTail
  <2>2. QED
    BY <2>1 DEF Kept
<1>4. CASE q \in DOMAIN f
  <2>1. g = [r \in DOMAIN f \ Chain(f, q) |-> f[r]]
    BY <1>4 DEF EvictTail
  <2> HIDE DEF g
  <2>2. Chain(f, q) = {a \in DOMAIN f :
           /\ a = q \/ IsAbove(a, q)
           /\ \A b \in Stem(a) : b = q \/ (IsAbove(b, q) /\ Stale(f, b))
           /\ Cardinality(Stem(a)) <= MaxCascade}
    BY DEF Chain
  <2>3. ASSUME NEW a \in Chain(f, q), NEW b \in DOMAIN f, Leads(a, b) PROVE b \in Chain(f, q)
    <3>1. a \in DOMAIN f /\ b \in Stem(a)
      BY <1>2, <2>2, <2>3
    <3>2. Stem(b) \subseteq Stem(a)
      <4>1. \A c \in DOMAIN f : Leads(b, c) => Leads(a, c)
        BY <1>1, <2>3, <3>1, LeadsOrder
      <4> HIDE DEF Stem
      <4>2. QED
        BY <1>2, <3>1, <4>1
    <3>3. IsFiniteSet(Stem(a))
      BY <1>1, FS_Subset
    <3>4. Cardinality(Stem(b)) <= MaxCascade
      <4>1. Cardinality(Stem(b)) <= Cardinality(Stem(a)) /\ IsFiniteSet(Stem(b))
        BY <3>2, <3>3, FS_Subset
      <4>2. Cardinality(Stem(b)) \in Nat /\ Cardinality(Stem(a)) \in Nat
        BY <3>3, <4>1, FS_CardinalityType
      <4>3. Cardinality(Stem(a)) <= MaxCascade
        BY <2>2, <2>3
      <4> HIDE DEF Stem
      <4>4. QED
        BY <4>1, <4>2, <4>3, TtlAssumption
    <3>5. \A c \in Stem(a) : c = q \/ (IsAbove(c, q) /\ Stale(f, c))
      BY <2>2, <2>3
    <3> HIDE DEF Stem
    <3>6. QED
      BY <2>2, <3>1, <3>2, <3>4, <3>5
  <2>4. Kept(f, g)
    BY <2>1, <2>3 DEF Kept
  <2>5. \A a \in Chain(f, q) : a = q \/ Stale(f, a)
    BY <2>2
  <2>6. QED
    BY <2>1, <2>4, <2>5 DEF g
<1>5. QED
  BY <1>3, <1>4

\* Keeping is transitive.
LEMMA KeptTwice ==
  ASSUME NEW f, NEW g, NEW h, Kept(f, g), Kept(g, h)
  PROVE  Kept(f, h)
BY DEF Kept

\* What the sweep keeps.
LEMMA SweepKeeps ==
  ASSUME NEW f, Shaped(f), NEW S, IsFiniteSet(S), S \subseteq {q \in DOMAIN f : Stale(f, q)}
  PROVE  /\ Kept(f, FoldSet(EvictTail, f, S))
         /\ \A a \in DOMAIN f \ DOMAIN FoldSet(EvictTail, f, S) : Stale(f, a)
<1>1. PICK it : (\A s \in SUBSET S : it[s] = Swept(f, it, s)) /\ FoldSet(EvictTail, f, S) = it[S]
  BY SweepFolds
<1> DEFINE Fine(g) == Kept(f, g) /\ \A a \in DOMAIN f \ DOMAIN g : Stale(f, a)
           Good == {s \in SUBSET S : Fine(it[s])}
<1>2. {} \in Good
  <2>1. it[{}] = f
    BY <1>1 DEF Swept
  <2>2. QED
    BY <2>1 DEF Kept
<1>3. ASSUME NEW s \in SUBSET S, s # {}, s \ {First(s)} \in Good PROVE s \in Good
  <2> DEFINE x == First(s)
             g == it[s \ {x}]
             h == EvictTail(x, g)
  <2>1. it[s] = h
    BY <1>1, <1>3 DEF Swept
  <2>2. Fine(g)
    BY <1>3
  <2>3. x \in S /\ Stale(f, x)
    BY <1>3 DEF First
  <2> HIDE DEF x, g
  <2>4. Shaped(g)
    BY <2>2, KeptShaped
  <2>5. Kept(g, h) /\ \A a \in DOMAIN g \ DOMAIN h : a = x \/ Stale(g, a)
    BY <2>4, EvictKeeps
  <2> HIDE DEF h
  <2>6. Kept(f, h)
    BY <2>2, <2>5, KeptTwice
  <2>7. \A a \in DOMAIN f \ DOMAIN h : Stale(f, a)
    BY <2>2, <2>3, <2>5 DEF Kept, Stale
  <2>8. QED
    BY <2>1, <2>6, <2>7
<1> HIDE DEF Good
<1>4. S \in Good
  BY <1>2, <1>3, SubsetInduction
<1>5. QED
  BY <1>1, <1>4 DEF Good

----------------------------------------------------------------------------
(* The inductive invariant: a well-formed forest whose every run has a      *)
(* holder, and running totals that are those of the forest.                 *)

Counted ==
  /\ runs = Cardinality(DOMAIN run)
  /\ blocks = BlockSum(run) /\ copies = CopySum(run)
  /\ tails = Childless(run) /\ roots = Firsts(run)

TreeInv == Shaped(run) /\ Held(run) /\ Counted

\* The forest as it is before and after a step, as a table of prefixes.
LEMMA InvNumbers ==
  ASSUME NEW f, Shaped(f)
  PROVE  Cardinality(DOMAIN f) \in Nat /\ BlockSum(f) \in Int /\ CopySum(f) \in Int
<1>1. /\ IsFiniteSet(DOMAIN f)
      /\ (\A q \in DOMAIN f : Blk(f)[q] \in Int) /\ \A q \in DOMAIN f : Cpy(f)[q] \in Int
  BY BlkOK DEF Shaped
<1>2. BlockSum(f) \in Int
  BY <1>1, SumSplits DEF BlockSum
<1>3. CopySum(f) \in Int
  BY <1>1, SumSplits DEF CopySum
<1>4. QED
  BY <1>1, <1>2, <1>3, FS_CardinalityType

\* An empty shard.
LEMMA InitInv == TreeInit => TreeInv
<1> SUFFICES ASSUME TreeInit PROVE TreeInv
  OBVIOUS
<1>1. DOMAIN run = {} /\ IsFiniteSet({}) /\ Cardinality({}) = 0
  BY FS_EmptySet DEF TreeInit
<1>2. Shaped(run)
  <2>1. Pieces(run)
    BY <1>1 DEF Pieces
  <2>2. Apart(run) /\ Rooted(run) /\ Fading(run)
    BY <1>1 DEF Apart, Rooted, Fading
  <2>3. QED
    BY <2>1, <2>2 DEF Shaped
<1>3. BlockSum(run) = 0 /\ CopySum(run) = 0
  BY <1>1, SumOfNone DEF BlockSum, CopySum
<1>4. Childless(run) = {} /\ Firsts(run) = {}
  BY <1>1 DEF Childless, Firsts
<1>5. QED
  BY <1>1, <1>2, <1>3, <1>4 DEF TreeInit, TreeInv, Held, Counted

\* A commit keeps the books (tree.go, commit and splitRun).
LEMMA CommitInv ==
  ASSUME TreeInv, NEW p \in Paths, NEW s \in Slots, Commit(p, s)
  PROVE  TreeInv' /\ Served(run, run', p, s)
<1> DEFINE cut == Cut(run, p)
           on == Marked(cut, p, s)
           all == Grown(on, p, s)
           d == Depth(on, p)
           tip == Upto(p, d)
           new == {q \in Visited(cut, p) : s \notin cut[q].marks}
<1>1. Committed(run, all, cut, on, p, s, d, tip, new)
  BY CommitOK DEF TreeInv
<1>2. /\ run' = all /\ roots' = roots \cup {p[1]}
      /\ tails' = IF tip = p THEN tails ELSE (tails \ {tip}) \cup {p}
      /\ runs' = runs + (Cardinality(DOMAIN cut) - Cardinality(DOMAIN run))
                      + (Cardinality(DOMAIN all) - Cardinality(DOMAIN on))
      /\ blocks' = blocks + (Len(p) - d)
      /\ copies' = copies + (Len(p) - d) + MapThenSumSet(LAMBDA q : BlocksOf(cut, q), new)
  BY DEF Commit, GrownTails
<1>3. MapThenSumSet(LAMBDA q : BlocksOf(cut, q), new) = SumOver(Blk(cut), new)
  <2>1. new \subseteq DOMAIN cut /\ IsFiniteSet(new)
    BY <1>1 DEF Committed
  <2> HIDE DEF cut, new
  <2>2. QED
    BY <2>1, BlocksTotal
<1> HIDE DEF cut, on, all, d, tip, new
<1>4. /\ Shaped(all) /\ Held(all) /\ Served(run, all, p, s)
      /\ DOMAIN on = DOMAIN cut /\ Shaped(cut)
      /\ BlockSum(all) = BlockSum(run) + (Len(p) - d)
      /\ CopySum(all) = CopySum(run) + (Len(p) - d) + SumOver(Blk(cut), new)
      /\ Childless(all) = IF tip = p THEN Childless(run) ELSE (Childless(run) \ {tip}) \cup {p}
      /\ Firsts(all) = Firsts(run) \cup {p[1]}
  BY <1>1 DEF Committed, TreeInv
<1>5. /\ runs = Cardinality(DOMAIN run) /\ blocks = BlockSum(run) /\ copies = CopySum(run)
      /\ tails = Childless(run) /\ roots = Firsts(run) /\ Shaped(run)
  BY DEF TreeInv, Counted
<1>6. runs' = Cardinality(DOMAIN all)
  <2>1. /\ Cardinality(DOMAIN run) \in Nat /\ Cardinality(DOMAIN cut) \in Nat
        /\ Cardinality(DOMAIN all) \in Nat
    BY <1>4, <1>5, InvNumbers
  <2>2. QED
    BY <1>2, <1>4, <1>5, <2>1
<1>7. /\ blocks' = BlockSum(all) /\ copies' = CopySum(all)
      /\ tails' = Childless(all) /\ roots' = Firsts(all)
  BY <1>2, <1>3, <1>4, <1>5
<1>8. TreeInv'
  BY <1>2, <1>4, <1>6, <1>7 DEF TreeInv, Counted
<1>9. QED
  BY <1>2, <1>4, <1>8

\* unlinkRun keeps the books of the forest f it works on.
LEMMA UnlinkInv ==
  ASSUME NEW f, Shaped(f), NEW gone, gone \subseteq DOMAIN f, Unlinked(f, gone),
         NEW left, left = [q \in DOMAIN f \ gone |-> f[q]], Kept(f, left),
         runs = Cardinality(DOMAIN f), blocks = BlockSum(f),
         tails = Childless(f), roots = Firsts(f)
  PROVE  /\ run' = left /\ runs' = Cardinality(DOMAIN left) /\ blocks' = BlockSum(left)
         /\ tails' = Childless(left) /\ roots' = Firsts(left)
         /\ CopySum(left) = CopySum(f) - SumOver(Cpy(f), gone) /\ IsFiniteSet(gone)
<1>1. DOMAIN left = DOMAIN f \ gone
  OBVIOUS
<1>2. /\ run' = left
      /\ roots' = {m \in roots : \E q \in DOMAIN left : q[1] = m}
      /\ tails' = (tails \ gone) \cup
              {Parent(f, q) : q \in {r \in gone : /\ Parent(f, r) \in DOMAIN left
                                                  /\ Below(left, Parent(f, r)) = {}}}
      /\ runs' = runs - Cardinality(gone)
      /\ blocks' = blocks - MapThenSumSet(LAMBDA q : BlocksOf(f, q), gone)
  BY DEF Unlinked
<1>3. Lessened(f, left, gone)
  BY <1>1, UnlinkedOK
<1>4. MapThenSumSet(LAMBDA q : BlocksOf(f, q), gone) = SumOver(Blk(f), gone)
  BY <1>3, BlocksTotal DEF Lessened
<1>5. QED
  BY <1>2, <1>3, <1>4 DEF Lessened

\* What is left of f has the holders of f.
LEMMA KeptHeld ==
  ASSUME NEW f, Held(f), NEW left, Kept(f, left)
  PROVE  Held(left)
BY DEF Held, Kept

\* dropBackend keeps the books.
LEMMA ClearInv ==
  ASSUME TreeInv, NEW s, Clear(s)
  PROVE  TreeInv'
<1> DEFINE f == [q \in DOMAIN run |-> [run[q] EXCEPT !.marks = @ \ {s}]]
           gone == Orphans(f)
           left == [q \in DOMAIN f \ gone |-> f[q]]
           mine == {q \in DOMAIN run : s \in run[q].marks}
<1>1. /\ Unlinked(f, gone)
      /\ copies' = copies - MapThenSumSet(LAMBDA q : BlocksOf(run, q), mine)
  BY DEF Clear
<1>2. /\ Shaped(f) /\ DOMAIN f = DOMAIN run
      /\ BlockSum(f) = BlockSum(run) /\ CopySum(f) = CopySum(run) - SumOver(Blk(run), mine)
      /\ BlockSum(run) \in Int /\ CopySum(run) \in Int /\ SumOver(Blk(run), mine) \in Int
      /\ Childless(f) = Childless(run) /\ Firsts(f) = Firsts(run)
      /\ mine \subseteq DOMAIN run /\ IsFiniteSet(mine)
  <2>1. Cleared(run, f, s, mine)
    BY ClearedOK DEF TreeInv
  <2>2. QED
    BY <2>1 DEF Cleared
<1> HIDE DEF f, mine
<1>3. /\ Kept(f, left) /\ gone \subseteq DOMAIN f /\ DOMAIN left = DOMAIN f \ gone
      /\ \A q \in DOMAIN f : q \in gone <=> f[q].marks = {}
      /\ SumOver(Cpy(f), gone) = 0
  BY <1>2, OrphansOK
<1>4. /\ runs = Cardinality(DOMAIN f) /\ blocks = BlockSum(f)
      /\ tails = Childless(f) /\ roots = Firsts(f)
  BY <1>2 DEF TreeInv, Counted
<1>5. left = [q \in DOMAIN f \ gone |-> f[q]]
  OBVIOUS
<1> HIDE DEF gone, left
<1>6. /\ run' = left /\ runs' = Cardinality(DOMAIN left) /\ blocks' = BlockSum(left)
      /\ tails' = Childless(left) /\ roots' = Firsts(left)
      /\ CopySum(left) = CopySum(f) - SumOver(Cpy(f), gone)
  BY <1>1, <1>2, <1>3, <1>4, <1>5, UnlinkInv
<1>7. copies' = CopySum(left)
  <2>1. MapThenSumSet(LAMBDA q : BlocksOf(run, q), mine) = SumOver(Blk(run), mine)
    BY <1>2, BlocksTotal
  <2>2. copies = CopySum(run)
    BY DEF TreeInv, Counted
  <2>3. QED
    BY <1>1, <1>2, <1>3, <1>6, <2>1, <2>2
<1>8. Shaped(left) /\ Held(left)
  <2>1. Shaped(left)
    BY <1>2, <1>3, KeptShaped
  <2>2. Held(left)
    BY <1>3 DEF Held, Kept
  <2>3. QED
    BY <2>1, <2>2
<1>9. QED
  BY <1>6, <1>7, <1>8 DEF TreeInv, Counted

\* Time changes no total.
LEMMA TickInv ==
  ASSUME TreeInv, Tick
  PROVE  TreeInv'
<1>1. /\ run' = [q \in DOMAIN run |-> IF Stale(run, q) THEN run[q] ELSE [run[q] EXCEPT !.age = @ + 1]]
      /\ UNCHANGED << roots, tails, runs, blocks, copies >>
  BY DEF Tick
<1>2. /\ Shaped(run') /\ DOMAIN run' = DOMAIN run /\ SameBooks(run, run')
      /\ \A q \in DOMAIN run : run'[q].marks = run[q].marks
  <2>1. Ticked(run, run')
    BY <1>1, TickOK DEF TreeInv
  <2>2. QED
    BY <2>1 DEF Ticked
<1>3. QED
  BY <1>1, <1>2 DEF TreeInv, Counted, Held, SameBooks

\* A sweep keeps the books, however far its cascades go.
LEMMA SweepInv ==
  ASSUME TreeInv, Sweep
  PROVE  TreeInv'
<1> DEFINE dead == {q \in tails : Stale(run, q)}
           kept == FoldSet(EvictTail, run, dead)
           gone == DOMAIN run \ DOMAIN kept
           left == [q \in DOMAIN run \ gone |-> run[q]]
<1>1. Unlinked(run, gone) /\ copies' = copies - CopiesOf(run, gone)
  BY DEF Sweep
<1>2. Shaped(run) /\ Held(run) /\ Counted
  BY DEF TreeInv
<1>3. IsFiniteSet(dead) /\ dead \subseteq {q \in DOMAIN run : Stale(run, q)}
  <2>1. tails \subseteq DOMAIN run /\ IsFiniteSet(DOMAIN run)
    BY <1>2 DEF Counted, Childless, Shaped, Pieces
  <2>2. QED
    BY <2>1, FS_Subset
<1> HIDE DEF dead
<1>4. Kept(run, kept)
  BY <1>2, <1>3, SweepKeeps
<1> HIDE DEF kept
<1>5. gone \subseteq DOMAIN run /\ DOMAIN left = DOMAIN kept /\ Kept(run, left)
  BY <1>4 DEF Kept
<1>6. left = [q \in DOMAIN run \ gone |-> run[q]]
  OBVIOUS
<1> HIDE DEF gone, left
<1>7. /\ run' = left /\ runs' = Cardinality(DOMAIN left) /\ blocks' = BlockSum(left)
      /\ tails' = Childless(left) /\ roots' = Firsts(left)
      /\ CopySum(left) = CopySum(run) - SumOver(Cpy(run), gone) /\ IsFiniteSet(gone)
  BY <1>1, <1>2, <1>5, <1>6, UnlinkInv DEF Counted
<1>8. copies' = CopySum(left)
  <2>1. CopiesOf(run, gone) = SumOver(Cpy(run), gone)
    BY <1>5, <1>7, CopiesTotal
  <2>2. QED
    BY <1>1, <1>2, <1>7, <2>1 DEF Counted
<1>9. Shaped(left) /\ Held(left)
  BY <1>2, <1>5, KeptShaped, KeptHeld
<1>10. QED
  BY <1>7, <1>8, <1>9 DEF TreeInv, Counted

\* The invariant is inductive: one lemma per operation.
LEMMA TreeInvStep == TreeInv /\ [TreeNext]_treeVars => TreeInv'
<1> SUFFICES ASSUME TreeInv, [TreeNext]_treeVars PROVE TreeInv'
  OBVIOUS
<1>1. CASE UNCHANGED treeVars
  BY <1>1 DEF treeVars, TreeInv, Counted
<1>2. ASSUME NEW s \in Slots, Clear(s) PROVE TreeInv'
  BY <1>2, ClearInv
<1>3. ASSUME NEW s \in Slots, NEW p \in Paths, Commit(p, s) PROVE TreeInv'
  BY <1>3, CommitInv
<1>4. CASE Sweep
  BY <1>4, SweepInv
<1>5. CASE Tick
  BY <1>5, TickInv
<1>6. QED
  BY <1>1, <1>2, <1>3, <1>4, <1>5 DEF TreeNext

\* The totals of the property are those of the invariant.
LEMMA InvTotals == TreeInv => TotalsExact
<1> SUFFICES ASSUME TreeInv PROVE TotalsExact
  OBVIOUS
<1>1. IsFiniteSet(DOMAIN run) /\ Counted
  BY DEF TreeInv, Shaped, Pieces
<1>2. MapThenSumSet(LAMBDA q : BlocksOf(run, q), DOMAIN run) = SumOver(Blk(run), DOMAIN run)
  BY <1>1, BlocksTotal
<1>3. CopiesOf(run, DOMAIN run) = SumOver(Cpy(run), DOMAIN run)
  BY <1>1, CopiesTotal
<1>4. QED
  BY <1>1, <1>2, <1>3 DEF TotalsExact, Counted, BlockSum, CopySum, Childless, Firsts

----------------------------------------------------------------------------
(* Walking a path. *)

\* How many of p's elements a holder in S is known for.
HeldUpto(p, S) == {k \in 2..Len(p) : Holders[Upto(p, k)] \cap S # {}}

\* The deepest of the visited runs with a holder in S is the run of the deepest
\* prefix with one.
Anchor(p, S, A, q) ==
  /\ q \in A /\ q \in Visited(run, p) /\ Agree(q, p) \in 2..Len(p)
  /\ \A r \in A : Agree(r, p) <= Agree(q, p)
  /\ Max(HeldUpto(p, S)) = Agree(q, p)
  /\ Holders[Upto(p, Agree(q, p))] = run[q].marks

\* The table's entry for a prefix of a path.
LEMMA HoldersIs ==
  ASSUME NEW p \in Paths, NEW k \in 2..Len(p)
  PROVE  Holders[Upto(p, k)] = HoldersOf(run, Upto(p, k))
<1>1. p \in Ways /\ Len(p) \in Nat
  BY PathOK
<1>2. Upto(p, k) \in Ways /\ Len(Upto(p, k)) = k /\ Leads(Upto(p, k), p)
  BY <1>1, UptoOK
<1>3. Upto(p, k) \in Names
  BY <1>2, NameOK
<1>4. QED
  BY <1>3 DEF Holders

\* The deepest visited run with a holder in S is the deepest prefix S holds anything of
\* (walk, tree.go:324-367): holders only leave downwards, and runs do not overlap.
LEMMA AnchorOK ==
  ASSUME Shaped(run), NEW p \in Paths, NEW S
  PROVE  LET A == Anchored(p, S) IN
         /\ A = {} <=> HeldUpto(p, S) = {}
         /\ A # {} => Anchor(p, S, A, Deepest(A))
<1> DEFINE A == Anchored(p, S)
           H == HeldUpto(p, S)
<1>1. p \in Ways /\ Len(p) \in Nat /\ Len(p) >= 2 /\ Pieces(run)
  BY PathOK DEF Shaped
<1>2. A \subseteq Visited(run, p) /\ \A q \in Visited(run, p) : q \in A <=> run[q].marks \cap S # {}
  BY DEF Anchored
<1>3. \A q \in Visited(run, p) :
         /\ q \in DOMAIN run /\ q \in Ways /\ Len(q) \in Nat
         /\ run[q].from \in Nat /\ run[q].from >= 1 /\ run[q].from < Agree(q, p)
         /\ Agree(q, p) \in 2..Len(p)
  <2>1. ASSUME NEW q \in Visited(run, p)
        PROVE  /\ q \in DOMAIN run /\ q \in Ways /\ Len(q) \in Nat
               /\ run[q].from \in Nat /\ run[q].from >= 1 /\ run[q].from < Agree(q, p)
               /\ Agree(q, p) \in 2..Len(p)
    <3>1. q \in DOMAIN run /\ run[q].from < Agree(q, p)
      BY <1>1, VisitedOK
    <3>2. q \in Ways /\ Len(q) \in Nat /\ run[q].from \in Nat /\ run[q].from >= 1
      BY <1>1, <3>1, LeadsOrder DEF Pieces, RunRecord
    <3>3. Agree(q, p) \in 0..Len(p)
      BY <1>1, <3>2, AgreeOK
    <3>4. QED
      BY <1>1, <3>1, <3>2, <3>3
  <2>2. QED
    BY <2>1
\* A visited run says what is held as far as it agrees.
<1>4. ASSUME NEW q \in Visited(run, p), NEW k \in 2..Len(p), run[q].from < k, k <= Agree(q, p)
      PROVE  Holders[Upto(p, k)] = run[q].marks /\ Cover(run, Upto(p, k)) = {q}
  <2>1. k \in 1..Len(p) /\ Upto(p, k) \in Ways
    BY <1>1, UptoOK
  <2>2. q \in Cover(run, Upto(p, k))
    BY <1>1, <1>4, <2>1, CoverVisited
  <2>3. QED
    BY <2>1, <2>2, CoverSays, CoverOne, HoldersIs
<1>5. ASSUME NEW k \in H
      PROVE  k \in 2..Len(p) /\ \E q \in A : run[q].from < k /\ k <= Agree(q, p)
  <2>1. k \in 2..Len(p) /\ Holders[Upto(p, k)] \cap S # {}
    BY DEF HeldUpto
  <2>2. k \in 1..Len(p) /\ Upto(p, k) \in Ways
    BY <1>1, <2>1, UptoOK
  <2>3. HoldersOf(run, Upto(p, k)) \cap S # {}
    BY <2>1, HoldersIs
  <2>4. Cover(run, Upto(p, k)) # {}
    BY <2>2, <2>3, CoverSays
  <2>5. PICK q \in Cover(run, Upto(p, k)) : TRUE
    BY <2>4
  <2>6. q \in Visited(run, p) /\ run[q].from < k /\ k <= Agree(q, p)
    BY <1>1, <2>2, <2>5, CoverVisited
  <2>7. run[q].marks \cap S # {}
    BY <2>2, <2>3, <2>5, CoverSays
  <2>8. QED
    BY <1>2, <2>1, <2>6, <2>7
<1>6. ASSUME NEW q \in A PROVE Agree(q, p) \in H /\ Agree(q, p) \in 2..Len(p)
  <2>1. q \in Visited(run, p) /\ run[q].marks \cap S # {} /\ Agree(q, p) \in 2..Len(p)
    BY <1>2, <1>3
  <2>2. Agree(q, p) <= Agree(q, p) /\ run[q].from < Agree(q, p)
    BY <1>3, <2>1
  <2>3. Holders[Upto(p, Agree(q, p))] = run[q].marks
    BY <1>4, <2>1, <2>2
  <2>4. QED
    BY <2>1, <2>3 DEF HeldUpto
<1> HIDE DEF A, H
<1>7. ASSUME A # {} PROVE Anchor(p, S, A, Deepest(A))
  <2> DEFINE K == {Agree(q, p) : q \in A}
  <2>1. K \subseteq Nat /\ K # {} /\ \A k \in K : k <= Len(p)
    <3>1. \A q \in A : Agree(q, p) \in Nat /\ Agree(q, p) <= Len(p)
      BY <1>1, <1>6
    <3>2. QED
      BY <3>1, <1>7
  <2>2. Max(K) \in K /\ \A k \in K : k <= Max(K)
    BY <1>1, <2>1, BoundedMax
  <2>3. PICK w \in A : Agree(w, p) = Max(K)
    BY <2>2
  <2>4. \A q \in A : Agree(q, p) <= Agree(w, p)
    BY <2>2, <2>3
  <2> HIDE DEF K
  <2>5. ASSUME NEW r \in A PROVE Len(r) <= Len(w)
    <3>1. r \in Visited(run, p) /\ w \in Visited(run, p) /\ Len(r) \in Nat /\ Len(w) \in Nat
          /\ Agree(r, p) \in 2..Len(p) /\ Agree(w, p) \in 2..Len(p)
          /\ run[r].from < Agree(r, p) /\ run[w].from < Agree(w, p)
      BY <1>2, <1>3
    <3>2. CASE Agree(r, p) < Agree(w, p)
      BY <1>1, <3>1, <3>2, OneTorn
    <3>3. CASE Agree(r, p) = Agree(w, p)
      <4>1. Cover(run, Upto(p, Agree(w, p))) = {w}
        BY <1>4, <3>1
      <4>2. Cover(run, Upto(p, Agree(r, p))) = {r}
        BY <1>4, <3>1
      <4>3. r = w
        BY <3>3, <4>1, <4>2
      <4>4. QED
        BY <3>1, <4>3
    <3>4. QED
      BY <2>4, <3>1, <3>2, <3>3
  <2> DEFINE q == Deepest(A)
  <2>6. q \in A /\ \A r \in A : Len(r) <= Len(q)
    BY <2>5 DEF Deepest
  <2> HIDE DEF q
  <2>7. ASSUME NEW r \in A PROVE Agree(r, p) <= Agree(q, p)
    <3>1. r \in Visited(run, p) /\ q \in Visited(run, p) /\ Len(r) \in Nat /\ Len(q) \in Nat
          /\ Agree(r, p) \in Nat /\ Agree(q, p) \in Nat /\ Len(r) <= Len(q)
      BY <1>2, <1>3, <2>6
    <3>2. SUFFICES ASSUME Agree(q, p) < Agree(r, p) PROVE FALSE
      BY <3>1
    <3>3. Len(q) < Len(r)
      BY <1>1, <3>1, <3>2, OneTorn
    <3>4. QED
      BY <3>1, <3>3
  <2>8. q \in Visited(run, p) /\ Agree(q, p) \in 2..Len(p) /\ Agree(q, p) \in H /\ run[q].from < Agree(q, p)
    BY <1>2, <1>3, <1>6, <2>6
  <2>9. Max(H) = Agree(q, p)
    <3>1. \A k \in H : k \in Nat /\ k <= Agree(q, p)
      <4>1. ASSUME NEW k \in H PROVE k \in Nat /\ k <= Agree(q, p)
        <5>1. k \in 2..Len(p) /\ \E r \in A : run[r].from < k /\ k <= Agree(r, p)
          BY <1>5
        <5>2. PICK r \in A : k <= Agree(r, p)
          BY <5>1
        <5>3. Agree(r, p) <= Agree(q, p) /\ Agree(r, p) \in 2..Len(p)
          BY <1>6, <2>7
        <5>4. QED
          BY <1>1, <2>8, <5>1, <5>2, <5>3
      <4>2. QED
        BY <4>1
    <3>2. H \subseteq Nat /\ H # {} /\ Agree(q, p) \in Nat
      BY <1>1, <2>8, <3>1
    <3>3. Max(H) \in H /\ \A k \in H : k <= Max(H)
      BY <3>1, <3>2, BoundedMax
    <3>4. Max(H) \in Nat /\ Max(H) <= Agree(q, p)
      BY <3>1, <3>3
    <3>5. Agree(q, p) <= Max(H)
      BY <2>8, <3>3
    <3> DEFINE m == Max(H)
               a == Agree(q, p)
    <3>6. m \in Nat /\ a \in Nat /\ m <= a /\ a <= m
      BY <3>2, <3>4, <3>5
    <3> HIDE DEF m, a
    <3>7. m = a
      BY <3>6
    <3>8. QED
      BY <3>7 DEF m, a
  <2>10. Holders[Upto(p, Agree(q, p))] = run[q].marks
    BY <1>4, <2>8
  <2>11. QED
    BY <2>6, <2>7, <2>8, <2>9, <2>10 DEF Anchor, q, H
<1>8. A = {} <=> H = {}
  BY <1>5, <1>6
<1>9. QED
  BY <1>7, <1>8 DEF A, H

\* Two anchors are one run if they are equally deep.
LEMMA AnchorsMeet ==
  ASSUME Shaped(run), NEW p \in Paths, NEW q \in Visited(run, p), NEW r \in Visited(run, p),
         Agree(q, p) = Agree(r, p)
  PROVE  q = r
<1>1. p \in Ways /\ Len(p) \in Nat /\ Pieces(run)
  BY PathOK DEF Shaped
<1> DEFINE k == Agree(q, p)
           x == Upto(p, k)
<1>2. q \in DOMAIN run /\ r \in DOMAIN run /\ run[q].from < k /\ run[r].from < k
  BY <1>1, VisitedOK
<1>3. q \in Ways /\ r \in Ways /\ run[q].from \in Nat
  BY <1>1, <1>2 DEF Pieces, RunRecord
<1>4. k \in 0..Len(p) /\ k \in 1..Len(p)
  BY <1>1, <1>2, <1>3, AgreeOK
<1>5. x \in Ways /\ Len(x) = k /\ Leads(x, p)
  BY <1>1, <1>4, UptoOK
<1> HIDE DEF x
<1>6. Leads(x, q) /\ Leads(x, r)
  <2>1. /\ Leads(x, q) <=> Len(x) <= Agree(q, p)
        /\ Leads(x, r) <=> Len(x) <= Agree(r, p)
    BY <1>1, <1>3, <1>5, AgreeOK
  <2>2. Len(x) <= Agree(q, p) /\ Len(x) <= Agree(r, p)
    BY <1>4, <1>5, Agree(q, p) = Agree(r, p)
  <2>3. QED
    BY <2>1, <2>2
<1>7. QED
  BY <1>2, <1>5, <1>6 DEF Shaped, Apart

\* What a set of backends holds of p, as the table says it: its holders and its depth.
HeldAt(p, S) == IF HeldUpto(p, S) = {} THEN << {}, 0 >>
                ELSE << Holders[Upto(p, Max(HeldUpto(p, S)))], Max(HeldUpto(p, S)) - 1 >>

\* What the deepest of some visited runs says of p.
RunsSay(p, A) == IF A = {} THEN << {}, 0 >>
                 ELSE << run[Deepest(A)].marks, Agree(Deepest(A), p) - 1 >>

\* walk's deepest anchor says what the table says (tree.go:324-367).
LEMMA AnchorSays ==
  ASSUME Shaped(run), NEW p \in Paths, NEW S
  PROVE  RunsSay(p, Anchored(p, S)) = HeldAt(p, S)
<1> DEFINE A == Anchored(p, S)
<1>1. A = {} <=> HeldUpto(p, S) = {}
  BY AnchorOK
<1>2. A # {} => Anchor(p, S, A, Deepest(A))
  BY AnchorOK
<1> HIDE DEF A
<1>3. CASE A = {}
  BY <1>1, <1>3 DEF RunsSay, HeldAt, A
<1>4. CASE A # {}
  <2>1. /\ Max(HeldUpto(p, S)) = Agree(Deepest(A), p)
        /\ Holders[Upto(p, Agree(Deepest(A), p))] = run[Deepest(A)].marks
    BY <1>2, <1>4 DEF Anchor
  <2>2. HeldUpto(p, S) # {}
    BY <1>1, <1>4
  <2>3. QED
    BY <1>4, <2>1, <2>2 DEF RunsSay, HeldAt, A
<1>5. QED
  BY <1>3, <1>4

\* heldTokens is that depth for one backend (tree.go:372-404).
LEMMA TokensAre ==
  ASSUME Shaped(run), NEW p \in Paths, NEW s
  PROVE  HeldTokens(p, s) = HeldAt(p, {s})[2]
<1> DEFINE A == Anchored(p, {s})
           K == {0} \cup {Agree(q, p) - 1 : q \in A}
<1>1. A = {q \in Visited(run, p) : s \in run[q].marks}
  BY DEF Anchored
<1>2. HeldTokens(p, s) = Max(K)
  BY <1>1 DEF HeldTokens
<1>3. HeldAt(p, {s}) = RunsSay(p, A)
  BY AnchorSays
<1>4. A # {} => Anchor(p, {s}, A, Deepest(A))
  BY AnchorOK
<1> HIDE DEF A
<1>5. CASE A = {}
  <2>1. K = {0}
    BY <1>5
  <2>2. Max(K) \in K
    BY <2>1, BoundedMax
  <2>3. Max(K) = 0
    BY <2>1, <2>2
  <2>4. HeldAt(p, {s})[2] = 0
    BY <1>3, <1>5 DEF RunsSay
  <2>5. QED
    BY <1>2, <2>3, <2>4
<1>6. CASE A # {}
  <2> DEFINE q == Deepest(A)
             a == Agree(q, p)
  <2>1. q \in A /\ a \in 2..Len(p) /\ \A r \in A : Agree(r, p) <= a
    BY <1>4, <1>6 DEF Anchor
  <2>2. HeldAt(p, {s})[2] = a - 1
    BY <1>3, <1>6 DEF RunsSay
  <2>3. Len(p) \in Nat
    BY PathOK
  <2>4. ASSUME NEW r \in A PROVE Agree(r, p) \in Nat /\ Agree(r, p) >= 1
    <3>1. p \in Ways /\ Pieces(run) /\ r \in Visited(run, p)
      BY PathOK DEF Shaped, A, Anchored
    <3>2. r \in DOMAIN run /\ run[r].from < Agree(r, p)
      BY <3>1, VisitedOK
    <3>3. r \in Ways /\ run[r].from \in Nat
      BY <3>1, <3>2 DEF Pieces, RunRecord
    <3>4. Agree(r, p) \in 0..Len(p)
      BY <3>1, <3>3, AgreeOK
    <3>5. QED
      BY <2>3, <3>2, <3>3, <3>4
  <2> HIDE DEF q
  <2>5. a - 1 \in K /\ a - 1 \in Nat
    BY <2>1, <2>3
  <2> HIDE DEF a
  <2>6. \A k \in K : k \in Nat /\ k <= a - 1
    <3>1. ASSUME NEW r \in A PROVE Agree(r, p) - 1 \in Nat /\ Agree(r, p) - 1 <= a - 1
      <4>1. Agree(r, p) <= a /\ a \in Nat /\ Agree(r, p) \in Nat /\ Agree(r, p) >= 1
        BY <2>1, <2>3, <2>4
      <4>2. QED
        BY <4>1
    <3>2. QED
      BY <2>5, <3>1
  <2> HIDE DEF K
  <2>7. Max(K) \in K /\ \A k \in K : k <= Max(K)
    <3>1. K \subseteq Nat /\ K # {}
      BY <2>5, <2>6
    <3>2. QED
      BY <2>5, <2>6, <3>1, BoundedMax
  <2> DEFINE m == Max(K)
             b == a - 1
  <2>8. m \in Nat /\ b \in Nat /\ m <= b /\ b <= m
    BY <2>5, <2>6, <2>7
  <2> HIDE DEF m, b
  <2>9. m = b
    BY <2>8
  <2>10. QED
    BY <1>2, <2>2, <2>9 DEF m, b
<1>7. QED
  BY <1>5, <1>6

\* The visited runs with a holder are those with a holder among all slots.
LEMMA AnyHolder ==
  ASSUME Shaped(run), NEW p \in Paths
  PROVE  {q \in Visited(run, p) : run[q].marks # {}} = Anchored(p, Slots)
<1>1. \A q \in Visited(run, p) : run[q].marks \subseteq Slots
  BY DEF Visited, Shaped, Pieces, RunRecord
<1>2. QED
  BY <1>1 DEF Anchored

\* anchors.availDeepest: the candidates' anchor is the deepest one (tree.go:365-366).
LEMMA DeepestMeet ==
  ASSUME Shaped(run), NEW p \in Paths, NEW S \in SUBSET Slots
  PROVE  Anchored(p, S) # {} /\ Deepest(Anchored(p, S)) = Deepest(Anchored(p, Slots))
         <=> HeldAt(p, S)[2] > 0 /\ HeldAt(p, S)[2] = HeldAt(p, Slots)[2]
<1> DEFINE A == Anchored(p, S)
           B == Anchored(p, Slots)
           q == Deepest(A)
           r == Deepest(B)
<1>1. /\ RunsSay(p, A) = HeldAt(p, S) /\ RunsSay(p, B) = HeldAt(p, Slots)
      /\ A # {} => Anchor(p, S, A, q)
      /\ B # {} => Anchor(p, Slots, B, r)
  BY AnchorSays, AnchorOK
<1>2. A \subseteq B
  BY DEF Anchored
<1> HIDE DEF A, B
<1>3. CASE A = {}
  <2>1. HeldAt(p, S)[2] = 0
    BY <1>1, <1>3 DEF RunsSay
  <2>2. QED
    BY <1>3, <2>1 DEF A, B
<1>4. CASE A # {}
  <2>1. /\ q \in Visited(run, p) /\ Agree(q, p) \in 2..Len(p)
        /\ r \in Visited(run, p) /\ Agree(r, p) \in 2..Len(p)
    BY <1>1, <1>2, <1>4 DEF Anchor
  <2>2. HeldAt(p, S)[2] = Agree(q, p) - 1 /\ HeldAt(p, Slots)[2] = Agree(r, p) - 1
    BY <1>1, <1>2, <1>4 DEF RunsSay
  <2>3. Agree(q, p) = Agree(r, p) => q = r
    BY <2>1, AnchorsMeet
  <2> DEFINE a == Agree(q, p)
             b == Agree(r, p)
             x == HeldAt(p, S)[2]
             y == HeldAt(p, Slots)[2]
  <2>4. a \in Nat /\ a >= 2 /\ b \in Nat
    BY <2>1, PathOK
  <2>5. q = r => a = b
    OBVIOUS
  <2>6. x = a - 1 /\ y = b - 1
    BY <2>2
  <2>7. a = b => q = r
    BY <2>3
  <2> HIDE DEF a, b, x, y, q, r
  <2>8. q = r <=> x > 0 /\ x = y
    BY <2>4, <2>5, <2>6, <2>7
  <2>9. QED
    BY <1>4, <2>8 DEF A, B, q, r, x, y
<1>5. QED
  BY <1>3, <1>4

\* walk and heldTokens over compressed runs find what a lookup block by block would
\* (tree.go:324-367, 372-404).
LEMMA WalkOK ==
  ASSUME Shaped(run)
  PROVE  WalkIsDeepest
<1> SUFFICES ASSUME NEW p \in Paths, NEW cands \in SUBSET Slots
             PROVE  LET w == Walk(p, cands) IN
                    /\ << w.pool, w.anchorBlocks >> = HeldAt(p, cands)
                    /\ << w.held, w.heldBlocks >> = HeldAt(p, Slots)
                    /\ w.availDeepest <=> w.anchorBlocks > 0 /\ w.anchorBlocks = w.heldBlocks
                    /\ \A s \in cands : HeldTokens(p, s) = HeldAt(p, {s})[2]
  BY DEF WalkIsDeepest, HeldAt, HeldUpto
<1> DEFINE w == Walk(p, cands)
           A == Anchored(p, cands)
           B == Anchored(p, Slots)
<1>1. /\ w.pool = RunsSay(p, A)[1] /\ w.anchorBlocks = RunsSay(p, A)[2]
      /\ w.held = RunsSay(p, B)[1] /\ w.heldBlocks = RunsSay(p, B)[2]
      /\ w.availDeepest = (A # {} /\ Deepest(A) = Deepest(B))
  BY AnyHolder DEF Walk, RunsSay
<1>2. RunsSay(p, A) = HeldAt(p, cands) /\ RunsSay(p, B) = HeldAt(p, Slots)
  BY AnchorSays
<1>3. \A S : HeldAt(p, S) = << HeldAt(p, S)[1], HeldAt(p, S)[2] >>
  BY DEF HeldAt
<1>4. (A # {} /\ Deepest(A) = Deepest(B))
      <=> HeldAt(p, cands)[2] > 0 /\ HeldAt(p, cands)[2] = HeldAt(p, Slots)[2]
  BY DeepestMeet
<1>5. \A s \in cands : HeldTokens(p, s) = HeldAt(p, {s})[2]
  BY TokensAre
<1> HIDE DEF w, A, B
<1>6. /\ w.pool = HeldAt(p, cands)[1] /\ w.anchorBlocks = HeldAt(p, cands)[2]
      /\ w.held = HeldAt(p, Slots)[1] /\ w.heldBlocks = HeldAt(p, Slots)[2]
  BY <1>1, <1>2
<1>7. w.availDeepest <=> w.anchorBlocks > 0 /\ w.anchorBlocks = w.heldBlocks
  BY <1>1, <1>4, <1>6
<1>8. << w.pool, w.anchorBlocks >> = HeldAt(p, cands) /\ << w.held, w.heldBlocks >> = HeldAt(p, Slots)
  BY <1>3, <1>6
<1>9. QED
  BY <1>5, <1>7, <1>8 DEF w

\* Index: in every reachable forest the totals and the tail set are what a traversal
\* would count, and a descent over runs finds what the blocks say (tree.go:136-142,
\* 324-404, 420-603).
THEOREM IndexAlwaysExact == TreeSpec => []IndexExact
<1>1. TreeInv => IndexExact
  BY InvTotals, WalkOK DEF TreeInv, IndexExact
<1>2. QED
  BY InitInv, TreeInvStep, <1>1, PTL DEF TreeSpec

----------------------------------------------------------------------------
(* What a sweep leaves.  No path being longer than a cascade, everything    *)
(* stale goes: from the tails upwards.                                      *)

\* The blocks of a path are no more than one eviction unwinds (tree.go:549-552).
ShortPaths == \A p \in Paths : Len(p) - 1 <= MaxCascade

\* Runs on the way to x are at most as many as x has blocks.
LEMMA FewOnTheWay ==
  ASSUME NEW f, Shaped(f), NEW x \in DOMAIN f, NEW B, B \subseteq DOMAIN f, \A b \in B : Leads(b, x)
  PROVE  IsFiniteSet(B) /\ Cardinality(B) \in Nat /\ Cardinality(B) <= Len(x) - 1
<1>1. /\ IsFiniteSet(DOMAIN f) /\ x \in Ways
      /\ \A b \in DOMAIN f : b \in Ways /\ Len(b) \in Nat /\ Len(b) >= 2
  BY NameOK, LeadsOrder DEF Shaped, Pieces
<1>2. IsFiniteSet(B) /\ Cardinality(B) \in Nat
  BY <1>1, FS_Subset, FS_CardinalityType
<1> DEFINE n == Len(x)
           T == 2..n
<1>3. n \in Nat /\ n >= 2
  BY <1>1
<1>4. IsFiniteSet(T) /\ Cardinality(T) = n - 1
  BY <1>3, FS_Interval
<1>5. \A b \in B : Len(b) \in T
  BY <1>1, LeadsOrder
<1>6. \A a, b \in B : Len(a) = Len(b) => a = b
  BY <1>1, LeadsOrder
<1> DEFINE g == [b \in B |-> Len(b)]
<1>7. g \in [B -> T]
  BY <1>5
<1>8. ~(Cardinality(T) < Cardinality(B))
  <2> SUFFICES ASSUME Cardinality(T) < Cardinality(B) PROVE FALSE
    OBVIOUS
  <2> HIDE DEF g, T
  <2>1. \E a, b \in B : a # b /\ g[a] = g[b]
    BY <1>2, <1>4, <1>7, FS_PigeonHole
  <2>2. \A b \in B : g[b] = Len(b)
    BY DEF g
  <2>3. QED
    BY <1>6, <2>1, <2>2
<1> HIDE DEF n, T
<1>9. Cardinality(B) <= n - 1
  BY <1>2, <1>3, <1>4, <1>8
<1>10. QED
  BY <1>2, <1>9 DEF n

\* Below every run there is a tail, if it is not one.
LEMMA TailBelow ==
  ASSUME NEW f, Shaped(f), NEW q \in DOMAIN f
  PROVE  \E r \in DOMAIN f : Leads(q, r) /\ Below(f, r) = {}
<1>1. IsFiniteSet(DOMAIN f) /\ \A a \in DOMAIN f : a \in Ways
  BY DEF Shaped, Pieces
<1>2. \A a \in DOMAIN f : Below(f, a) = {r \in DOMAIN f : Leads(a, r) /\ r # a}
  BY <1>1, BelowIs DEF Shaped
<1> DEFINE R == {r \in DOMAIN f : Leads(q, r)}
           C == {Below(f, r) : r \in R}
<1>3. q \in R
  BY <1>1, LeadsOrder
<1>4. C # {} /\ \A s \in C : IsFiniteSet(s)
  <2>1. \A r \in R : Below(f, r) \in SUBSET DOMAIN f
    BY <1>2
  <2>2. QED
    BY <1>1, <1>3, <2>1, FS_Subset
<1>5. PICK s \in C : \A t \in C : Cardinality(s) <= Cardinality(t)
  <2> HIDE DEF C
  <2>1. QED
    BY <1>4, SmallestSet
<1>6. PICK r \in R : s = Below(f, r)
  OBVIOUS
<1>7. ASSUME NEW c \in Below(f, r) PROVE FALSE
  <2>1. c \in DOMAIN f /\ Leads(r, c) /\ c # r
    BY <1>2, <1>6, <1>7
  <2>2. c \in R
    BY <1>1, <1>6, <2>1, LeadsOrder
  <2>3. Below(f, c) \subseteq Below(f, r)
    <3>1. ASSUME NEW b \in Below(f, c) PROVE b \in Below(f, r)
      <4>1. b \in DOMAIN f /\ Leads(c, b) /\ b # c
        BY <1>2, <2>1, <3>1
      <4>2. Leads(r, b)
        BY <1>1, <1>6, <2>1, <4>1, LeadsOrder
      <4>3. b # r
        <5>1. CASE b = r
          <6>1. Len(c) <= Len(r) /\ Len(r) <= Len(c) /\ Len(c) \in Nat /\ Len(r) \in Nat
            BY <1>1, <1>6, <2>1, <4>1, <5>1, LeadsOrder
          <6>2. Len(r) = Len(c)
            BY <6>1
          <6>3. QED
            BY <1>1, <1>6, <2>1, <6>2, LeadsOrder
        <5>2. QED
          BY <5>1
      <4>4. QED
        BY <1>2, <1>6, <4>1, <4>2, <4>3
    <3>2. QED
      BY <3>1
  <2>4. c \notin Below(f, c)
    BY <1>2, <2>1
  <2>5. Below(f, c) \in C /\ IsFiniteSet(Below(f, r))
    BY <1>4, <1>6, <2>2
  <2>6. Cardinality(Below(f, r)) <= Cardinality(Below(f, c))
    BY <1>5, <1>6, <2>5
  <2>7. Cardinality(Below(f, c)) <= Cardinality(Below(f, r))
    BY <2>3, <2>5, FS_Subset
  <2>8. Cardinality(Below(f, c)) \in Nat /\ Cardinality(Below(f, r)) \in Nat
    BY <1>4, <2>5, FS_CardinalityType
  <2>9. Cardinality(Below(f, c)) = Cardinality(Below(f, r))
    BY <2>6, <2>7, <2>8
  <2>10. Below(f, c) = Below(f, r)
    BY <2>3, <2>5, <2>9, FS_Subset
  <2>11. QED
    BY <1>7, <2>4, <2>10
<1>8. QED
  BY <1>6, <1>7

\* The stale runs without children.
StaleTails(f) == {q \in Childless(f) : Stale(f, q)}

\* Evicting a stale tail leaves no stale tail that was not there before, and not
\* this one (tree.go:585-603).
LEMMA EvictUnwinds ==
  ASSUME ShortPaths, NEW f, Shaped(f), NEW x, x \in DOMAIN f => x \in StaleTails(f)
  PROVE  StaleTails(EvictTail(x, f)) \subseteq StaleTails(f) \ {x}
<1> DEFINE g == EvictTail(x, f)
           Stem(a) == {b \in DOMAIN f : b = a \/ IsAbove(a, b)}
<1>1. CASE x \notin DOMAIN f
  BY <1>1 DEF EvictTail, StaleTails, Childless
<1>2. CASE x \in DOMAIN f
  <2>1. g = [r \in DOMAIN f \ Chain(f, x) |-> f[r]]
    BY <1>2 DEF EvictTail
  <2> HIDE DEF g
  <2>2. /\ Pieces(f) /\ x \in Ways /\ \A a \in DOMAIN f : a \in Ways
        /\ \A a \in DOMAIN f : Below(f, a) = {r \in DOMAIN f : Leads(a, r) /\ r # a}
        /\ \A a \in DOMAIN f : Stem(a) = {b \in DOMAIN f : Leads(a, b)}
        /\ \A a, b \in DOMAIN f : IsAbove(a, b) <=> Leads(a, b) /\ a # b
    BY <1>2, BelowIs, AboveIsLeads DEF Shaped, Pieces
  <2>3. Below(f, x) = {} /\ Stale(f, x)
    BY <1>2 DEF StaleTails, Childless
  <2>4. Chain(f, x) = {a \in DOMAIN f :
           /\ a = x \/ IsAbove(a, x)
           /\ \A b \in Stem(a) : b = x \/ (IsAbove(b, x) /\ Stale(f, b))
           /\ Cardinality(Stem(a)) <= MaxCascade}
    BY DEF Chain
  <2>5. ASSUME NEW a \in DOMAIN f, \A b \in Stem(a) : Leads(b, x) PROVE Cardinality(Stem(a)) <= MaxCascade
    <3>1. Cardinality(Stem(a)) \in Nat /\ Cardinality(Stem(a)) <= Len(x) - 1
      <4>1. Stem(a) \subseteq DOMAIN f
        OBVIOUS
      <4> HIDE DEF Stem
      <4>2. QED
        BY <1>2, <2>5, <4>1, FewOnTheWay
    <3>2. x \in Names
      BY <1>2, <2>2 DEF Pieces
    <3>3. PICK p \in Paths : Leads(x, p)
      BY <3>2, NameOK
    <3>4. Len(x) \in Nat /\ Len(p) \in Nat /\ Len(x) <= Len(p)
      BY <2>2, <3>3, PathOK, LeadsOrder
    <3>5. Len(p) - 1 <= MaxCascade
      BY DEF ShortPaths
    <3> HIDE DEF Stem
    <3>6. QED
      BY <3>1, <3>4, <3>5, TtlAssumption
  <2>6. x \in Chain(f, x)
    <3>1. Stem(x) = {x}
      BY <1>2, <2>2, <2>3, LeadsOrder
    <3>2. Cardinality(Stem(x)) <= MaxCascade
      <4>1. \A b \in Stem(x) : Leads(b, x)
        BY <2>2, <3>1, LeadsOrder
      <4> HIDE DEF Stem
      <4>2. QED
        BY <1>2, <2>5, <4>1
    <3> HIDE DEF Stem
    <3>3. QED
      BY <1>2, <2>4, <3>1, <3>2
  <2>7. ASSUME NEW q \in StaleTails(g) PROVE q \in StaleTails(f) \ {x}
    <3>1. q \in DOMAIN g /\ q \in DOMAIN f /\ g[q] = f[q] /\ q \notin Chain(f, x)
      BY <2>1, <2>7 DEF StaleTails, Childless
    <3>2. Below(g, q) = {} /\ Stale(f, q) /\ q # x
      BY <2>6, <2>7, <3>1 DEF StaleTails, Childless, Stale
    <3>3. \A b \in DOMAIN f : Leads(q, b) /\ b # q => b \in Chain(f, x)
      BY <2>1, <2>2, <3>1, <3>2 DEF Below
    <3>4. \A b \in Chain(f, x) : Leads(b, x) /\ (b = x \/ Stale(f, b))
      <4>1. ASSUME NEW b \in Chain(f, x) PROVE Leads(b, x) /\ (b = x \/ Stale(f, b))
        <5>1. b \in DOMAIN f /\ (b = x \/ IsAbove(b, x))
          BY <2>4
        <5>2. b \in Stem(b)
          BY <5>1
        <5>3. b = x \/ Stale(f, b)
          BY <2>4, <5>2
        <5>4. Leads(b, x)
          BY <1>2, <2>2, <5>1, LeadsOrder
        <5>5. QED
          BY <5>3, <5>4
      <4>2. QED
        BY <4>1
    <3>5. CASE Below(f, q) = {}
      BY <3>1, <3>2, <3>5 DEF StaleTails, Childless
    <3>6. CASE Below(f, q) # {}
      <4>1. PICK r \in Below(f, q) : TRUE
        BY <3>6
      <4>2. Leads(q, r) /\ r # q /\ r \in DOMAIN f
        BY <2>2, <3>1, <4>1
      <4>3. Leads(r, x)
        BY <3>3, <3>4, <4>2
      <4>4. Leads(q, x)
        BY <2>2, <3>1, <4>2, <4>3, LeadsOrder
      <4>5. IsAbove(q, x)
        BY <1>2, <2>2, <3>1, <3>2, <4>4
      <4>6. ASSUME NEW b \in Stem(q) PROVE Leads(b, x) /\ (b = x \/ (IsAbove(b, x) /\ Stale(f, b)))
        <5>1. b \in DOMAIN f /\ Leads(q, b)
          BY <2>2, <3>1
        <5>2. CASE b = q
          BY <3>2, <4>4, <4>5, <5>2
        <5>3. CASE b # q
          <6>1. Leads(b, x) /\ (b = x \/ Stale(f, b))
            BY <3>3, <3>4, <5>1, <5>3
          <6>2. QED
            BY <1>2, <2>2, <5>1, <6>1
        <5>4. QED
          BY <5>2, <5>3
      <4> HIDE DEF Stem
      <4>7. Cardinality(Stem(q)) <= MaxCascade
        BY <2>5, <3>1, <4>6
      <4>8. q \in Chain(f, x)
        BY <2>4, <3>1, <4>5, <4>6, <4>7
      <4>9. QED
        BY <3>1, <4>8
    <3>7. QED
      BY <3>5, <3>6
  <2>8. QED
    BY <2>7 DEF g
<1>3. QED
  BY <1>1, <1>2

\* A sweep leaves nothing stale (tree.go:529-547).
LEMMA SweepClears ==
  ASSUME ShortPaths, NEW f, Shaped(f), NEW S, S = StaleTails(f)
  PROVE  \A q \in DOMAIN FoldSet(EvictTail, f, S) : ~Stale(f, q)
<1>1. IsFiniteSet(S) /\ S \subseteq {q \in DOMAIN f : Stale(f, q)}
  <2>1. IsFiniteSet(DOMAIN f) /\ S \subseteq DOMAIN f
    BY DEF Shaped, Pieces, StaleTails, Childless
  <2>2. QED
    BY <2>1, FS_Subset DEF StaleTails
<1>2. PICK it : (\A s \in SUBSET S : it[s] = Swept(f, it, s)) /\ FoldSet(EvictTail, f, S) = it[S]
  BY <1>1, SweepFolds
<1> DEFINE Fine(g, s) == Shaped(g) /\ Kept(f, g) /\ StaleTails(g) \subseteq S \ s
           Good == {s \in SUBSET S : Fine(it[s], s)}
<1>3. {} \in Good
  <2>1. it[{}] = f
    BY <1>2 DEF Swept
  <2>2. QED
    BY <2>1 DEF Kept
<1>4. ASSUME NEW s \in SUBSET S, s # {}, s \ {First(s)} \in Good PROVE s \in Good
  <2> DEFINE x == First(s)
             t == s \ {x}
             g == it[t]
             h == EvictTail(x, g)
  <2>1. it[s] = h
    BY <1>2, <1>4 DEF Swept
  <2>2. Shaped(g) /\ Kept(f, g) /\ StaleTails(g) \subseteq S \ t
    BY <1>4
  <2>3. x \in S /\ x \in s
    BY <1>4 DEF First
  <2>4. \A a \in S \ s : a \in S \ t
    OBVIOUS
  <2>5. \A a \in S \ t : a # x => a \in S \ s
    OBVIOUS
  <2> HIDE DEF x, g, t
  <2>6. x \in DOMAIN g => x \in StaleTails(g)
    <3>1. x \in Childless(f) /\ Stale(f, x)
      BY <2>3 DEF StaleTails
    <3>2. x \in DOMAIN g => Below(g, x) = {} /\ Stale(g, x)
      BY <2>2, <3>1 DEF Kept, Childless, Below, Stale
    <3>3. QED
      BY <3>2 DEF StaleTails, Childless
  <2>7. StaleTails(h) \subseteq StaleTails(g) \ {x}
    BY <2>2, <2>6, EvictUnwinds
  <2>8. Kept(g, h)
    BY <2>2, EvictKeeps
  <2> HIDE DEF h
  <2>9. Shaped(h) /\ Kept(f, h)
    BY <2>2, <2>8, KeptShaped, KeptTwice
  <2>10. StaleTails(h) \subseteq S \ s
    BY <2>2, <2>5, <2>7
  <2>11. QED
    BY <2>1, <2>9, <2>10
<1> HIDE DEF Good
<1>5. S \in Good
  BY <1>1, <1>3, <1>4, SubsetInduction
<1> DEFINE g == it[S]
<1>6. Shaped(g) /\ Kept(f, g) /\ StaleTails(g) \subseteq S \ S
  BY <1>5 DEF Good
<1> HIDE DEF g
<1>7. ASSUME NEW q \in DOMAIN g, Stale(f, q) PROVE FALSE
  <2>1. PICK r \in DOMAIN g : Leads(q, r) /\ Below(g, r) = {}
    BY <1>6, TailBelow
  <2>2. q \in DOMAIN f /\ r \in DOMAIN f /\ g[r] = f[r]
    BY <1>6 DEF Kept
  <2>3. f[q].age <= f[r].age /\ f[q].age \in 0..Ttl + 1 /\ f[r].age \in 0..Ttl + 1
    BY <2>1, <2>2 DEF Shaped, Fading, Pieces, RunRecord
  <2>4. Stale(g, r)
    <3> DEFINE a == f[q].age
               b == f[r].age
    <3>1. a > Ttl /\ a <= b /\ a \in Int /\ b \in Int
      BY <1>7, <2>3, TtlAssumption DEF Stale
    <3> HIDE DEF a, b
    <3>2. b > Ttl
      BY <3>1, TtlAssumption
    <3>3. QED
      BY <2>2, <3>2 DEF b, Stale
  <2>5. r \in StaleTails(g)
    BY <2>1, <2>4 DEF StaleTails, Childless
  <2>6. QED
    BY <1>6, <2>5
<1>8. QED
  BY <1>2, <1>7 DEF g

----------------------------------------------------------------------------
(* The forest implements the table of prefixes.                             *)

\* The table's prefixes are the forest's names.
LEMMA StoreReads ==
  /\ Store!Prefixes = Names
  /\ \A q, p : Store!Under(q, p) <=> Leads(q, p)
BY DEF Store!Prefixes, Names, Store!Under, Leads, Upto

\* What the table shows after a step is what the new forest says.
LEMMA TableThen ==
  /\ Holders = [q \in Names |-> HoldersOf(run, q)] /\ Idle = [q \in Names |-> IdleOf(run, q)]
  /\ Holders' = [q \in Names |-> HoldersOf(run', q)] /\ Idle' = [q \in Names |-> IdleOf(run', q)]
BY DEF Holders, Idle

\* A table entry after runs went.
LEMMA KeptSays ==
  ASSUME NEW f, Shaped(f), NEW g, Kept(f, g), NEW x \in Ways
  PROVE  /\ \A r \in Cover(f, x) :
              IF r \in DOMAIN g THEN HoldersOf(g, x) = f[r].marks /\ IdleOf(g, x) = f[r].age
              ELSE HoldersOf(g, x) = {} /\ IdleOf(g, x) = 0
         /\ Cover(f, x) = {} => HoldersOf(g, x) = {} /\ IdleOf(g, x) = 0
<1>1. Shaped(g) /\ Cover(g, x) = Cover(f, x) \cap DOMAIN g
  BY KeptShaped
<1>2. /\ \A r \in Cover(g, x) : HoldersOf(g, x) = g[r].marks /\ IdleOf(g, x) = g[r].age
      /\ Cover(g, x) = {} => HoldersOf(g, x) = {} /\ IdleOf(g, x) = 0
  BY <1>1, CoverSays
<1>3. ASSUME NEW r \in Cover(f, x), r \in DOMAIN g
      PROVE  HoldersOf(g, x) = f[r].marks /\ IdleOf(g, x) = f[r].age
  <2>1. r \in Cover(g, x) /\ g[r] = f[r]
    BY <1>1, <1>3 DEF Kept
  <2>2. QED
    BY <1>2, <2>1
<1>4. ASSUME NEW r \in Cover(f, x), r \notin DOMAIN g
      PROVE  HoldersOf(g, x) = {} /\ IdleOf(g, x) = 0
  <2>1. Cover(f, x) = {r}
    BY CoverOne
  <2>2. Cover(g, x) = {}
    BY <1>1, <1>4, <2>1
  <2>3. QED
    BY <1>2, <2>2
<1>5. QED
  BY <1>1, <1>2, <1>3, <1>4

\* commit adds the backend to exactly the prefixes of the path, and touches exactly
\* those (tree.go:420-489).
LEMMA CommitSays ==
  ASSUME TreeInv, NEW p \in Paths, NEW s \in Slots, Commit(p, s)
  PROVE  Store!StoreCommit(p, s)
<1>1. Served(run, run', p, s)
  BY CommitInv
<1>2. ASSUME NEW q \in Names
      PROVE  /\ HoldersOf(run', q) = Holders[q] \cup IF Leads(q, p) THEN {s} ELSE {}
             /\ IdleOf(run', q) = IF Leads(q, p) THEN 0 ELSE Idle[q]
  <2>1. q \in Ways /\ Len(q) >= 2
    BY NameOK
  <2>2. Holders[q] = HoldersOf(run, q) /\ Idle[q] = IdleOf(run, q)
    BY TableThen
  <2>3. CASE Leads(q, p)
    BY <1>1, <2>1, <2>2, <2>3 DEF Served
  <2>4. CASE ~Leads(q, p)
    BY <1>1, <2>1, <2>2, <2>4 DEF Served
  <2>5. QED
    BY <2>3, <2>4
<1>3. Holders' = [q \in Names |-> Holders[q] \cup IF Leads(q, p) THEN {s} ELSE {}]
  BY <1>2, TableThen
<1>4. Idle' = [q \in Names |-> IF Leads(q, p) THEN 0 ELSE Idle[q]]
  BY <1>2, TableThen
<1>5. QED
  BY <1>3, <1>4, StoreReads DEF Store!StoreCommit

\* dropBackend takes exactly the backend out, and what it alone held (tree.go:224-285).
LEMMA ClearSays ==
  ASSUME TreeInv, NEW s, Clear(s)
  PROVE  Store!StoreDrop(s)
<1> DEFINE f == [q \in DOMAIN run |-> [run[q] EXCEPT !.marks = @ \ {s}]]
           left == [q \in DOMAIN f \ Orphans(f) |-> f[q]]
           h == [q \in Names |-> Holders[q] \ {s}]
<1>1. run' = left
  BY DEF Clear, Unlinked
<1>2. Cleared(run, f, s, {q \in DOMAIN run : s \in run[q].marks})
  BY ClearedOK DEF TreeInv
<1>3. /\ Shaped(run) /\ Shaped(f) /\ DOMAIN f = DOMAIN run
      /\ \A q \in DOMAIN run : f[q].age = run[q].age /\ f[q].marks = run[q].marks \ {s}
      /\ \A x : Cover(f, x) = Cover(run, x)
  BY <1>2 DEF Cleared, TreeInv
<1> HIDE DEF f
<1>4. /\ Kept(f, left) /\ DOMAIN left = DOMAIN f \ Orphans(f)
      /\ \A q \in DOMAIN f : q \in Orphans(f) <=> f[q].marks = {}
  BY <1>3, OrphansOK
<1> HIDE DEF left
<1>5. ASSUME NEW q \in Names
      PROVE  /\ HoldersOf(left, q) = Holders[q] \ {s}
             /\ IdleOf(left, q) = IF Holders[q] \ {s} = {} THEN 0 ELSE Idle[q]
  <2>1. q \in Ways
    BY NameOK
  <2>2. Holders[q] = HoldersOf(run, q) /\ Idle[q] = IdleOf(run, q)
    BY TableThen
  <2>3. CASE Cover(run, q) = {}
    <3>1. HoldersOf(run, q) = {} /\ HoldersOf(left, q) = {} /\ IdleOf(left, q) = 0
      BY <1>3, <1>4, <2>1, <2>3, CoverSays, KeptSays
    <3>2. QED
      BY <2>2, <3>1
  <2>4. ASSUME NEW r \in Cover(run, q)
        PROVE  /\ HoldersOf(left, q) = Holders[q] \ {s}
               /\ IdleOf(left, q) = IF Holders[q] \ {s} = {} THEN 0 ELSE Idle[q]
    <3>1. HoldersOf(run, q) = run[r].marks /\ IdleOf(run, q) = run[r].age
      BY <1>3, <2>1, CoverSays
    <3>2. r \in DOMAIN run /\ r \in Cover(f, q)
      BY <1>3 DEF Cover
    <3>3. IF r \in DOMAIN left THEN HoldersOf(left, q) = f[r].marks /\ IdleOf(left, q) = f[r].age
          ELSE HoldersOf(left, q) = {} /\ IdleOf(left, q) = 0
      BY <1>3, <1>4, <2>1, <3>2, KeptSays
    <3>4. f[r].age = run[r].age /\ f[r].marks = run[r].marks \ {s}
      BY <1>3, <3>2
    <3>5. r \in DOMAIN left <=> f[r].marks # {}
      BY <1>3, <1>4, <3>2
    <3>6. CASE f[r].marks = {}
      BY <2>2, <3>1, <3>3, <3>4, <3>5, <3>6
    <3>7. CASE f[r].marks # {}
      BY <2>2, <3>1, <3>3, <3>4, <3>5, <3>7
    <3>8. QED
      BY <3>6, <3>7
  <2>5. QED
    BY <2>3, <2>4
<1>6. Holders' = h /\ Idle' = [q \in Names |-> IF h[q] = {} THEN 0 ELSE Idle[q]]
  BY <1>1, <1>5, TableThen
<1>7. QED
  BY <1>6, StoreReads DEF Store!StoreDrop, Store!Keep

\* Time passes for what somebody holds.
LEMMA TickSays ==
  ASSUME TreeInv, Tick
  PROVE  Store!StoreTick
<1> DEFINE g == [q \in DOMAIN run |-> IF Stale(run, q) THEN run[q] ELSE [run[q] EXCEPT !.age = @ + 1]]
<1>0. g = [q \in DOMAIN run |-> IF Stale(run, q) THEN run[q] ELSE [run[q] EXCEPT !.age = @ + 1]]
  OBVIOUS
<1>1. run' = g
  BY DEF Tick
<1> HIDE DEF g
<1>2. Shaped(run) /\ Held(run)
  BY DEF TreeInv
<1>3. /\ Shaped(run') /\ DOMAIN run' = DOMAIN run
      /\ \A q \in DOMAIN run :
           /\ run'[q].marks = run[q].marks
           /\ run'[q].age = IF run[q].age > Ttl THEN run[q].age ELSE run[q].age + 1
      /\ \A x : Cover(run', x) = Cover(run, x)
  <2>1. Ticked(run, g)
    BY <1>0, <1>2, TickOK
  <2>2. QED
    BY <1>1, <2>1 DEF Ticked
<1>4. ASSUME NEW q \in Names
      PROVE  /\ HoldersOf(run', q) = Holders[q]
             /\ IdleOf(run', q) = IF Holders[q] = {} \/ Idle[q] > Ttl THEN Idle[q] ELSE Idle[q] + 1
  <2>1. q \in Ways
    BY NameOK
  <2>2. Holders[q] = HoldersOf(run, q) /\ Idle[q] = IdleOf(run, q)
    BY TableThen
  <2>3. CASE Cover(run, q) = {}
    <3>1. /\ HoldersOf(run, q) = {} /\ IdleOf(run, q) = 0
          /\ HoldersOf(run', q) = {} /\ IdleOf(run', q) = 0
      BY <1>2, <1>3, <2>1, <2>3, CoverSays
    <3>2. QED
      BY <2>2, <3>1
  <2>4. ASSUME NEW r \in Cover(run, q)
        PROVE  /\ HoldersOf(run', q) = Holders[q]
               /\ IdleOf(run', q) = IF Holders[q] = {} \/ Idle[q] > Ttl THEN Idle[q] ELSE Idle[q] + 1
    <3>1. HoldersOf(run, q) = run[r].marks /\ IdleOf(run, q) = run[r].age
      BY <1>2, <2>1, CoverSays
    <3>2. r \in DOMAIN run /\ r \in Cover(run', q)
      BY <1>3 DEF Cover
    <3>3. HoldersOf(run', q) = run'[r].marks /\ IdleOf(run', q) = run'[r].age
      BY <1>3, <2>1, <3>2, CoverSays
    <3>4. run[r].marks # {}
      BY <1>2, <3>2 DEF Held
    <3>5. QED
      BY <1>3, <2>2, <3>1, <3>2, <3>3, <3>4
  <2>5. QED
    BY <2>3, <2>4
<1>5. Holders' = Holders
  BY <1>4, TableThen
<1>6. Idle' = [q \in Names |-> IF Holders[q] = {} \/ Idle[q] > Ttl THEN Idle[q] ELSE Idle[q] + 1]
  BY <1>4, TableThen
<1>7. QED
  BY <1>5, <1>6, StoreReads DEF Store!StoreTick

\* A sweep forgets exactly what is stale (tree.go:529-547, 584-603).
LEMMA SweepSays ==
  ASSUME ShortPaths, TreeInv, Sweep
  PROVE  Store!StoreSweep
<1> DEFINE dead == {q \in tails : Stale(run, q)}
           kept == FoldSet(EvictTail, run, dead)
           left == [q \in DOMAIN run \ (DOMAIN run \ DOMAIN kept) |-> run[q]]
           h == [q \in Names |-> IF Idle[q] > Ttl THEN {} ELSE Holders[q]]
<1>1. run' = left
  BY DEF Sweep, Unlinked
<1>2. Shaped(run) /\ Held(run) /\ tails = Childless(run)
  BY DEF TreeInv, Counted
<1>3. dead = StaleTails(run)
  BY <1>2 DEF StaleTails
<1>4. IsFiniteSet(dead) /\ dead \subseteq {q \in DOMAIN run : Stale(run, q)}
  <2>1. dead \subseteq DOMAIN run /\ IsFiniteSet(DOMAIN run)
    BY <1>2 DEF Childless, Shaped, Pieces
  <2>2. QED
    BY <2>1, FS_Subset
<1> HIDE DEF dead
<1>5. Kept(run, kept) /\ \A a \in DOMAIN run \ DOMAIN kept : Stale(run, a)
  BY <1>2, <1>4, SweepKeeps
<1>6. \A q \in DOMAIN kept : ~Stale(run, q)
  BY <1>2, <1>3, SweepClears
<1> HIDE DEF kept
<1>7. DOMAIN left = DOMAIN kept /\ Kept(run, left)
  BY <1>5 DEF Kept
<1>8. \A q \in DOMAIN run : q \in DOMAIN left <=> ~Stale(run, q)
  BY <1>5, <1>6, <1>7
<1> HIDE DEF left
<1>9. ASSUME NEW q \in Names
      PROVE  /\ HoldersOf(left, q) = h[q]
             /\ IdleOf(left, q) = IF h[q] = {} THEN 0 ELSE Idle[q]
  <2>1. q \in Ways /\ h[q] = IF Idle[q] > Ttl THEN {} ELSE Holders[q]
    BY NameOK
  <2>2. Holders[q] = HoldersOf(run, q) /\ Idle[q] = IdleOf(run, q)
    BY TableThen
  <2> HIDE DEF h
  <2>3. CASE Cover(run, q) = {}
    <3>1. HoldersOf(run, q) = {} /\ HoldersOf(left, q) = {} /\ IdleOf(left, q) = 0
      BY <1>2, <1>7, <2>1, <2>3, CoverSays, KeptSays
    <3>2. QED
      BY <2>1, <2>2, <3>1
  <2>4. ASSUME NEW r \in Cover(run, q)
        PROVE  HoldersOf(left, q) = h[q] /\ IdleOf(left, q) = IF h[q] = {} THEN 0 ELSE Idle[q]
    <3>1. HoldersOf(run, q) = run[r].marks /\ IdleOf(run, q) = run[r].age
      BY <1>2, <2>1, CoverSays
    <3>2. r \in DOMAIN run /\ run[r].marks # {}
      BY <1>2 DEF Cover, Held
    <3>3. IF r \in DOMAIN left THEN HoldersOf(left, q) = run[r].marks /\ IdleOf(left, q) = run[r].age
          ELSE HoldersOf(left, q) = {} /\ IdleOf(left, q) = 0
      BY <1>2, <1>7, <2>1, KeptSays
    <3>4. r \in DOMAIN left <=> ~(run[r].age > Ttl)
      BY <1>8, <3>2 DEF Stale
    <3>5. CASE run[r].age > Ttl
      BY <2>1, <2>2, <3>1, <3>3, <3>4, <3>5
    <3>6. CASE ~(run[r].age > Ttl)
      BY <2>1, <2>2, <3>1, <3>2, <3>3, <3>4, <3>6
    <3>7. QED
      BY <3>5, <3>6
  <2>5. QED
    BY <2>3, <2>4
<1>10. Holders' = h
  BY <1>1, <1>9, TableThen
<1>11. Idle' = [q \in Names |-> IF h[q] = {} THEN 0 ELSE Idle[q]]
  BY <1>1, <1>9, TableThen
<1>12. QED
  BY <1>10, <1>11, StoreReads DEF Store!StoreSweep, Store!Keep

\* The empty forest is the empty table.
LEMMA InitSays == TreeInit => Store!StoreInit
<1> SUFFICES ASSUME TreeInit PROVE Store!StoreInit
  OBVIOUS
<1>1. Shaped(run) /\ DOMAIN run = {}
  BY InitInv DEF TreeInit, TreeInv
<1>2. \A q \in Names : HoldersOf(run, q) = {} /\ IdleOf(run, q) = 0
  <2>1. ASSUME NEW q \in Names PROVE HoldersOf(run, q) = {} /\ IdleOf(run, q) = 0
    <3>1. q \in Ways /\ Cover(run, q) = {}
      BY <1>1, NameOK DEF Cover
    <3>2. QED
      BY <1>1, <3>1, CoverSays
  <2>2. QED
    BY <2>1
<1>3. Holders = [q \in Names |-> {}] /\ Idle = [q \in Names |-> 0]
  BY <1>2, TableThen
<1>4. QED
  BY <1>3, StoreReads DEF Store!StoreInit

\* Every step of the forest is a step of the table, or none.
LEMMA StepSays ==
  ASSUME ShortPaths, TreeInv, [TreeNext]_treeVars
  PROVE  [Store!StoreNext]_(Store!svars)
<1>1. CASE UNCHANGED treeVars
  <2>1. run' = run
    BY <1>1 DEF treeVars
  <2>2. Holders' = Holders /\ Idle' = Idle
    BY <2>1, TableThen
  <2>3. QED
    BY <2>2 DEF Store!svars
<1>2. ASSUME NEW s \in Slots, Clear(s) PROVE Store!StoreNext
  BY <1>2, ClearSays DEF Store!StoreNext
<1>3. ASSUME NEW s \in Slots, NEW p \in Paths, Commit(p, s) PROVE Store!StoreNext
  BY <1>3, CommitSays DEF Store!StoreNext
<1>4. CASE Sweep
  BY <1>4, SweepSays DEF Store!StoreNext
<1>5. CASE Tick
  BY <1>5, TickSays DEF Store!StoreNext
<1>6. QED
  BY <1>1, <1>2, <1>3, <1>4, <1>5 DEF TreeNext

\* Refinement: splitting, extending, clearing and evicting runs is invisible
\* (tree.go:224-285, 420-519, 529-603): as long as no path is longer than one eviction
\* unwinds, the forest behaves as the table of prefixes.
THEOREM ForestImplementsStore ==
  ASSUME ShortPaths
  PROVE  TreeSpec => ImplementsStore
<1>1. TreeInv /\ [TreeNext]_treeVars => [Store!StoreNext]_(Store!svars)
  BY StepSays
<1>2. QED
  BY InitInv, InitSays, TreeInvStep, <1>1, PTL DEF TreeSpec, ImplementsStore, Store!StoreSpec
=============================================================================
