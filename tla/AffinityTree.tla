---------------------------- MODULE AffinityTree ----------------------------
(***************************************************************************)
(* The radix-compressed prefix forest of the affinity policy (tree.go): a  *)
(* run is a chain of blocks without a branch and the slots marked on it.   *)
(*                                                                         *)
(* A run is named by the whole sequence from the root to its last block,   *)
(* the model's key first, so that parents, children and the walk along a   *)
(* path are relations between sequences: run[q].from is how much of q      *)
(* belongs to its ancestors.  What is a pointer in the code is a name      *)
(* here; a run whose last block changes (an extended tail) is renamed.     *)
(* Hashes stand for themselves and a block counts one token.               *)
(*                                                                         *)
(* Each action runs under the shard's lock, and a path lives in one shard, *)
(* so one shard is enough.  Slots come and go in module PrefixSlots.       *)
(***************************************************************************)
EXTENDS Integers, Sequences, FiniteSets, FiniteSetsExt

CONSTANTS
  Paths,       \* the paths requests bring: the model's key, then the blocks
  Slots,       \* backend slots
  Ttl,         \* tree.ttl, in ticks
  MaxCascade   \* maxCascade

\* The models' keys and the blocks' hashes.
Hashes == UNION {{p[i] : i \in DOMAIN p} : p \in Paths}

ASSUME PathsAssumption == Paths \subseteq Seq(Hashes) /\ \A p \in Paths : Len(p) >= 2
ASSUME TtlAssumption == Ttl \in Nat /\ MaxCascade \in Nat \ {0}

VARIABLES
  run,     \* name -> [from, marks, age]: the runs
  roots,   \* the models that have a root
  tails,   \* the names of the childless runs
  runs, blocks, copies  \* the shard's running totals

treeVars == << run, roots, tails, runs, blocks, copies >>

Names == UNION {{SubSeq(p, 1, k) : k \in 2..Len(p)} : p \in Paths}

TreeInit ==
  /\ run = << >>
  /\ roots = {} /\ tails = {}
  /\ runs = 0 /\ blocks = 0 /\ copies = 0

----------------------------------------------------------------------------
(* Runs as sequences. *)

Upto(p, k) == SubSeq(p, 1, k)
IsAbove(q, p) == Len(q) < Len(p) /\ q = Upto(p, Len(q))

\* run.blocks.
BlocksOf(f, q) == Len(q) - f[q].from

\* run.parent, or the root.
Parent(f, q) == Upto(q, f[q].from)

\* The runs below q in f.
Below(f, q) == {r \in DOMAIN f : IsAbove(q, r)}

\* How far q and p agree.
Agree(q, p) == Max({k \in 0..Min({Len(q), Len(p)}) : Upto(q, k) = Upto(p, k)})

\* The runs a descent along p visits: find succeeds at the end of every run that
\* is on p, and a run p leaves in the middle is the last.
Visited(f, p) ==
  {q \in DOMAIN f : f[q].from < Len(p) /\ Upto(q, f[q].from + 1) = Upto(p, f[q].from + 1)}

\* How much of p is found.
Depth(f, p) == Max({1} \cup {Agree(q, p) : q \in Visited(f, p)})

----------------------------------------------------------------------------
(* walk and heldTokens. *)

\* The last of a set of visited runs.
Deepest(S) == CHOOSE q \in S : \A r \in S : Len(r) <= Len(q)

\* The visited runs held by a candidate.
Anchored(p, cands) == {q \in Visited(run, p) : run[q].marks \cap cands # {}}

\* anchors: pool and its depth, held and its depth, and whether they are one run.
Walk(p, cands) ==
  LET avail  == Anchored(p, cands)
      marked == {q \in Visited(run, p) : run[q].marks # {}}
      At(S)  == IF S = {} THEN << {}, 0 >>
                ELSE << run[Deepest(S)].marks, Agree(Deepest(S), p) - 1 >>
  IN  [pool |-> At(avail)[1], anchorBlocks |-> At(avail)[2],
       held |-> At(marked)[1], heldBlocks |-> At(marked)[2],
       matched |-> Depth(run, p) - 1,
       availDeepest |-> avail # {} /\ Deepest(avail) = Deepest(marked)]

\* The tokens of p's prefix that slot s holds.
HeldTokens(p, s) ==
  Max({0} \cup {Agree(q, p) - 1 : q \in {r \in Visited(run, p) : s \in run[r].marks}})

----------------------------------------------------------------------------
(* commit. *)

\* Mutant: the lower half keeps no holder.
Split_LosesMarks(f, q, m) ==
  [r \in DOMAIN f \cup {Upto(q, m)} |->
     IF r = Upto(q, m) THEN f[q]
     ELSE IF r = q THEN [f[q] EXCEPT !.from = m, !.marks = {}] ELSE f[r]]

\* splitRun: the upper half takes q's place, both halves start with its holders.
Split(f, q, m) ==
  [r \in DOMAIN f \cup {Upto(q, m)} |->
     IF r = Upto(q, m) THEN f[q]
     ELSE IF r = q THEN [f[q] EXCEPT !.from = m] ELSE f[r]]

\* The forest once p ends at a run's end as far as it is found.
Cut(f, p) ==
  LET torn == {q \in Visited(f, p) : Agree(q, p) < Len(q)} IN
  IF torn = {} THEN f ELSE Split(f, CHOOSE q \in torn : TRUE, Depth(f, p))

\* Every run along p is marked and touched.
Marked(f, p, s) ==
  [q \in DOMAIN f |->
     IF q \in Visited(f, p) THEN [f[q] EXCEPT !.marks = @ \cup {s}, !.age = 0] ELSE f[q]]

\* Mutant: a tail another backend also holds is extended.
PrivateTail_Shared(f, q, s) == q \in DOMAIN f /\ Below(f, q) = {} /\ s \in f[q].marks

\* A private tail is extended in place.
PrivateTail(f, q, s) == q \in DOMAIN f /\ Below(f, q) = {} /\ f[q].marks = {s}

\* The rest of p is hung below tip, or appended to it.
Grown(f, p, s) ==
  LET tip == Upto(p, Depth(f, p)) IN
  IF tip = p THEN f
  ELSE IF PrivateTail(f, tip, s)
  THEN [q \in (DOMAIN f \ {tip}) \cup {p} |-> IF q = p THEN f[tip] ELSE f[q]]
  ELSE [q \in DOMAIN f \cup {p} |->
          IF q = p THEN [from |-> Len(tip), marks |-> {s}, age |-> 0] ELSE f[q]]

\* Tails after the growth: the tip is one no longer, p is, unless nothing grew.
GrownTails(f, p) ==
  LET tip == Upto(p, Depth(f, p)) IN
  IF tip = p THEN tails ELSE (tails \ {tip}) \cup {p}

Commit(p, s) ==
  LET cut == Cut(run, p)
      new == {q \in Visited(cut, p) : s \notin cut[q].marks}
      on  == Marked(cut, p, s)
      all == Grown(on, p, s)
      added == Len(p) - Depth(on, p)
      split == Cardinality(DOMAIN cut) - Cardinality(DOMAIN run)
      grown == Cardinality(DOMAIN all) - Cardinality(DOMAIN on)
  IN  /\ run' = all
      /\ roots' = roots \cup {p[1]}
      /\ tails' = GrownTails(on, p)
      /\ runs' = runs + split + grown
      /\ blocks' = blocks + added
      /\ copies' = copies + added + MapThenSumSet(LAMBDA q : BlocksOf(cut, q), new)

----------------------------------------------------------------------------
(* Eviction. *)

\* unlinkRun of every run in gone, whose children are in gone as well.
Unlinked(f, gone) ==
  LET left == [q \in DOMAIN f \ gone |-> f[q]] IN
  /\ run' = left
  /\ roots' = {m \in roots : \E q \in DOMAIN left : q[1] = m}
  /\ tails' = (tails \ gone) \cup
       {Parent(f, q) : q \in {r \in gone : /\ Parent(f, r) \in DOMAIN left
                                           /\ Below(left, Parent(f, r)) = {}}}
  /\ runs' = runs - Cardinality(gone)
  /\ blocks' = blocks - MapThenSumSet(LAMBDA q : BlocksOf(f, q), gone)

\* The copies of the runs in S.
CopiesOf(f, S) == MapThenSumSet(LAMBDA q : BlocksOf(f, q) * Cardinality(f[q].marks), S)

\* evictOrphans: childless runs without a holder, up to a run that has one.
Orphans(f) == {q \in DOMAIN f : f[q].marks = {} /\ \A r \in Below(f, q) : f[r].marks = {}}

\* dropBackend's pass over the shard: clearSlot, then evictOrphans.
Clear(s) ==
  LET f == [q \in DOMAIN run |-> [run[q] EXCEPT !.marks = @ \ {s}]] IN
  /\ Unlinked(f, Orphans(f))
  /\ copies' = copies - MapThenSumSet(LAMBDA q : BlocksOf(run, q),
                                      {q \in DOMAIN run : s \in run[q].marks})

Stale(f, q) == f[q].age > Ttl

\* evictTail: the tail q, and each ancestor that is left childless and is stale.
Chain(f, q) ==
  LET Stem(a) == {b \in DOMAIN f : b = a \/ IsAbove(a, b)} IN
  {a \in DOMAIN f :
     /\ a = q \/ IsAbove(a, q)
     /\ \A b \in Stem(a) : b = q \/ (IsAbove(b, q) /\ Stale(f, b))
     /\ Cardinality(Stem(a)) <= MaxCascade}

\* evictTail, after which the forest is smaller.
EvictTail(q, f) ==
  IF q \in DOMAIN f THEN [r \in DOMAIN f \ Chain(f, q) |-> f[r]] ELSE f

\* sweep.
Sweep ==
  LET dead == {q \in tails : Stale(run, q)}
      gone == DOMAIN run \ DOMAIN FoldSet(EvictTail, run, dead)
  IN  /\ Unlinked(run, gone)
      /\ copies' = copies - CopiesOf(run, gone)

\* Time passes.
Tick ==
  /\ run' = [q \in DOMAIN run |->
       IF Stale(run, q) THEN run[q] ELSE [run[q] EXCEPT !.age = @ + 1]]
  /\ UNCHANGED << roots, tails, runs, blocks, copies >>

TreeNext ==
  \/ \E s \in Slots : Clear(s) \/ \E p \in Paths : Commit(p, s)
  \/ Sweep \/ Tick

TreeSpec == TreeInit /\ [][TreeNext]_treeVars

----------------------------------------------------------------------------
\* The run that covers a prefix, its holders and its age.
Cover(f, q) == {r \in DOMAIN f : f[r].from < Len(q) /\ (q = r \/ IsAbove(q, r))}
HoldersOf(f, q) == UNION {f[r].marks : r \in Cover(f, q)}
IdleOf(f, q) == Max({0} \cup {f[r].age : r \in Cover(f, q)})
Holders == [q \in Names |-> HoldersOf(run, q)]
Idle == [q \in Names |-> IdleOf(run, q)]

Store == INSTANCE PrefixStore WITH holders <- Holders, idle <- Idle

\* Splitting, extending, clearing and evicting runs is invisible (tree.go:224-285,
\* 420-519, 529-603): the forest behaves as a table of prefixes and holders in
\* which a commit adds exactly the prefixes of its path for its backend, a drop
\* takes exactly one backend out, and a sweep forgets exactly what is stale.
ImplementsStore == Store!StoreSpec

\* The running totals and the tail set are what a traversal would find
\* (tree.go:136-142, 420-519, 557-582): they survive every split, extension,
\* cascade and drop, and no model root outlives its last run.
TotalsExact ==
  /\ runs = Cardinality(DOMAIN run)
  /\ blocks = MapThenSumSet(LAMBDA q : BlocksOf(run, q), DOMAIN run)
  /\ copies = CopiesOf(run, DOMAIN run)
  /\ tails = {q \in DOMAIN run : Below(run, q) = {}}
  /\ roots = {q[1] : q \in DOMAIN run}

\* A walk over compressed runs finds what block-by-block lookup would
\* (tree.go:324-404): the deepest prefix some candidate holds, with
\* exactly its holders, the deepest anybody holds, and per slot the depth held.
WalkIsDeepest ==
  \A p \in Paths, cands \in SUBSET Slots :
    LET Held(S) == {k \in 2..Len(p) : Holders[Upto(p, k)] \cap S # {}}
        At(S) == IF Held(S) = {} THEN << {}, 0 >>
                 ELSE << Holders[Upto(p, Max(Held(S)))], Max(Held(S)) - 1 >>
        w == Walk(p, cands)
    IN  /\ << w.pool, w.anchorBlocks >> = At(cands)
        /\ << w.held, w.heldBlocks >> = At(Slots)
        /\ w.availDeepest <=> w.anchorBlocks > 0 /\ w.anchorBlocks = w.heldBlocks
        /\ \A s \in cands : HeldTokens(p, s) = At({s})[2]

\* The index is exact as a whole: what is counted is what is there, and what is found
\* is what the blocks say (tree.go:136-142, 324-404).
IndexExact == TotalsExact /\ WalkIsDeepest
============================================================================
