------------------------------ MODULE KvCache -------------------------------
(***************************************************************************)
(* The prefix-cache model shared by the router, the mock engine and the    *)
(* offline simulators (kvcache/kvcache.go): content cut into units, a trie *)
(* of units bounded by least-recently-used eviction of its leaves, and     *)
(* pins that keep the chain of a running request out of eviction's reach.  *)
(*                                                                         *)
(* A node is named by the units from the root to it, so that a parent is a *)
(* prefix and a leaf a maximal sequence.  Hashing is taken to be           *)
(* injective.  Every operation runs under the trie's lock.                 *)
(*                                                                         *)
(* RecordAndPin evicts before it pins and may evict part of the chain it   *)
(* is about to pin.  torn records that; what detached nodes do to the      *)
(* intrusive list afterwards is not modelled, so nothing follows it.       *)
(***************************************************************************)
EXTENDS Integers, Sequences, FiniteSets, FiniteSetsExt, SequencesExt

CONSTANTS
  Contents,   \* prompts, as sequences of four-byte words
  ChunkWords, \* chunkBytes / 4
  Caps,       \* the configurations: records of nodes, tokens, evict and pins
  Owners,     \* requests that may hold a pin
  NoChain     \* no pin

ASSUME KvAssumption ==
  /\ ChunkWords \in Nat \ {0} /\ IsFiniteSet(Owners)
  /\ \A c \in Contents : c \in Seq(ToSet(c))
  /\ \A c \in Caps : c.nodes \in Nat /\ c.tokens \in Nat /\ c.evict \in Nat \ {0}

VARIABLES
  cap,   \* Trie.cfg, and whether the owner pins (the mock engine) or never does
  kv,    \* [set, lru, pins, nodes, tokens, pinned]: the trie, most recent first
  held,  \* owner -> the chain of its Pin
  torn   \* a chain was pinned that had lost a node

kvVars == << cap, kv, held, torn >>

----------------------------------------------------------------------------
(* Units. *)

\* EstimateTokens of so many bytes.
EstimateTokens(bytes) == IF bytes <= 0 THEN 0 ELSE Max({bytes \div 4, 1})

\* The i-th window of a content.
Window(c, i) == SubSeq(c, (i - 1) * ChunkWords + 1, Min({i * ChunkWords, Len(c)}))

\* ChunkContent: one unit per window, the first one tagged.
ChunkContent(c) ==
  IF c = << >> THEN << [first |-> TRUE, words |-> << >>] >>
  ELSE [i \in 1..((Len(c) + ChunkWords - 1) \div ChunkWords) |->
          [first |-> i = 1, words |-> Window(c, i)]]

UnitTokens(u) == IF u.words = << >> THEN 1 ELSE EstimateTokens(4 * Len(u.words))

\* Cover: the tokens of the first m units.
Cover(us, m) == MapThenSumSet(LAMBDA i : UnitTokens(us[i]), 1..m)

ChainOf(us) == {SubSeq(us, 1, k) : k \in 1..Len(us)}
Chunked == {ChunkContent(c) : c \in Contents}

ASSUME NoChainAssumption == NoChain \notin Chunked

----------------------------------------------------------------------------
(* The trie. *)

EmptyTrie == [set |-> {}, lru |-> << >>, pins |-> << >>, nodes |-> 0, tokens |-> 0, pinned |-> 0]

KvInit ==
  /\ cap \in Caps
  /\ kv = EmptyTrie
  /\ held = [o \in Owners |-> NoChain]
  /\ torn = FALSE

Kids(t, q) == {r \in t.set : Len(r) = Len(q) + 1 /\ IsStrictPrefix(q, r)}
PinsOf(t, q) == IF q \in DOMAIN t.pins THEN t.pins[q] ELSE 0

\* lruRemove, of what may not be listed.
Unlisted(l, q) == RemoveFirst(l, q)

\* How many leading units of us the trie has: Query, and the walk of the others.
Matched(t, us) == Max({0} \cup {k \in 1..Len(us) : SubSeq(us, 1, k) \in t.set})
Query(t, us) == Cover(us, Matched(t, us))

\* insertLocked: q becomes a leaf and its parent is one no longer.
InsertNode(t, q) ==
  [t EXCEPT !.set = @ \cup {q}, !.lru = << q >> \o Unlisted(@, Front(q)),
            !.nodes = @ + 1, !.tokens = @ + UnitTokens(Last(q))]

OverBudget(t) ==
  \/ cap.nodes > 0 /\ t.nodes > cap.nodes
  \/ cap.tokens > 0 /\ t.tokens > cap.tokens

\* Mutant: a pinned parent is listed when its last child goes.
BecomesLeaf_Pinned(t, p) == p # << >> /\ Kids(t, p) = {}

\* The parent is left a leaf and may be evicted next.
BecomesLeaf(t, p) == p # << >> /\ Kids(t, p) = {} /\ PinsOf(t, p) = 0

\* One round of evictLocked's loop.
EvictOne(t) ==
  IF ~OverBudget(t) \/ t.lru = << >> \/ Kids(t, Last(t.lru)) # {} THEN t
  ELSE LET v == Last(t.lru)
           p == Front(v)
           s == [t EXCEPT !.set = @ \ {v}, !.lru = Front(@),
                          !.nodes = @ - 1, !.tokens = @ - UnitTokens(Last(v))]
       IN  IF BecomesLeaf(s, p) THEN [s EXCEPT !.lru = Append(@, p)] ELSE s

\* evictLocked.
Evicted(t, budget) ==
  LET after[i \in 0..budget] == IF i = 0 THEN t ELSE EvictOne(after[i - 1]) IN after[budget]

Bounded == cap.nodes > 0 \/ cap.tokens > 0

\* insertFrom the units after the first m.
InsertFrom(t, us, m) ==
  LET after[i \in m..Len(us)] ==
        IF i = m THEN t ELSE InsertNode(after[i - 1], SubSeq(us, 1, i))
  IN  IF Bounded THEN Evicted(after[Len(us)], Len(us) - m + cap.evict) ELSE after[Len(us)]

\* commitLocked: a matched leaf is used anew.
Committed(t, us) ==
  LET m == Matched(t, us)
      q == SubSeq(us, 1, m)
  IN  InsertFrom(IF Contains(t.lru, q) THEN [t EXCEPT !.lru = << q >> \o Unlisted(@, q)] ELSE t, us, m)

RecordedIn(t, us) == InsertFrom(t, us, Matched(t, us))

\* pinChain: what was not pinned before is listed no longer.
PinChain(t, us) ==
  LET chain == ChainOf(us)
      new == {q \in chain : PinsOf(t, q) = 0}
      list[k \in 0..Len(us)] ==
        IF k = 0 THEN t.lru
        ELSE IF SubSeq(us, 1, k) \in new THEN Unlisted(list[k - 1], SubSeq(us, 1, k))
        ELSE list[k - 1]
  IN  [t EXCEPT !.lru = list[Len(us)],
                !.pinned = @ + Cardinality(new),
                !.pins = [q \in DOMAIN @ \cup chain |-> PinsOf(t, q) + IF q \in chain THEN 1 ELSE 0]]

\* unpinChain: what is free again and still a leaf has just been used.
UnpinChain(t, us) ==
  LET chain == ChainOf(us)
      freed == {q \in chain : PinsOf(t, q) = 1}
  IN  [t EXCEPT !.pinned = @ - Cardinality(freed),
                !.lru = IF us \in freed /\ Kids(t, us) = {} THEN << us >> \o @ ELSE @,
                !.pins = [q \in DOMAIN @ \ freed |-> PinsOf(t, q) - IF q \in chain THEN 1 ELSE 0]]

----------------------------------------------------------------------------
(* The operations. *)

Commit(us) ==
  /\ ~torn /\ us # << >>
  /\ kv' = Committed(kv, us)
  /\ UNCHANGED << cap, held, torn >>

RecordAndCount(us) ==
  /\ ~torn /\ us # << >>
  /\ kv' = RecordedIn(kv, us)
  /\ UNCHANGED << cap, held, torn >>

RecordAndPin(o, us) ==
  /\ ~torn /\ us # << >> /\ cap.pins /\ held[o] = NoChain
  /\ LET t == RecordedIn(kv, us) IN
     /\ kv' = PinChain(t, us)
     /\ torn' = ~(ChainOf(us) \subseteq t.set)
  /\ held' = [held EXCEPT ![o] = us]
  /\ UNCHANGED cap

Unpin(o) ==
  /\ ~torn /\ held[o] # NoChain
  /\ LET t == UnpinChain(kv, held[o]) IN
     kv' = IF Bounded THEN Evicted(t, cap.evict) ELSE t
  /\ held' = [held EXCEPT ![o] = NoChain]
  /\ UNCHANGED << cap, torn >>

\* Reset, which must not be called with pins outstanding.
Reset ==
  /\ ~torn /\ \A o \in Owners : held[o] = NoChain
  /\ kv' = EmptyTrie
  /\ UNCHANGED << cap, held, torn >>

KvNext ==
  \/ \E us \in Chunked : \/ Commit(us) \/ RecordAndCount(us)
                         \/ \E o \in Owners : RecordAndPin(o, us)
  \/ (\E o \in Owners : Unpin(o)) \/ Reset

KvSpec == KvInit /\ [][KvNext]_kvVars

----------------------------------------------------------------------------
\* One call's blocks are worth no more tokens than it evicts blocks, of at least one token each.
BudgetCovers == \A us \in Chunked : Cover(us, Len(us)) <= Len(us) + cap.evict

\* "ONLY UNPINNED leaves are in the list" (kvcache.go:274-282, 599-606, 622-633), each
\* once, and all of them, so the tail can always be evicted and eviction always makes
\* progress; the running totals are what a traversal would find; a pinned chain stays
\* whole however others insert, finish and evict around it; and without pins the cap on
\* nodes is real (kvcache.go:577-579), the one on tokens where the budget covers what a
\* call may add, which otherwise "carries to the next mutation" (kvcache.go:251-253).
TrieExact ==
  ~torn =>
    /\ ToSet(kv.lru) = {q \in kv.set : Kids(kv, q) = {} /\ PinsOf(kv, q) = 0}
    /\ IsInjective(kv.lru)
    /\ kv.nodes = Cardinality(kv.set)
    /\ kv.tokens = MapThenSumSet(LAMBDA q : UnitTokens(Last(q)), kv.set)
    /\ kv.pinned = Cardinality({q \in kv.set : PinsOf(kv, q) > 0})
    /\ \A q \in kv.set : PinsOf(kv, q) = Cardinality({o \in Owners : held[o] # NoChain /\ IsPrefix(q, held[o])})
    /\ \A o \in Owners : held[o] # NoChain => ChainOf(held[o]) \subseteq kv.set
    /\ ~cap.pins => /\ cap.nodes > 0 => kv.nodes <= cap.nodes
                    /\ cap.tokens > 0 /\ BudgetCovers => kv.tokens <= cap.tokens
============================================================================
