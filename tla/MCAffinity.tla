----------------------------- MODULE MCAffinity -----------------------------
(* The affinity policy in three parts, one running at a time.  Tree: paths   *)
(* with a shared opening and a fork, one that ends where others go on and    *)
(* one of another model, so that every way a path can meet a run             *)
(* (match it, end in it, leave it, extend it) occurs.  Signals: the feedback *)
(* of one backend.  Ladder: a decision on every combination of the loads     *)
(* below, which straddle each limit of the configurations: idle, just under  *)
(* the guard, between guard and limit, at the limit, refused at a low and at *)
(* a high level, gated, and slow when busy or idle.                          *)
EXTENDS AffinityTree, Ladder, TLC

VARIABLE part   \* which part is running

SmallPaths == {<< "m", "a" >>, << "m", "a", "b", "c" >>, << "m", "a", "b", "d" >>,
               << "n", "a" >>}

Base == [limit |-> 5, soft |-> 0, guard |-> 20, transient |-> 0, hard |-> 0,
         softTtft |-> 0, relTtft |-> FALSE, relDec |-> FALSE, cost |-> FALSE,
         ratio |-> 0, strict |-> TRUE]
SmallConfigs ==
  {Base, [Base EXCEPT !.limit = 0], [Base EXCEPT !.soft = 3, !.transient = 5],
   [Base EXCEPT !.softTtft = 1, !.soft = 3], [Base EXCEPT !.relTtft = TRUE, !.relDec = TRUE],
   [Base EXCEPT !.hard = 2, !.ratio = 50, !.limit = 0], [Base EXCEPT !.cost = TRUE],
   [Base EXCEPT !.strict = FALSE, !.guard = 0, !.transient = 50],
   [Base EXCEPT !.strict = FALSE, !.soft = 3]}

NoLoad == [inflight |-> 0, capacity |-> 1, p90 |-> 0, decode |-> 0, work |-> 0,
           latch |-> Null, gate |-> FALSE]
LoadAt(k) == [NoLoad EXCEPT !.inflight = k, !.work = k]
SmallLoads ==
  {NoLoad, [LoadAt(3) EXCEPT !.decode = 3], LoadAt(5),
   [LoadAt(4) EXCEPT !.latch = [level |-> 4, age |-> 0]],
   [LoadAt(3) EXCEPT !.latch = [level |-> 2, age |-> 1]],
   [LoadAt(3) EXCEPT !.p90 = 2, !.gate = TRUE], [NoLoad EXCEPT !.p90 = 2],
   [LoadAt(1) EXCEPT !.p90 = 1, !.capacity = 2]}

Init ==
  /\ TreeInit /\ SigInit
  /\ \/ part = "ladder" /\ LadderInit
     \/ /\ part \in {"tree", "signals"}
        /\ cfg = Base /\ load = [n \in Fleet |-> NoLoad]
        /\ depth = [k \in 1..2 |-> {}] /\ units = FALSE

Next ==
  \/ part = "tree" /\ TreeNext /\ UNCHANGED << sigVars, ladderVars, part >>
  \/ part = "signals" /\ SigNext /\ UNCHANGED << treeVars, ladderVars, part >>
  \/ part = "ladder" /\ LadderNext /\ UNCHANGED << treeVars, sigVars, part >>

Spec ==
  /\ Init /\ [][Next]_<< treeVars, sigVars, ladderVars, part >>
  /\ part = "signals" => SigFairness

\* The one liveness property, of the signals, tells neither slots nor the fleet apart.
Symmetry == Permutations(Slots) \union Permutations(Fleet)
=============================================================================
