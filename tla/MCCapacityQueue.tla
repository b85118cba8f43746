-------------------------- MODULE MCCapacityQueue --------------------------
(* Small pools.  MCCapacityQueue: four requests and one slot, the smallest  *)
(* case in which one request holds the slot, two sleep behind it and a      *)
(* fourth finds the queue full.  MCQueueAnswered: two backends, one of them *)
(* coming and going, for the walk past a refusal.                           *)
EXTENDS CapacityQueue, TLC

Symmetry == Permutations(Requests)
============================================================================
