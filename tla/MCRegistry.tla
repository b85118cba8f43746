----------------------------- MODULE MCRegistry -----------------------------
(***************************************************************************)
(* Instances of Registry for TLC.  Objects, drain goroutines and writers   *)
(* are interchangeable, and so are URLs.                                   *)
(***************************************************************************)
EXTENDS Registry, TLC

Symmetry ==
  Permutations(Urls) \cup Permutations(Objects) \cup Permutations(Drainers)
    \cup Permutations(Writers)
============================================================================
