---------------------------- MODULE PrefixStore ----------------------------
(***************************************************************************)
(* What the affinity tree promises, without runs: for every prefix, which  *)
(* backends hold it and how long ago a request last went through it.       *)
(*                                                                         *)
(* A prefix is a sequence: the model's key, then its blocks.  A backend is *)
(* its slot.  Serving a path gives its backend every prefix of it; a       *)
(* backend that leaves takes its holdings along; a prefix nobody has used  *)
(* for longer than the TTL is forgotten by everyone at once.               *)
(***************************************************************************)
EXTENDS Integers, Sequences

CONSTANTS
  Paths,  \* the requests' paths: the model's key and at least one block
  Slots,  \* the backends' slots
  Ttl     \* time to live, in ticks

VARIABLES
  holders,  \* prefix -> slots that hold it
  idle      \* prefix -> ticks since a request went through it, capped past Ttl

svars == << holders, idle >>

Prefixes == UNION {{SubSeq(p, 1, k) : k \in 2..Len(p)} : p \in Paths}
Under(q, p) == Len(q) <= Len(p) /\ q = SubSeq(p, 1, Len(q))

StoreInit ==
  /\ holders = [q \in Prefixes |-> {}]
  /\ idle = [q \in Prefixes |-> 0]

\* Serve p on s.
StoreCommit(p, s) ==
  /\ holders' = [q \in Prefixes |-> holders[q] \cup IF Under(q, p) THEN {s} ELSE {}]
  /\ idle' = [q \in Prefixes |-> IF Under(q, p) THEN 0 ELSE idle[q]]

\* Prefixes whose holder set becomes empty are forgotten.
Keep(h) ==
  /\ holders' = h
  /\ idle' = [q \in Prefixes |-> IF h[q] = {} THEN 0 ELSE idle[q]]

StoreDrop(s) == Keep([q \in Prefixes |-> holders[q] \ {s}])

StoreSweep == Keep([q \in Prefixes |-> IF idle[q] > Ttl THEN {} ELSE holders[q]])

StoreTick ==
  /\ idle' = [q \in Prefixes |->
       IF holders[q] = {} \/ idle[q] > Ttl THEN idle[q] ELSE idle[q] + 1]
  /\ UNCHANGED holders

StoreNext ==
  \/ \E s \in Slots : StoreDrop(s) \/ \E p \in Paths : StoreCommit(p, s)
  \/ StoreSweep \/ StoreTick

StoreSpec == StoreInit /\ [][StoreNext]_svars
============================================================================
