------------------------------- MODULE Ladder -------------------------------
(***************************************************************************)
(* Policy.Select, the decision ladder of the routing flow (affinity/       *)
(* policy.go), and selectByCost, queueTarget and the least-outstanding     *)
(* selector under it.                                                      *)
(*                                                                         *)
(* A decision is a function of a view: load, the gauges of every candidate *)
(* (module Signals); depth, for each level of the request's path the       *)
(* backends marked on it, nested because a commit marks a whole path       *)
(* (module AffinityTree proves the walk finds exactly these); and the      *)
(* request.  Percentages are integers.  Metrics are left out.              *)
(*                                                                         *)
(* Loads and configurations are chosen in the initial state: every view is *)
(* one the counters can be in, and a decision reads them once.             *)
(***************************************************************************)
EXTENDS Signals, Sequences

CONSTANTS
  Fleet,    \* the backends the ladder chooses among
  Configs,  \* configurations, as given
  Loads,    \* loads a candidate may have
  Tokens    \* the request's size: estTokens

\* Config and the gauges are integers; a refusal is latched by a request that still
\* holds its lease, so never at level 0 (module Signals).
ASSUME LadderAssumption ==
  /\ IsFiniteSet(Fleet) /\ Tokens \in Nat /\ Null \notin [level : Nat, age : Nat]
  /\ Configs \subseteq [limit : Int, soft : Int, guard : Int, transient : Int, hard : Int,
                       softTtft : Int, relTtft : BOOLEAN, relDec : BOOLEAN,
                       cost : BOOLEAN, ratio : Int, strict : BOOLEAN]
  /\ Loads \subseteq [inflight : Nat, capacity : Nat \ {0}, p90 : Nat, decode : Nat,
                     work : Nat, gate : BOOLEAN,
                     latch : {Null} \cup [level : Nat \ {0}, age : Nat]]

VARIABLES
  cfg,    \* Policy.cfg
  load,   \* node -> load
  depth,  \* level -> the nodes marked on the path's prefix of that length
  units   \* whether the request has a routable prefix

ladderVars == << cfg, load, depth, units >>

\* Config.withDefaults: a band or a margin that means nothing is off.
WithDefaults(c) ==
  LET g == IF c.guard <= 0 \/ c.guard >= 100 THEN 20 ELSE c.guard IN
  [c EXCEPT
     !.guard = g,
     !.transient = IF @ < 0 \/ @ >= g THEN 0 ELSE @,
     !.soft = IF @ < 0 \/ c.limit <= 0 \/ @ >= c.limit THEN 0 ELSE @,
     !.hard = Max({@, 0}),
     !.softTtft = Max({@, 0})]

----------------------------------------------------------------------------
(* Reading the view. *)

\* pickBest over NormalizedLoad: any backend none is below.
LeastOutstanding(S, ld) ==
  {b \in S : \A c \in S : ld[b].inflight * ld[c].capacity <= ld[c].inflight * ld[b].capacity}

MinInflight(cands, ld) == Min({ld[c].inflight : c \in cands})

\* The levels the signals other than the TTFT one fire with: those before it in the
\* list, and the one after it.
Early(b, ld) == RefusedSignal(ld[b]) \cup ConcurrencySignal(ld[b], cfg.limit)
Late(b, cands, ld) == ImbalanceSignal(ld[b], MinInflight(cands, ld), cfg.ratio)

Fires(b, cands, ld) ==
  Early(b, ld) \cup TtftSignal(ld[b], cfg.hard) \cup Late(b, cands, ld) # {}

\* The reference a saturated backend supplies: the smallest level, but a signal
\* without one that comes first leaves 0 for good.
Reference(b, cands, ld) ==
  IF Early(b, ld) = {} /\ TtftSignal(ld[b], cfg.hard) # {} THEN 0
  ELSE Min(Early(b, ld) \cup Late(b, cands, ld))

Usable(cands, ld) == {b \in cands : ~Fires(b, cands, ld)}

\* Saturated by the concurrency signal and nothing else.
Waitable(cands, ld) ==
  {b \in cands : /\ ConcurrencySignal(ld[b], cfg.limit) # {} /\ RefusedSignal(ld[b]) = {}
                 /\ TtftSignal(ld[b], cfg.hard) = {} /\ Late(b, cands, ld) = {}}

\* tree.walk: the deepest level a member of S is marked on (0: none).
Anchor(S) == Max({0} \cup {k \in DOMAIN depth : depth[k] \cap S # {}})
MarkedAt(k) == IF k = 0 THEN {} ELSE depth[k]
AnchorHolders == MarkedAt(Anchor(Fleet))

\* tree.heldTokens: the depth one node holds.
HeldDepth(b) == Anchor({b})

----------------------------------------------------------------------------
(* The soft bands: which holders of the anchor a request would rather not  *)
(* use, and why.                                                           *)

SoftTtftOn(u, ld) == cfg.softTtft > 0 /\ \E c \in u : ld[c].p90 <= cfg.softTtft

OverSoft(c, u, ld) == SoftTtftOn(u, ld) /\ ld[c].p90 > cfg.softTtft

RelTtft(c, u, ld) == cfg.relTtft /\ \E o \in u \ {c} : ld[c].p90 > ld[o].p90
RelDecode(c, u, ld) == cfg.relDec /\ \E o \in u \ {c} : ld[c].decode > ld[o].decode + Tokens

Causes(c, u, ld) ==
  (IF cfg.soft > 0 /\ ld[c].inflight >= cfg.soft THEN {"concurrency"} ELSE {}) \cup
  (IF OverSoft(c, u, ld) THEN {"softTtft"} ELSE {}) \cup
  (IF RelTtft(c, u, ld) THEN {"relTtft"} ELSE {}) \cup
  (IF RelDecode(c, u, ld) THEN {"relDecode"} ELSE {})

\* The usable holders of the anchor, unless a shallow one is refused.
HoldersIn(u) ==
  LET a == Anchor(u) IN
  IF cfg.strict /\ a < Anchor(Fleet) THEN {} ELSE MarkedAt(a) \cap u

\* Tier 1's pool after the bands, and the holders they all pushed out.
Preferred(u, ld) == {c \in HoldersIn(u) : Causes(c, u, ld) = {}}
Stretch(u, ld) == IF Preferred(u, ld) = {} THEN HoldersIn(u) ELSE {}
SplitCauses(u, ld) == UNION {Causes(c, u, ld) : c \in Stretch(u, ld)}

----------------------------------------------------------------------------
(* The split guard. *)

\* The busiest saturated holder of this prefix, or -1.
SaturatedRef(cands, ld) ==
  Max({-1} \cup {Reference(b, cands, ld) : b \in (cands \ Usable(cands, ld)) \cap AnchorHolders})

\* Mutant: without a reference, just above the least loaded backend.
GuardRef_FleetMin(cands, ld) ==
  LET sat == SaturatedRef(cands, ld) IN
  IF sat > 0 THEN sat ELSE IF cfg.limit > 0 THEN cfg.limit ELSE MinInflight(cands, ld) + 1

\* guardRef: what a copy is measured against; 0 for nothing.
GuardRef(cands, ld) ==
  LET u == Usable(cands, ld)
      s == Stretch(u, ld)
      sat == SaturatedRef(cands, ld)
      base == IF s # {} /\ cfg.soft > 0 THEN cfg.soft ELSE IF sat > 0 THEN sat ELSE cfg.limit
      low == Min({ld[c].inflight : c \in s})
  IN  IF /\ s # {} /\ SplitCauses(u, ld) \cap {"relTtft", "relDecode"} # {}
         /\ low > 0 /\ (base <= 0 \/ low < base)
      THEN low ELSE base

BelowRef(b, ref, margin, ld) == ref <= 0 \/ 100 * ld[b].inflight < ref * (100 - margin)

\* The backends a copy may go to.
Targets(cands, ld) ==
  LET u == Usable(cands, ld)
      why == SplitCauses(u, ld)
  IN  {c \in u \ AnchorHolders :
         /\ ~OverSoft(c, u, ld)
         /\ "relTtft" \in why => \A h \in Stretch(u, ld) : ld[c].p90 < ld[h].p90
         /\ "relDecode" \in why => \A h \in Stretch(u, ld) : ld[c].decode + Tokens < ld[h].decode
         /\ BelowRef(c, GuardRef(cands, ld), cfg.guard, ld)}

\* Tier 2c's backends.
Transient(cands, ld) ==
  {c \in Usable(cands, ld) \ AnchorHolders :
     /\ cfg.transient > 0 /\ GuardRef(cands, ld) > 0
     /\ BelowRef(c, GuardRef(cands, ld), cfg.transient, ld)}

----------------------------------------------------------------------------
(* Select. *)

\* Mutant: any waitable backend is worth waiting on.
QueueTarget_Any(cands, ld) == LeastOutstanding(Waitable(cands, ld), ld)

\* queueTarget: the holders of the deepest run worth waiting for.
QueueTarget(cands, ld) ==
  LET w == Waitable(cands, ld) IN
  IF w = {} THEN {}
  ELSE IF ~units THEN LeastOutstanding(w, ld)
  ELSE IF Anchor(w) = 0 \/ Anchor(w) < Anchor(Fleet) THEN {}
  ELSE LeastOutstanding(AnchorHolders \cap w, ld)

\* selectByCost: the fewest tokens to prefill and already there, then in flight.
Cost(b, ld) == (Len(depth) - HeldDepth(b)) + ld[b].work
Cheapest(u, ld) ==
  {b \in u : \A c \in u : \/ Cost(b, ld) < Cost(c, ld)
                          \/ Cost(b, ld) = Cost(c, ld) /\ ld[b].inflight <= ld[c].inflight}

Tier(t, m, S, ld) == [tier |-> t, mark |-> m, to |-> LeastOutstanding(S, ld)]

\* Policy.Select: the tier, whether a commit will mark, and who may be chosen.
Select(cands, ld) ==
  LET u == Usable(cands, ld) IN
  CASE cands = {} -> Tier("none", FALSE, {}, ld)
    [] cands # {} /\ u = {} ->
         [tier |-> "saturated", mark |-> FALSE, to |-> QueueTarget(cands, ld)]
    [] u # {} /\ ~units -> Tier("load", FALSE, u, ld)
    [] u # {} /\ units /\ cfg.cost -> [tier |-> "cost", mark |-> TRUE, to |-> Cheapest(u, ld)]
    [] OTHER ->
         IF Preferred(u, ld) # {} THEN Tier("cache", TRUE, Preferred(u, ld), ld)
         ELSE IF AnchorHolders = {} THEN Tier("load", TRUE, u, ld)
         ELSE IF Targets(cands, ld) # {} THEN Tier("split", TRUE, Targets(cands, ld), ld)
         ELSE IF Stretch(u, ld) # {} THEN Tier("stretch", TRUE, Stretch(u, ld), ld)
         ELSE IF Transient(cands, ld) # {} THEN Tier("overflow", FALSE, Transient(cands, ld), ld)
         ELSE IF cfg.strict THEN Tier("blocked", FALSE, {}, ld)
         ELSE Tier("overflow", FALSE, cands, ld)

----------------------------------------------------------------------------
Nested(n) == {d \in [1..n -> SUBSET Fleet] : \A k \in 1..(n - 1) : d[k + 1] \subseteq d[k]}

LadderInit ==
  /\ cfg \in {WithDefaults(c) : c \in Configs}
  /\ load \in [Fleet -> Loads]
  /\ units \in BOOLEAN
  /\ depth \in IF units THEN Nested(2) ELSE {[k \in 1..2 |-> {}]}

\* Policy.Commit of a request that b served: every level of the path is marked,
\* unless the decision says not to or there is nothing to mark.
CommitPath(b, mark) ==
  /\ units /\ mark
  /\ depth' = [k \in DOMAIN depth |-> depth[k] \cup {b}]
  /\ UNCHANGED << cfg, load, units >>

Serve(cands) ==
  LET d == Select(cands, load) IN
  /\ d.tier \notin {"none", "saturated", "blocked"}
  /\ \E b \in d.to : CommitPath(b, d.mark)

LadderNext == \E cands \in SUBSET Fleet : Serve(cands)

LadderSpec == LadderInit /\ [][LadderNext]_ladderVars

----------------------------------------------------------------------------
\* A copy of a prefix relieves somebody (policy.go:565-606): a guarded split made
\* because holders are full, past the soft limit or slower lands on a backend with
\* fewer requests in flight than some holder it was made to escape.  Exempt are the
\* absolute TTFT band and gate, which name no in-flight level, and a relative trigger
\* on an idle holder: its own level 0 is no reference (h > 0, policy.go:603), so the
\* copy is held against the limit, if there is one.
SplitRelieves ==
  \A cands \in SUBSET Fleet :
    LET u == Usable(cands, load)
        s == Stretch(u, load)
        why == SplitCauses(u, load)
        away == (cands \cap AnchorHolders) \cup s
        d == Select(cands, load)
    IN  /\ d.tier = "split" /\ away # {} /\ "softTtft" \notin why
        /\ "concurrency" \in why \/ \A h \in s : load[h].inflight > 0
        /\ \A h \in away : TtftSignal(load[h], cfg.hard) = {}
        => \A t \in d.to : \E h \in away : load[t].inflight < load[h].inflight

\* A backend that holds nothing of the prefix has no say in the guard
\* (policy.go:370-377): whatever level a saturated outsider refused at, the decision
\* is the same.
OutsidersHaveNoSay ==
  \A cands \in SUBSET Fleet : \A o \in cands \ AnchorHolders :
    RefusedSignal(load[o]) # {} =>
      Select(cands, [load EXCEPT ![o].latch.level = 1]) = Select(cands, load)

\* A request queued on a backend is not turned away when it is woken
\* (policy.go:769-828): once the slot it waits for is free, the same decision finds a
\* backend that holds all of its prefix that anybody holds.
ForecastKept ==
  \A cands \in SUBSET Fleet :
    LET d == Select(cands, load) IN
    d.tier = "saturated" => \A b \in d.to :
      LET woken == Select(cands, [load EXCEPT ![b].inflight = cfg.limit - 1]) IN
      /\ woken.tier \notin {"saturated", "blocked"}
      /\ woken.to # {} /\ (units => woken.to \subseteq AnchorHolders)

\* Capacity is not refused for want of a holder (policy.go:608-617): with no limit
\* configured, and no holder of the prefix among the candidates, a usable backend
\* takes the request.
AbsentHoldersRelocate ==
  \A cands \in SUBSET Fleet :
    cfg.limit = 0 /\ cands \cap AnchorHolders = {} /\ Usable(cands, load) # {}
      => Select(cands, load).tier # "blocked"

\* What the guard may compare a copy with (policy.go:370-377, 565-617): only holders
\* of the prefix set its reference, so a copy relieves one of them, and without a
\* reference there is nothing to refuse for.
GuardIsHolders == SplitRelieves /\ OutsidersHaveNoSay /\ AbsentHoldersRelocate
============================================================================
