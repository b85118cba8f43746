----------------------------- MODULE TtftWindow -----------------------------
(***************************************************************************)
(* A backend's rolling window of times to first token (registry.Backend's  *)
(* ObserveTTFT, TTFTp90, evictTTFT) with the cached percentile that        *)
(* routing reads.                                                          *)
(*                                                                         *)
(* A sample is [d, age].  Ages stop counting once the sample is too old.   *)
(***************************************************************************)
EXTENDS Integers, Sequences, FiniteSets, FiniteSetsExt

CONSTANTS
  Durations,    \* sampled durations, in milliseconds
  TtftKept,       \* ttftWindow
  MinSamples,   \* ttftMinSamples
  WindowCap,    \* ttftWindowCap
  CacheTTL,     \* ttftCacheTTL
  NotCached

ASSUME TtftAssumption ==
  /\ Durations \subseteq Nat \ {0} /\ TtftKept \in Nat \ {0} /\ CacheTTL \in Nat \ {0}
  /\ MinSamples \in 1..WindowCap /\ WindowCap \in Nat

VARIABLES
  win,     \* ttftWin, oldest first
  cache,   \* [val, age] when p90Valid
  answer   \* what TTFTp90 last returned, and the samples it might have used

ttftVars == << win, cache, answer >>

\* evictTTFT: the samples at the front that are too old, up to one that is not.
Evicted ==
  LET old == {k \in 0..Len(win) : \A i \in 1..k : win[i].age > TtftKept}
  IN  SubSeq(win, Max(old) + 1, Len(win))

TtftInit == win = << >> /\ cache = NotCached /\ answer = [val |-> 0, of |-> << >>]

\* ObserveTTFT: the window's end is dropped when it is full.
ObserveTTFT(d) ==
  LET w == IF Len(Evicted) >= WindowCap THEN Tail(Evicted) ELSE Evicted IN
  /\ d > 0
  /\ win' = Append(w, [d |-> d, age |-> 0])
  /\ cache' = NotCached
  /\ UNCHANGED answer

\* Mutant: the index of the code, ceil(0.9 n) - 1, taken for the rank.
Rank_ZeroBased(n) == (n * 9 + 9) \div 10 - 1

\* The rank of the 90th percentile of n samples.
Rank(n) == (n * 9 + 9) \div 10

\* Where sorting by duration puts sample i.
Place(w, i) ==
  Cardinality({j \in DOMAIN w : w[j].d < w[i].d \/ (w[j].d = w[i].d /\ j <= i)})

P90(w) ==
  IF Len(w) < MinSamples THEN 0
  ELSE w[CHOOSE i \in DOMAIN w : Place(w, i) = Rank(Len(w))].d

\* TTFTp90.
TTFTp90 ==
  IF cache # NotCached /\ cache.age < CacheTTL
  THEN answer' = [val |-> cache.val, of |-> win] /\ UNCHANGED << win, cache >>
  ELSE /\ win' = Evicted
       /\ cache' = [val |-> P90(Evicted), age |-> 0]
       /\ answer' = [val |-> P90(Evicted), of |-> Evicted]

\* Time passes.
TtftTick ==
  /\ win' = [i \in DOMAIN win |-> [win[i] EXCEPT !.age = IF @ > TtftKept + CacheTTL THEN @ ELSE @ + 1]]
  /\ cache' = IF cache = NotCached \/ cache.age = CacheTTL THEN cache
              ELSE [cache EXCEPT !.age = @ + 1]
  /\ answer' = [val |-> 0, of |-> << >>]

TtftNext == TtftTick \/ TTFTp90 \/ \E d \in Durations : ObserveTTFT(d)

TtftSpec == TtftInit /\ [][TtftNext]_ttftVars

----------------------------------------------------------------------------
\* The percentile routing acts on is of recent samples, enough of them, and is one:
\* nine in ten are no slower, and fewer are faster (backend.go:222-247).  So a backend
\* that gets no traffic is not slow for longer than the window and the cache last,
\* however many reads and samples kept it warm before (backend.go:185-199).
PercentileIsRecent ==
  LET w == answer.of
      n == Len(w)
      Has(P(_)) == Cardinality({i \in DOMAIN w : P(w[i])})
  IN  answer.val > 0 =>
        /\ n >= MinSamples /\ n <= WindowCap
        /\ Has(LAMBDA s : s.age < TtftKept + CacheTTL) = n
        /\ 10 * Has(LAMBDA s : s.d <= answer.val) >= 9 * n
        /\ 10 * Has(LAMBDA s : s.d < answer.val) < 9 * n
=============================================================================
