----------------------------- MODULE MockEngine -----------------------------
(***************************************************************************)
(* One instance of the mock vLLM server (mockvllm/engine.go, handlers.go,  *)
(* sse.go, tier.go): admission by a counter raised before it is compared,  *)
(* the pin on the request's blocks, the tier the fleet shares, prefill,    *)
(* decode, and the release that must follow whatever happened.  Several    *)
(* calls run at once over the trie of KvCache; every step between two      *)
(* atomics or two locks is an action.                                      *)
(*                                                                         *)
(* How long prefill takes is PrefillScheduler's subject; here it ends, or  *)
(* the caller leaves first.  JSON, usage and counters are left out.        *)
(***************************************************************************)
EXTENDS KvCache

CONSTANTS
  Served,           \* the prompts its clients send, of Contents
  MaxConcurrency,   \* Config.MaxConcurrency, 0 for no limit
  RejectTokens,     \* Config.PrefillRejectTokens, 0 for off
  Reply,            \* the synthetic completion, as words: syntheticTokens
  Filler            \* the word that fills an output block up

ASSUME EngineAssumption ==
  /\ Served \subseteq Contents /\ MaxConcurrency \in Nat /\ RejectTokens \in Nat

ServedUnits == {ChunkContent(c) : c \in Served}

VARIABLES
  calls,     \* owner -> where its request is, and the request
  inflight,  \* Engine.inflight
  tier,      \* the blocks of the fleet-shared Tier's trie
  computed   \* history: the blocks whose prefill was carried out

engineVars == << calls, inflight, tier, computed >>

NoRequest == [pc |-> "idle", units |-> << >>, stream |-> FALSE, bypass |-> FALSE,
              generated |-> 0]

EngineInit ==
  /\ calls = [o \in Owners |-> NoRequest]
  /\ inflight = 0
  /\ tier = {} /\ computed = {}

At(o, pc) == ~torn /\ calls[o].pc = pc
Goto(o, pc) == calls' = [calls EXCEPT ![o].pc = pc]

----------------------------------------------------------------------------
\* A request, its prompt tokenised; a streaming one may bypass the refusal, as the
\* prefill copies the router sends do.
EngineArrives(o, us) ==
  /\ At(o, "idle")
  /\ \E stream, bypass \in BOOLEAN :
       calls' = [calls EXCEPT ![o] = [NoRequest EXCEPT !.pc = "check", !.units = us,
                                                !.stream = stream, !.bypass = bypass]]
  /\ UNCHANGED << inflight, tier, computed >>

\* Tier.Query.
TierQuery(us) == Cover(us, Max({0} \cup {k \in 1..Len(us) : SubSeq(us, 1, k) \in tier}))

\* RejectsPrefill: what neither the trie nor the tier has would have to be recomputed.
RejectsPrefill(us, bypass) ==
  /\ RejectTokens > 0 /\ ~bypass
  /\ Cover(us, Len(us)) - Max({Query(kv, us), TierQuery(us)}) > RejectTokens

CheckPrefill(o) ==
  /\ At(o, "check")
  /\ IF RejectsPrefill(calls[o].units, calls[o].bypass)
     THEN calls' = [calls EXCEPT ![o] = NoRequest]
     ELSE calls' = [calls EXCEPT ![o].pc = "enter", ![o].bypass = FALSE]
  /\ UNCHANGED << inflight, tier, computed >>

\* Mutant: the request that reaches the limit is let in as well.
OverLimit_OffByOne(n) == MaxConcurrency > 0 /\ n > MaxConcurrency + 1

OverLimit(n) == MaxConcurrency > 0 /\ n > MaxConcurrency

\* Admit: the counter is raised first, and compared with what it became.
Enter(o) ==
  /\ At(o, "enter")
  /\ inflight' = inflight + 1
  /\ Goto(o, IF OverLimit(inflight + 1) THEN "bounce" ELSE "pin")
  /\ UNCHANGED << tier, computed >>

\* Admit takes its own increment back: 429.
Bounce(o) ==
  /\ At(o, "bounce")
  /\ inflight' = inflight - 1
  /\ calls' = [calls EXCEPT ![o] = NoRequest]
  /\ UNCHANGED << tier, computed >>

\* Admit pins the blocks.  What the trie and the tier had of them decides how long
\* prefill takes.
Pin(o) ==
  /\ At(o, "pin")
  /\ RecordAndPin(o, calls[o].units)
  /\ Goto(o, "prefill")
  /\ UNCHANGED << inflight, tier, computed >>

\* AwaitTTFT returns true.
PrefillDone(o) ==
  /\ At(o, "prefill")
  /\ computed' = computed \cup ChainOf(calls[o].units)
  /\ Goto(o, "decode")
  /\ UNCHANGED << inflight, tier >>

\* AwaitTTFT returns false: the caller left during prefill.
PrefillLeft(o) ==
  /\ At(o, "prefill")
  /\ Goto(o, "unpin")
  /\ UNCHANGED << inflight, tier, computed >>

\* The completion: a stream whose caller left keeps what it had generated, a response in
\* one piece is given up.
Decode(o, n) ==
  /\ At(o, "decode")
  /\ n = Len(Reply) \/ calls[o].stream
  /\ calls' = [calls EXCEPT ![o].pc = "append", ![o].stream = FALSE, ![o].generated = n]
  /\ UNCHANGED << inflight, tier, computed >>

DecodeLeft(o) ==
  /\ At(o, "decode") /\ ~calls[o].stream
  /\ Goto(o, "unpin")
  /\ UNCHANGED << inflight, tier, computed >>

\* The blocks of a reply of n words, the last one filled up.
OutputBlocks(n) ==
  [i \in 1..((n + ChunkWords - 1) \div ChunkWords) |->
     [first |-> FALSE,
      words |-> [k \in 1..ChunkWords |->
                   LET w == (i - 1) * ChunkWords + k IN IF w <= n THEN Reply[w] ELSE Filler]]]

\* AppendOutputBlocks: the reply extends the request's own chain.
AppendOutput(o) ==
  /\ At(o, "append")
  /\ LET us == calls[o].units \o OutputBlocks(calls[o].generated) IN
     IF calls[o].generated = 0 THEN UNCHANGED kvVars
     ELSE Commit(us)
  /\ calls' = [calls EXCEPT ![o].pc = "publish", ![o].generated = 0]
  /\ UNCHANGED << inflight, tier, computed >>

\* PublishToTier: the prompt's blocks only.
Publish(o) ==
  /\ At(o, "publish")
  /\ tier' = tier \cup ChainOf(calls[o].units)
  /\ Goto(o, "unpin")
  /\ UNCHANGED << inflight, computed >>

\* Another instance of this server computed a prompt and published it.
PublishedElsewhere(us) ==
  /\ ~torn
  /\ computed' = computed \cup ChainOf(us)
  /\ tier' = tier \cup ChainOf(us)
  /\ UNCHANGED << calls, inflight >>

\* The deferred release: first the pin, then the slot.
ReleasePin(o) ==
  /\ At(o, "unpin")
  /\ Unpin(o)
  /\ calls' = [calls EXCEPT ![o] = [NoRequest EXCEPT !.pc = "exit"]]
  /\ UNCHANGED << inflight, tier, computed >>

ReleaseSlot(o) ==
  /\ At(o, "exit")
  /\ inflight' = inflight - 1
  /\ calls' = [calls EXCEPT ![o] = NoRequest]
  /\ UNCHANGED << tier, computed >>

EngineNext ==
  \/ \E o \in Owners :
       \/ Pin(o) \/ AppendOutput(o) \/ ReleasePin(o)
       \/ /\ \/ \E us \in ServedUnits : EngineArrives(o, us)
             \/ CheckPrefill(o) \/ Enter(o) \/ Bounce(o) \/ PrefillDone(o)
             \/ PrefillLeft(o) \/ DecodeLeft(o) \/ Publish(o) \/ ReleaseSlot(o)
             \/ \E n \in 0..Len(Reply) : Decode(o, n)
          /\ UNCHANGED kvVars
  \/ /\ \E us \in ServedUnits : PublishedElsewhere(us)
     /\ UNCHANGED kvVars

EngineSpec == KvInit /\ EngineInit /\ [][EngineNext]_<< kvVars, engineVars >>

----------------------------------------------------------------------------
Admitted == {o \in Owners : calls[o].pc \in {"pin", "prefill", "decode", "append",
                                            "publish", "unpin", "exit"}}

\* However admissions, refusals and disconnects interleave: no more calls are past the
\* admission than MaxConcurrency, though the counter itself overshoots while refused calls
\* take their increment back, and it counts exactly the calls that will lower it again
\* (engine.go:303-336); and the tier never "ends up advertising blocks nobody ever wrote"
\* (tier.go:60-65).
EngineSound ==
  /\ MaxConcurrency > 0 => Cardinality(Admitted) <= MaxConcurrency
  /\ inflight = Cardinality(Admitted) + Cardinality({o \in Owners : calls[o].pc = "bounce"})
  /\ tier \subseteq computed
============================================================================
