# wekai: TLA+ models and proofs

wekai has two halves: an inference router (`router/`) that places LLM requests on a fleet of
vLLM backends so that prompts land where their prefix is cached, and a set of clients and
benchmark tools (`llm/`, `kvcache/`, `benchmark/`, `cli/`). This project models the router
whole, but for its text processing and its start-up, and those parts of the other half that
keep state other code relies on: the KV cache index, the mock engine, the endpoint router and
the chat clients.

Every module is translated from the source at the lines named under `map` in `PROJECT.json`.
In this document and in the modules, `lease.go` means `router/internal/lease/lease.go`, and
so on for the other packages of `router/internal`; other paths are given from `src/`.

## 1. Inventory

| Component | State | Operations | Meets others through |
|---|---|---|---|
| Load leases (`lease`, `registry/backend.go`) | per backend: `inflight`, three token gauges, the hard-TTFT gate; per lease: its charges, `released` | Acquire, StartActive, StartPrefill, EndPrefill, StartDecode, Release | proxy acquires and releases; Release wakes the wait queue; the policy reads the gauges |
| First-token window (`registry/backend.go`) | samples with their times, cached p90 | ObserveTTFT, TTFTp90 | the proxy observes, gate and signals read |
| Wait queue (`waitq`) and capacity retry (`gateway/capacity_retry.go`) | per backend: FIFO of tickets; per request: budget, `queuedOn`, last result | Join, Wake, Leave; awaitSlot, serveWithCapacityRetry | woken by Release and by abandoned waiters; calls proxy.Serve |
| Circuit breaker (`circuit`) | state, ring of one-second buckets, probe tokens, half-open successes | Allow, Record, State | proxy calls Allow and Record; candidate filtering reads State |
| Registry (`registry/registry.go`) | snapshot URL → backend, `draining`, the mutex | Add, Remove, drain, awaitDrain, unlink, ReconcileDiscovered | admin endpoints and discovery write; requests read snapshots; OnAdd/OnDrop call the policy |
| Affinity tree (`policy/affinity/tree.go`) | slot table, free list, radix-compressed runs with marks and ages, totals | slotFor, slotOrCreate, dropBackend, walk, commit, sweep | hooks of the registry; Select and Commit of requests; a sweep ticker |
| Affinity policy (`policy.go`, `signal.go`, `relative.go`) | refused latches | Select (signals, tiers, split guard), queueTarget, cost routing, OnRefused, OnAccepted | proxy calls Select, Commit and the outcome callbacks |
| Proxy (`proxy`) | per request: remaining candidates, two budgets, committed; per attempt: contexts, stream scanner | Serve, attempt, runAttempt, Relay | policy, breaker, lease, upstream |
| Gateway (`gateway`) | concurrency slots | middleware chain, inferenceHandler, admin handlers | everything above |
| Model routing (`routing`, `serve/automodel.go`) | rule table, discovered model of each pool | Resolve, resolveAutoModel, merged listing, credentials | gateway before it serves |
| Prefill split (`prefill`, `gateway/prefill_split.go`) | mode and jobs of each node, queue | Reserve, WaitReady, Done, releaseExpired, Prune | gateway on a large-prefill rejection; filters candidates |
| PD serving (`pd`, `gateway/pd_serve.go`) | P and D sets | pdServe | gateway; two legs through proxy.Serve |
| Health checker (`health`) | streaks and probe times by URL | round, probe, observe | sets `Backend.health` |
| Discovery (`discovery/k8s`) | informer cache | Run, reconcileFrom | calls ReconcileDiscovered |
| Engine metrics (`vllmmetrics`), series (`metrics/backend_series.go`) | totals, previous readings; remembered backends | ScrapeAll; Collect | registry snapshots, scrapes |
| KV cache index (`kvcache/`) | trie, LRU list, pins, totals | Record, RecordAndPin, Unpin, commits, estimates | mock engine and simulators |
| Mock engine (`mockvllm`) | in-flight counter, trie, shared tier, prefill jobs | Admit, prefill, decode, release | HTTP handlers |
| Dynamic endpoints (`llm/endpoint_*.go`) | memo per endpoint, homes, in-flight counts | resolve, AcquireForRequest, ReleaseIndex | chat getters, replay |
| Chat clients (`llm/`) | history, pending tool results, last request and response | Request, Respond, clear, recover | agents and benchmarks |
| Pool, process, dialects, metrics, viz, CLI, benchmark driver | wiring, text, reports | — | — |

What is hard here:

* **Steps outside locks.** `Allow` takes its token after the mutex, `unlink` runs `OnDrop` after
  it, `dropBackend` gives its lock up twice, `Wake` sends after unlocking, `Commit` reads a slot
  before it locks the shard, `WaitReady` drops the lock between passes, discovery lists before it
  reconciles.
* **Stale reads by design.** Requests work on old snapshots and on an in-flight count read
  before the increment; a lease may outlive the backend's drain; health streaks and engine
  readings are kept by URL and outlive the process behind it.
* **Panics as control flow.** `httputil.ReverseProxy` raises `http.ErrAbortHandler` whenever a
  copy fails mid-stream, through every frame of the request.
* **Hand-over obligations.** A wake, a half-open token, a charged gauge, a closed gate, a
  prefill slot, a concurrency slot and a pin each have to be given back by exactly one party on
  every path.
* **Compressed state.** The tree's runs, the ring of buckets, the trie's eviction list and the
  running totals stand for something larger and must stay equal to it.
* **A client that stops reading.** A `Write` to it has no timeout, and what cancels an attempt does
  not end it.
* **Two budgets in one loop** (failures and refusals), and a loop counter that is decremented.

`PROJECT.json` lists these as hazards, each at its line with the properties that watch it.

## 2. Modules

| Module | Models | Run |
|---|---|---|
| `Lease`, `Circuit`, `TtftWindow`, `PrefixSlots` | `lease.go` over the atomics of `backend.go`; `circuit.go`; the p90 window of `backend.go`; slots of `tree.go` and their use in `policy.go` | `backend` |
| `AffinityTree`, `PrefixStore`, `Signals`, `Ladder` | runs of `tree.go`; what they stand for; `signal.go`; `Select` and what it calls | `affinity` |
| `ProxyServe`, `UpstreamStream`, `PdServe`, `Health`, `Discovery` | `Serve` and the handler's answer; one attempt; `pd_serve.go`; `health.go`; `discovery.go` | `progress` |
| `PrefillSplit`, `EngineCounters`, `BackendSeries`, `Gateway`, `ModelRouting` | `manager.go`, `prefill_split.go`; `vllmmetrics.go`; `backend_series.go`; `middleware.go`, `gateway.go`; `routing.go`, `automodel.go` | `fleet` |
| `KvCache`, `MockEngine`, `PrefillScheduler`, `Endpoints`, `ChatClients` | `kvcache.go`; `engine.go`, `handlers.go`, `sse.go`, `tier.go`; `prefill.go`; `llm/endpoint_*.go`; the four clients and `state_recovery.go` | `fleet` |
| `CapacityQueue` | `waitq.go`, `capacity_retry.go` | `queue`, `queue_answered` |
| `Registry` | `registry.go`, the policy's index behind the hooks | `registry`, `reconcile` |
| `BackendProofs`, `TreeProofs`, `AffinityProofs`, `CapacityQueueProofs`, `RegistryProofs`, `ServingProofs`, `FleetProofs` | theorems about the modules of their name; `BackendProofs` on `Lease`, `Circuit` and `TtftWindow`; `TreeProofs` on `AffinityTree` and `PrefixStore`; `AffinityProofs` on `PrefixSlots` and `Ladder`; `ServingProofs` on `ProxyServe`, `UpstreamStream`, `PdServe`, `Health`, `ModelRouting` and `ChatClients`; `FleetProofs` on `Gateway`, `KvCache`, `MockEngine`, `PrefillScheduler`, `Endpoints`, `EngineCounters`, `BackendSeries` and `PrefillSplit` | — |
| `Sums` | what the proofs need of sums over finite sets and of their maxima | — |

`MCBackend`, `MCAffinity`, `MCProgress` and `MCFleet` put several independent components into
one run. They share no state in the code, or none that a property of either is about, so
running them interleaved would multiply their states and show nothing more: the variable `part`
chooses one in the initial state and the others stand still. States add up instead of
multiplying, and every invariant is evaluated in every part. Components that do interact are
modelled together: requests, tickets, leases and breakers in `CapacityQueue`; writers, drains,
requests and the policy's index in `Registry`; jobs and decode requests in `PrefillSplit`; calls,
trie and tier in `MockEngine`, which extends `KvCache`; `Ladder` over the loads of `Signals`.

No cfg replaces a definition. Operators named `X_Something` next to an operator `X` are
deliberate faults of `X` used to show that a property can fail.

### What a request shares of a backend

**Lease.** One backend. `phase` is each lease's position: `AcquireCount` and `NoteAdmit` are the
two atomic steps of `Acquire`; `ReleaseTokens` (the section under `Lease.mu`),
`ReleaseInflight` and `ReleaseGate` are those of `Release`, behind `sync.Once`. The start
operations may come at any time after Acquire has returned, also after the release. Whether the
p90 is over the hard limit at an admission is left open. The three gauges are changed together
in `ReleaseTokens`: the section holds the lease's mutex, and other leases only add their own
amounts to the same atomics, so no property can tell the adds apart.

**Circuit.** Time is `Tick`, one second; a bucket keeps its age and the breaker the time since
it opened, capped where the code no longer tells values apart. `history` records the outcomes of
the last `Window` seconds independently of the ring. `Allow`/`TakeToken` and
`Record`/`ReturnToken` are separate steps; the failure rate is a fraction.

**TtftWindow.** Samples with their ages, evicted by age and by count, and the cached answer with
the window it was computed from. Time is in ticks, of which window and cache each last two.
Reading the clock and taking `ttftMu` are one step: the code reads `now` just before the lock, so
two observers that pass each other there may leave the window out of order by that moment, and
the older of the two samples then stays as long as the newer. `Place` says where the sort puts a
sample instead of sorting.

**PrefixSlots.** `slots`, `free`, `nextSl` as in `tree.go`. `marks` is a set of pairs
slot–backend, the backend standing for the prefixes it computed. `DropTake`, `DropClear`,
`DropFree` are the three sections of `dropBackend`; `CommitSlot` and `CommitMark` the two of a
commit. `tainted` is a history variable: the slots marked by a commit whose slot had been taken
away meanwhile.

### Affinity

**AffinityTree** names a run by the whole sequence from the root to its last block, so parents,
children and walks are relations between sequences. Commit (cut, mark, extend a private tail or
append), clearing with its orphans, and the TTL cascade run under the shard's lock and are one
action each. **PrefixStore** is what the policy believes it has: for every prefix, its holders
and its age, no runs. The refinement maps every prefix of a run to the run's marks and age
(`Store == INSTANCE PrefixStore WITH ...`), and `ImplementsStore` says that each step of the
tree is a step of the store: compression loses nothing, invents nothing and forgets only what is
stale. `IndexExact` adds that the totals are right and that `walk` returns the deepest level
held by a candidate and by anyone.

**Signals** are functions of a load, and the feedback loop of the refused one: requests chosen,
leased, told 429 or 2xx in any order, and released.

**Ladder** is Select as a function of a view: loads, nested holders by depth, configuration. The
run evaluates it on every combination of eight kinds of load on three backends, every nested
choice of holders and every candidate subset. Its properties compare *two* decisions: with a
bystander changed, with the awaited slot free.

### The path of a request

**ProxyServe.** One request through `Serve`, with everything around it free: any selection or
refusal, any breaker of `Tripping` may deny, any outcome of an attempt. `Candidates` reads a
fresh candidate set, which may have become empty, and `ServeAgain` waits a refusal out.
`AnswerOf` is the handler's switch; `"nothing"` is its first case with nothing committed.

**UpstreamStream** opens one attempt up: the round trip, the stream scanner, the three contexts
(the client's, RequestTimeout's, the idle timer's) and ReverseProxy's two ways of reporting an
error. Reading a chunk and writing it to the client are two steps, and the second blocks while
the client takes no bytes. Its verdict is what the breaker hears.

**PdServe** is the two legs; a body is its token limit, whether it streams and its transfer
parameters, and `buf` the documents the leg's `captureWriter` was given. **CapacityQueue** has one record per request goroutine, `pc` naming its next step on
shared state: the rebuild of the candidate set, Select's reading of in-flight counts, the
breaker's denial, the increment, the decrement, the pop and the send of `Wake`, `Join`, the
re-check, the three arms of the wait, `Leave`. `Flap` is health, drain and circuit. The lock-free
test of `Queue.n` and the one under the lock are one step, because both return without effect on
an empty queue and a `Join` after either re-checks `inflight`. Only the strict ladder is
modelled: the older one may fall back to a saturated backend.

**Gateway** is the chain of middlewares around two calls that share the slots, with the router's
own routes told apart from the passthrough by method and path; **ModelRouting**
the rule, rewritten name and credential of each call, and the background discovery of a pool's
model while its backends come and go.

### Membership and background work

**Registry.** `cur` is the snapshot, `obj` the heap of `*Backend` values (collected when nothing
refers to them, so a finite set is enough), `index` the policy's `backends` map. `mu` is a
variable only across Add's hook, the one critical section with a step inside it. Any call of
`ReconcileDiscovered` with any desired set may overlap any other. Two history variables say what
the properties must allow: `raced`, the URLs last added with an `OnDrop` for them still to come,
and `revived`, what others put in service during each writer's sweep.

**Health** and **Discovery** run against membership that changes under them; **PrefillSplit**
names a node object by URL and epoch, since `Prune` forgets an object that jobs still point to;
**EngineCounters** and **BackendSeries** follow engines that restart, vanish and return.

### Clients and the mock

**KvCache** names a trie node by its units. **MockEngine** interleaves calls between every two
atomics or locks. **PrefillScheduler** counts work in parts of a tick so that shares are whole.
**Endpoints** is discovery behind `sync.Once` and the choice of a slot. **ChatClients** follows
one conversation through failures, repeats, pending tool results, clearing and restart, for each
of the four clients.

## 3. Runs

Passing runs:

| Run | Instance | Distinct states | Shows |
|---|---|---|---|
| `backend` | 3 leases; 2 requests at a breaker with window 2, ring 3, one probe; windows of up to 3 samples; 2 URLs, 1 drop, 1 request | 985 K | gauges, gate, tokens, ring, percentile and slots are exact at every step, and the breaker recovers |
| `affinity` | four paths of up to three blocks, 2 slots, TTL 1; 3 followed requests and others at one backend; 3 backends in 8 loads under 9 configurations | 32 K | the tree implements the store, its totals and walks are right, the guard and the forecast keep their promises, refusals end |
| `progress` | 3 candidates, 2 attempts; one stream of 2 chunks; 2 P nodes and a D node; one URL registered 3 times; 2 cluster objects | 45 K | attempts are safe, judged once and end unless the client stops reading for ever; the decode leg is the client's request; health and discovery follow |
| `fleet` | 3 nodes and 2 jobs; an engine; 2 pools of one label; 2 calls and one slot; 2 pools, 3 models; 2 owners over a trie of 3–4 nodes; 2 prefills; 3 callers, 2 endpoints; 4 clients | 1.1 M | the books of each agree with what is under way |
| `queue` | 4 requests, 1 backend, limit 1, depth 2 | 794 K | a ticket has one owner and the depth bound holds; a free slot has a wake |
| `queue_answered` | 2 requests, 2 backends, one of which flaps and may deny | 73 K | every request ends |
| `registry` | 1 URL, 3 objects, 2 writers, 2 drains, 1 request | 1.9 M | a draining backend has a watcher; the index holds what the registry does, but for a URL added again before a late `OnDrop`; a reconciliation leaves nothing undesired, whatever the other writer does |
| `reconcile` | 2 URLs, 2 objects, 1 writer, 1 drain, 1 request | 162 K | drains end, or are undone |

`backend`, `affinity` and `fleet` take one to three and a half minutes, `registry` three, the others up to one and a half. `affinity` is
reduced by symmetry of the slots and of the fleet: no definition of its parts tells two slots or
two backends apart, and its one liveness property is about neither.

Bounds and why they are enough. Four requests are what the queue's races need: one holding the
slot, one woken, one asleep behind it and one that finds the queue full. `queue` keeps its
backend available, since availability at four requests is too large; `queue_answered` and
`queue_lost_wake` (three requests) let it change. One URL with three objects lets a backend be
removed, re-added and removed again while a request still holds the first. Window 2 with ring 3
makes an index come round while an older bucket is still on the window's edge. Three candidates
are needed for the two budgets of `Serve` to disagree. The paths of `affinity` have a shared
opening and a fork, one ends where the others go on and one is of another model, so that a path
meets a run in every way there is. A share of 67 % of three nodes lets two leave
decode and stop at the third. Each health threshold is 2, so that a streak can be half done when
its backend is replaced. One engine that counts three times can be
read, restart, count again and be away for longer than it is remembered; endpoints' books are
independent but for their sum. One tool call and five messages are enough for a call to be
answered, repeated after a failure, and recovered. The bounds that are no parameter of the code are
constants and guards: `MaxPerSecond`, `Drainers`, `MaxCascade`, `MaxOther`, `MaxChunks`,
`MaxRegistrations`, `MaxDecode`, `Busy`, `MaxEpoch`, `MaxWork`, `MaxTotal`, `MaxRequests`, `MaxObjects`,
`MaxClock`, `MaxHistory`.

Runs that show the code doing other than its comments say (details and quotations under
`findings`):

| Run | What happens |
|---|---|
| `queue_lost_wake` | a woken request that finds no candidate, or is unwound by a panic, takes the wake with it |
| `registry_readd` | a re-added backend is unlinked by the drain it cancelled |
| `serve_empty_answer` | three candidates, two attempts, two 503s: the client gets an empty response |
| `proxy_truncated` | a stream the upstream breaks off is recorded as Ignored, as if the client had left (and is counted and labelled as a client disconnect; so is the idle timeout's cancel) |

### Disagreements without a run

Met while modelling; each is what the model does where a comment says otherwise.

Router, path of a request:

* `capacity_retry.go:70-74` says a request answered queue-full never waited. One that was woken
  and lost its slot joins again at the back (line 295) and can be refused there.
* `lease.go:184-188` says the wake keeps a queued request from waiting past the moment its slot
  freed. A woken request that is served elsewhere passes its wake on after Serve has returned
  (`capacity_retry.go:248-251`), that is after its whole response.
* `capacity_retry.go:242-243` leaves an empty set on entry to the handler's check
  (`gateway.go:242`), but the loop reads the set again: if the last backend goes in between, the
  zero Result is returned and the handler writes nothing.
* `circuit.go:115` speaks of probe successes. `Record` looks at the state and not at the token,
  so results of requests admitted before the trip count too (line 243).
* `proxy.go:684-686` says a 429 is recorded as a circuit failure; `Classify` ignores it
  (`circuit.go:90`).
* `signal.go:47-58` says a backend that refused is skipped until it has room. `OnRefused` latches
  its in-flight count while the refused attempt still holds its own lease
  (`proxy.go:462-463`, `597-603`), so the level is one too high and that attempt's release alone
  makes the backend eligible again.
* `policy.go:592-594` says that under a relative trigger the copy must land clearly below the
  holder it relieves. A holder that is slow but idle (its first-token window outlives its
  requests) gives no reference, for 0 counts as none (line 603): the copy is held against the
  configured limit and may land on a busier backend. `SplitRelieves` exempts it.
* `policy.go:861-862` says marks are cleared before a slot is freed, so that a later backend cannot
  inherit prefixes it never served. A commit reads its slot before the shard's lock
  (`policy.go:849`): by the time it marks, the slot may be the next backend's. `NoInheritance` is
  stated for all other marks.
* `proxy.go:781-784` says RequestTimeout bounds the whole call, and gives the idle timer as what
  keeps a stream from holding its lease. Both cancel a context, which ends a read of the upstream
  and no `Write` to the client, and no server sets a `WriteTimeout` (`gateway.go:812-820`,
  `serve.go:879-882`): a client that stops reading with its connection open holds the attempt,
  the lease and a concurrency slot as long as it likes. `AttemptEnds` has `[]<>~stalled` as its
  premise; without it TLC finds the attempt that stays in `Write`.
* `pd_serve.go:26-28` says a prefill leg that cannot be completed leaves the request to a D node.
  One whose answer breaks off aborts the handler, and with it the client's request.
* `middleware.go:142` says that every request is logged and counted; one that panics or aborts
  passes the access log's code after `next` uncounted.
* `gateway.go:447-449` says the listing's label cannot disagree with the routing. The label is the
  first pool that *lists* a model, the route the first rule that *matches* its name.
* `gateway/config.go:66` says an empty allowlist allows the dialect's own routes only; it allows
  every path (`middleware.go:411-416`).
* `serve/capture.go:77` says the body is already bounded by MaxBytesReader; the capturing
  middleware is outside the one that arms it (`middleware.go:285`), and records nothing of a
  request that panics.

Membership and background work:

* `pool.go:144-147` says prefix state follows the backend's lifecycle. `OnDrop` runs by URL after
  the unlock (`registry.go:242`) and can erase the entry of a backend re-added meanwhile, which
  then stays registered, served and unknown to the policy's index until it is added anew;
  `IndexFollows` confines that to the URLs in `raced`, added while an `OnDrop` for them was to come;
  `slotOrCreate` for a request that outlives the drop gives the URL a slot nobody takes back.
* `health.go:42-43` asks for consecutive results. A backend re-added under its URL inherits the
  streak of its predecessor.
* `vllmmetrics.go:66-70` says totals are unaffected by forgetting an endpoint. One that returns
  after `maxMissingCycles` has its whole counter added again; `NothingTwice` excludes that case.
* `manager.go` measures MaxFleetFraction against the candidates of the moment, the healthy ones
  only, and charges a rejection that names no size one token.

KV cache, mock engine and clients:

* `kvcache.go:434-437` and `engine.go:296-298` say that a request's own blocks cannot be evicted
  under it. `RecordAndPin` inserts, and evicts, before it pins (`kvcache.go:466-467`): with a small
  bound the matched prefix may be evicted from under the new tail. `torn` records it and
  `TrieExact` says nothing afterwards, because the intrusive list is then corrupt.
* `handlers.go:211` of the mock says the same conversation has the same block hashes through
  either surface; the two flatten roles and content differently.
* After Close, a prefill whose caller's context ends waits for ever to hand its job back
  (`prefill.go:118`).
* `llm/llminterface.go:104` says ClearHistory keeps the system prompt; the OpenAI and Gemini
  clients drop it, and pending tool results survive.
* `llm/anthropic.go:101` rolls the history back so that retries do not repeat the user's message,
  but the pending tool results are gone; the OpenAI and Gemini clients keep the message, which
  `benchmark/chat_invoke.go:45` then sends twice.
* `llm/state_recovery.go:33` recovers nothing for the Responses API because context is chained by
  response id; the id is not recovered either.
* A stream that ends early is a success for all four clients.

## 4. Fairness

* `CapacityQueue`: weak fairness of each request's own steps (goroutines run, upstream calls end
  because `RequestTimeout` and the idle timeout bound them, as long as the client they stream to
  reads: see `UpstreamStream`). The budget is strongly fair: the
  clock runs whatever the goroutine does, and the model lets the deadline pass only at the
  steps before it is read. Nothing else is assumed of clients, nor of wakes by others or the fleet.
* `Circuit`: time passes; an admitted request records its outcome and returns its token
  (`runAttempt` guarantees it). Arrivals are a premise of `Recovers`, not an assumption.
* `Registry`: writers' and drains' goroutines run; strong fairness for a drain, which shares a
  `sync.Mutex` that cannot starve a waiter. Requests need never end.
* `Signals`: the clock runs. Requests may stay with their backend for ever.
* `ProxyServe`: Select returns and an attempt ends, which is `AttemptEnds` of `UpstreamStream`, with
  its premise about the client.
* `UpstreamStream`: the router's own steps are taken and its two timers fire, the idle one where no
  read pushes it back. A `Write` returns if the connection takes bytes again and again (strong
  fairness); that it does is the premise of `AttemptEnds` (`[]<>~stalled`) and not a fairness
  condition. Nothing is assumed of the upstream, which may fall silent for ever.
* `PdServe`: the router's steps are taken and the retry budget runs out. The prefill leg writes to
  a buffer, so no client can hold it.
* `Health`: the ticker ticks and probes are answered or time out. `Discovery`: the informer
  resyncs, and both goroutines finish what they began. Both properties are about a cluster that
  comes to rest.

The other modules make only safety claims. Deadlock is checked in `Registry` and
`CapacityQueue`; in the runs of several parts it is not, because parts may rightly stop: all
leases done, a request answered, a conversation at its bound, a decision taken.

## 5. Proofs

All for every value of the constants, under the `ASSUME`s of the component's module, which TLC
evaluates in the run that contains it: finite sets of whoever takes part, natural-number
configuration as the code normalises it, `None` and its like outside the other sets. The theorems
are about the components' own specifications (`LeaseSpec`, `CircuitSpec`, `SlotsSpec`,
`LadderSpec`, ...); a part of the run of several components executes exactly those. Each proof has
the same three facts: `Init => IInv`, one step per action for `IInv /\ [Next]_vars => IInv'`, and
`IInv => Inv`. What makes each invariant inductive:

* **BackendProofs**, lease. `InflightExact`: inflight equals the number of leases between increment and
  decrement, by lemmas on adding or taking one lease; with it the clamp of `lease.go:172` is shown
  dead. `GaugesExact`: every step moves one lease's charge and one gauge by the same amount
  (`SumMoves`). `ReleasedEmpty` and `GateAlwaysHeld` are inductive with the phase structure.
* **BackendProofs**, breaker. `SemaphoreExact`: tokens equal probes, at most `HalfOpenMax`. The invariant
  adds that a goroutine past Record's mutex still holds its token (`pc = "recorded" => token`):
  without it the decrement could be somebody else's. State and window do not occur in the
  argument: tokens are right in whatever state they are taken. `WindowExact`: the bucket a
  second's outcomes are in is the cursor less that second's age, modulo the ring, and every other
  bucket is out of the window; so the ring's sum over the window is the history's, by renaming
  and skipping terms. Its hypothesis `Window <= Buckets` is what `DefaultConfig`, the one
  configuration in use, satisfies (`circuit.go:121-122`, 30 and 30); with fewer buckets than
  seconds the ring does count an old bucket that no later second has overwritten.
* **BackendProofs**, first-token window. `PercentileAlwaysRecent`: the window is oldest first,
  and that is what makes it enough to evict from the front (`TtftInv`): the first sample young
  enough has only younger ones behind it. That the index of the code names a sample with nine in
  ten no slower rests on sorting leaving no place empty and none taken twice; `Place` is therefore
  shown to be one-to-one from the samples to `1..n`, and the slower and the faster ones are
  counted through it.
* **TreeProofs**, index. `IndexAlwaysExact`: the totals, the tail set and the walks are right
  because of what the forest looks like (`TreeInv`). `Shaped`: a run is named by the prefix it
  ends with and no two cover the same prefix (`Pieces`, `Apart`), whatever is above a run's first
  block is covered too (`Rooted`), and downwards holders only leave and ages only grow
  (`Fading`). `Held`: every run between two operations is held by somebody. `Counted`: totals, tails and roots are
  those of the runs. Without `Rooted` a walk could stop above a holder; without `Fading` the
  deepest run found need not name everybody who holds it; neither shows in the property itself.
* **TreeProofs**, refinement. `ForestImplementsStore`: a commit, however it splits, extends and
  appends runs, adds its backend to exactly the prefixes of its path; a drop takes one backend
  out; and a sweep forgets exactly what is stale. The first two need only `TreeInv`. The third
  follows a dead tail's ancestors upwards, each a tail once what hung from it has gone, and needs
  the hypothesis `ShortPaths`: that a cascade is not cut off before it reaches the root. The
  code cuts it at 4096 runs (`tree.go:549-552`) and goes on with the next sweep, so a longer
  chain is forgotten later than the table would, and the step is not one of the table's. A path
  of that many runs has as many blocks at least.
* **AffinityProofs**, slots. `SlotsApart`: slots are neither shared nor lost. The invariant adds
  that a drop holds a slot exactly between its first and last section; each step either moves
  one slot from one place to another or none. `NothingInherited` adds that the slot of an
  untainted mark is still the marked backend's, or is held by a drop that has yet to clear it.
* **AffinityProofs**, decisions. A step of `Ladder` changes the marks alone, so the invariant
  (`ViewOK`) is the type of a view, and the theorems are about `Select` as a function.
  `GuardAlwaysHolders`: every level a signal names is positive and carried by its backend
  (`LevelsCarried`), so the guard's reference is carried by a backend that the copy is made to
  escape (`RefIsRelieved`); and two views that differ only in the level an outsider refused at
  agree on the usable set, the bands, the guard and every tier in turn (`SameDecision`).
  `ForecastAlwaysKept`: when the awaited slot is free no signal fires, imbalance included, since
  it shrinks with the load (`FreedIsUsable`), and the only usable backend that holds the anchor
  takes the request in every configuration (`OnlyChoice`).
* **CapacityQueueProofs.** `TicketsWhole` counts copies of a ticket; the invariant says by cases
  where a live ticket is (a queue position, a sender's hand, its channel) and for whose backend a
  sender works. `NoSlotForgotten` counts: the carriers of wakes for a backend (senders, delivered
  tickets, woken requests on their way, holders) are at least its free slots while somebody
  sleeps. A request that grants itself the slot its re-check found may be sent a real wake as
  well, so what it granted itself is not counted until it has left the queue.
* **RegistryProofs.** `DrainAlwaysWatched` and `IndexAlwaysFollows`: the writer in its hook holds
  `Registry.mu` and its backend is still the one published, and wherever index and snapshot
  differ for a URL, a hook or a drop for it is to come. The other direction, that what is
  registered is indexed, needs to know whose drop may still come: a URL published with none
  pending is never met by one, since `unlink` empties the URL before its drop exists (`RacedInv`).
  `ReconcileAlwaysDrains`, for any number of writers: what each sweep has still to visit, together
  with what others put in service since it read its snapshot, covers what is in service and
  undesired (`SweepOK`); no step of another writer moves the sweep's locals (`WriterActs`).
* **ServingProofs.** An attempt that has failed has a cause that is still there
  (`BlameHasCause`); the backends asked, those left and the two budgets of a `Serve` add up
  (`AttemptsAlwaysSound`); transfer parameters exist only once a leg has ended,
  and are those of the one document its last try captured (`DecodeKeepsTheRequest`); a probe's answer is applied to the registration it was sent to
  (`EligibleByOwnProbe`); whom a round of the resolver has asked and whom it will ask cover who
  was available when it began (`RoutesAlwaysKept`).
* **ServingProofs**, chat clients. `ChatAlwaysSound`. The invariant (`ChatInv`) speaks of the calls
  answered since the last reply (`Open`): a message adds the results it carries and a reply closes
  them all (`OneMore`), so no call is answered twice exactly if each message's results are of calls
  that are not open. What the caller has still to answer and what is pending for the next request
  are therefore kept apart from each other and from what is open; a failed request that stays in
  a history moves its results from pending to open. Two places need care. Gemini adds no message
  for an empty answer, which leaves calls open, but then nothing is left to answer. The Responses
  client may keep pending results across an exchange it could not chain, but has nothing open.
  What was sent is itself fit to send again (`SavedInv`), since recovery starts from it.
  That the made-up response says what the live history was told (`Recovers`) is about `Grouped`, a
  recursive function over the conversation: one more message joins the groups of those before it
  (`GroupedAppend`), which rests on the groups of a beginning not depending on what follows, an
  argument by the first message at which they would; and Gemini's two messages join as the one
  message recovery makes of them (`GluedTwice`). `ChatAssumption` types the constants: token
  counts are integers and a prompt is a sequence.
* **FleetProofs.** Counts beside the sets they count, at every place a caller may leave from
  (`GatewayHolds`, `EngineHolds`, `SharingExact`, `EndpointsHold`). `NothingCountedTwice`: the
  total is the sum of credits, one for each engine, and no credit exceeds what that engine
  counted in all its lives; the credits are an existential of the invariant, since the code
  keeps only their sum. `CountsNeverFall` is an action property: what a label last exported is at
  most the sum, over the entries reported at that scrape, of tallies that only grow
  (`ScrapeInv`, `SumGrows`); so the next scrape is lower only where one of the terms is gone.
  `SplitAlwaysSound`: the invariant (`SplitInv`) adds that a node's queue holds each of its
  waiting jobs once, that a node with jobs is out of decode and idles only without any, and that
  a node out of decode is one its URL has or had, so that the object a pruned URL comes back as
  decodes; a job that leaves is out of the queue before its slot is handed on (`SlotBack`).
* **FleetProofs**, trie. `TrieAlwaysExact`, and `EngineTrieExact` for the trie under an engine's
  calls. The invariant (`TrieInv`) is a trie in order (`Good`: with a node its ancestors, the list
  exactly the unpinned leaves, the totals a traversal's, no pin of a node that is gone) and pins
  that count their holders. What each mutation rests on: an insertion hides one leaf, its parent;
  an evicted tail is a leaf, so nothing above it goes missing, and it can expose only its parent;
  of what an unpin frees only the chain's end can be a leaf, for every other node of a chain has
  the next one below it; and a trie without pins that is not empty has something to evict, its
  longest node, so every round of `evictLocked` takes a block. That last fact gives the caps.
  `insertFrom` evicts no more than it adds plus `evict`: the cap on nodes always holds,
  the one on tokens only if a call's blocks are worth no more than that many tokens
  (`BudgetCovers`); otherwise the excess "carries to the next mutation" (`kvcache.go:251-253`), so
  with blocks of 256 tokens the cap on tokens may be passed between calls, as the code says. An
  instance of `MCFleet` has both caps and a budget that covers. The loops (`insertFrom`,
  `evictLocked`, `pinChain`) are recursive functions; that one exists for every bound, and what
  each round leaves, are arguments by the first round that would fail.
* **Sums.** `MapThenSumSet` is a fold in an order nobody knows. That it is independent of the
  order, and how it moves when a term does, needs an induction over finite sets; the library's
  induction theorems take an operator the provers cannot instantiate, so each induction is
  written as: of the counterexamples, take a smallest one. The same argument gives a finite set
  of integers its maximum (`FiniteMax`).

Every safety property a passing run checks is stated by a theorem. Only model-checked is liveness
(`EveryRequestAnswered`, `Recovers`, `DrainEnds`, `RefusalEnds`, `ServeReturns`, `AttemptEnds`,
`HealthFollows`, `DiscoveryFollows`): fairness and ENABLED are beyond the prover.

## 6. Not modelled

* **Text and bytes**: dialects, JSON scanner, the copying of bodies, URL canonicalisation, header
  rewriting, wire formats of the mock, tool schemas. No shared state; a property would restate
  the parser.
* **Reporting**: metrics but for the per-backend series, logs, visualisation, the tree's display.
* **The router process** (`serve/serve.go`): each option check is one condition, the wiring runs
  once before anything is concurrent, and shutdown is `http.Server.Shutdown`.
* **Pure I/O**: CLI, configuration files, client construction for Kubernetes.
* **Benchmark driver**: load generation, replay and reports. What other code relies on there, the
  endpoint router and the clients, is modelled.
* **Relay** is a single attempt with no decision to make. Of the older, non-strict ladder only
  its fall-back to a saturated backend in `Ladder` is modelled, not its effect on the queue.
* A torn chain in the KV cache (section 3) is recorded and not followed further: `TrieExact` and
  the theorems about it say nothing from then on.

## 7. Plan

Done: the path of a request from admission to answer, the membership it works on, the affinity
policy with its abstract specification, the background workers, and the client-side state. What
is left, in this order:

1. **Abstract specifications**: a membership specification (a URL is absent, serving or
   draining) implemented by Registry; a counting-semaphore specification implemented by Lease
   with CapacityQueue.
2. **Compositions**: Ladder's queueTarget with CapacityQueue; Health and Discovery with Registry,
   so that a reconciliation and a probe meet the same snapshot.
3. **Benchmark gates and schedulers**: the replay's admission and its real-time scheduler.
