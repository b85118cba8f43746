------------------------------ MODULE MCFleet ------------------------------
(* Books that must stay exact and choices that must agree, one part at a     *)
(* time: the prefill split on three backends, of which up to two may leave   *)
(* decode and one may fail or leave; the engine metrics poller; the per-      *)
(* backend series; the gateway's middleware around two calls; the models and *)
(* credentials of two pools; the block trie, alone and under the mock engine; *)
(* the mock engine's prefill scheduler; the endpoints of a dynamic model;    *)
(* the chat clients.                                                         *)
EXTENDS PrefillSplit, EngineCounters, BackendSeries, Gateway, ModelRouting, MockEngine,
        PrefillScheduler, Endpoints, ChatClients

VARIABLE part   \* which of them is running

\* An inference path, the same under a user prefix, a longer one, an admin one.
SomePaths == {<< "v1", "chat" >>, << "alice", "v1", "chat" >>, << "v1", "chat", "x" >>, << "metrics" >>}
SomeDialect == {<< "v1", "chat" >>}
SomeAllow == {{}, {<< "v1", "" >>}, {<< "v1", "chat" >>, << "workers" >>}}

\* Keys forwarded, stripped and owned; names rewritten, discovered and left alone.
RouteRule(ms, p, rw, au, f, st, cr) ==
  [models |-> ms, pool |-> p, rewrite |-> rw, auto |-> au, forward |-> f, strip |-> st,
   credential |-> cr]
SomeTables ==
  {<< RouteRule({"gpt"}, "hosted", Untouched, FALSE, TRUE, FALSE, FALSE),
      RouteRule({}, "fleet", Untouched, TRUE, FALSE, FALSE, FALSE) >>,
   << RouteRule({"gpt"}, "fleet", "llama", FALSE, TRUE, TRUE, FALSE),
      RouteRule({"llama"}, "fleet", Untouched, TRUE, TRUE, FALSE, TRUE),
      RouteRule({}, "hosted", Untouched, FALSE, TRUE, TRUE, FALSE) >>}
SomePools == [hosted |-> << "h" >>, fleet |-> << "a", "b" >>]
SomeLists == [h |-> << "gpt", "llama" >>, a |-> << "llama" >>, b |-> << "llama", "gpt" >>]

\* Contents that share a chunk, one of them going on with the engine's reply, and one that
\* shares nothing; a trie bounded in nodes, one in both, one with room to spare.
SomeServed == {<< "a", "b" >>, << "f" >>}
SomeContents == SomeServed \cup {<< "a", "b", "w1", "w2" >>, << "a", "b", "x", "y", "z" >>,
                                << "g", "h", "i" >>}
Roomy == [nodes |-> 3, tokens |-> 6, evict |-> 6, pins |-> TRUE]
SomeCaps == {[nodes |-> 4, tokens |-> 0, evict |-> 1, pins |-> TRUE],
             [nodes |-> 4, tokens |-> 7, evict |-> 2, pins |-> FALSE], Roomy}
SomeReply == << "w1", "w2" >>

TwoEndpoints == 1..2

\* One model for each client, with and without a default budget and a limit in its spec.
SomeModels ==
  {[kind |-> "openai", max |-> 2, default |-> 0, spec |-> 1],
   [kind |-> "anthropic", max |-> 3, default |-> 2, spec |-> 0],
   [kind |-> "gemini", max |-> 1, default |-> 0, spec |-> 0],
   [kind |-> "responses", max |-> 2, default |-> 3, spec |-> 0]}
SomeTalk == {{"text", "url"}}
SomePrompts == {<< [id |-> 1, cache |-> FALSE], [id |-> 2, cache |-> TRUE] >>}
SomeStreams == {<< "text", "k1" >>, << "text" >>}

Init ==
  /\ part \in {"split", "counters", "series", "gateway", "routing", "trie", "engine",
               "prefill", "endpoints", "chat"}
  /\ SplitInit /\ CountersInit /\ SeriesInit /\ GatewayInit /\ RoutingInit
  /\ KvInit /\ EngineInit /\ SchedInit /\ EndpointsInit /\ ChatInit
  /\ part # "gateway" => conf = [key |-> FALSE, prefix |-> FALSE, allow |-> {}]
  /\ part # "routing" => ~global /\ Len(rules) = 2
  /\ (part = "trie") = (cap # Roomy)

Next ==
  \/ /\ part = "split" /\ SplitNext
     /\ UNCHANGED << part, counterVars, seriesVars, gatewayVars, routingVars, kvVars, engineVars,
                     schedVars, endpointVars, chatVars >>
  \/ /\ part = "counters" /\ CountersNext
     /\ UNCHANGED << part, splitVars, seriesVars, gatewayVars, routingVars, kvVars, engineVars,
                     schedVars, endpointVars, chatVars >>
  \/ /\ part = "series" /\ SeriesNext
     /\ UNCHANGED << part, splitVars, counterVars, gatewayVars, routingVars, kvVars, engineVars,
                     schedVars, endpointVars, chatVars >>
  \/ /\ part = "gateway" /\ GatewayNext
     /\ UNCHANGED << part, splitVars, counterVars, seriesVars, routingVars, kvVars, engineVars,
                     schedVars, endpointVars, chatVars >>
  \/ /\ part = "routing" /\ RoutingNext
     /\ UNCHANGED << part, splitVars, counterVars, seriesVars, gatewayVars, kvVars, engineVars,
                     schedVars, endpointVars, chatVars >>
  \/ /\ part = "trie" /\ KvNext
     /\ UNCHANGED << part, splitVars, counterVars, seriesVars, gatewayVars, routingVars, engineVars,
                     schedVars, endpointVars, chatVars >>
  \/ /\ part = "engine" /\ EngineNext
     /\ UNCHANGED << part, splitVars, counterVars, seriesVars, gatewayVars, routingVars,
                     schedVars, endpointVars, chatVars >>
  \/ /\ part = "prefill" /\ SchedNext
     /\ UNCHANGED << part, splitVars, counterVars, seriesVars, gatewayVars, routingVars, kvVars,
                     engineVars, endpointVars, chatVars >>
  \/ /\ part = "endpoints" /\ EndpointsNext
     /\ UNCHANGED << part, splitVars, counterVars, seriesVars, gatewayVars, routingVars, kvVars,
                     engineVars, schedVars, chatVars >>
  \/ /\ part = "chat" /\ ChatNext
     /\ UNCHANGED << part, splitVars, counterVars, seriesVars, gatewayVars, routingVars, kvVars,
                     engineVars, schedVars, endpointVars >>

Spec ==
  Init /\ [][Next]_<< splitVars, counterVars, seriesVars, gatewayVars, routingVars, kvVars,
                     engineVars, schedVars, endpointVars, chatVars, part >>
============================================================================
