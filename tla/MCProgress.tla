---------------------------- MODULE MCProgress ----------------------------
(* The parts that must come to an end or catch up, one at a time: a request  *)
(* in proxy.Serve, one attempt's stream, a request served in two legs, the   *)
(* health checker and Kubernetes discovery.                                  *)
EXTENDS ProxyServe, UpstreamStream, PdServe, Health, Discovery

VARIABLE part   \* which of them is running

SomeBodies == {[limit |-> 8, stream |-> TRUE, params |-> NoParams]}

\* A pod that is serving, one that is being deleted, one whose port is not its first,
\* one not ready, one without an address.
Pod(i, ph, r, d, p) == [ip |-> i, phase |-> ph, ready |-> r, deleting |-> d, ports |-> p]
Http == [name |-> "http", port |-> 8000]
Admin == [name |-> "admin", port |-> 9000]
SomePods ==
  {Pod("a", "Running", TRUE, FALSE, << Http >>), Pod("a", "Running", TRUE, TRUE, << Http >>),
   Pod("b", "Running", TRUE, FALSE, << Admin, Http >>), Pod("b", "Running", FALSE, FALSE, << Http >>),
   Pod(Unset, "Pending", FALSE, FALSE, << >>)}

\* Endpoints ready, unready, unset and terminating, behind either port.
Ep(a, r, t) == [addr |-> a, ready |-> r, terminating |-> t]
SomeSlices ==
  {[ports |-> << Http >>, endpoints |-> {Ep("a", TRUE, FALSE), Ep("b", Unset, Unset)}],
   [ports |-> << Admin >>, endpoints |-> {Ep("a", TRUE, TRUE)}],
   [ports |-> << Admin, Http >>, endpoints |-> {Ep("b", FALSE, FALSE), Ep("c", TRUE, FALSE)}]}
Static == {<< "c", 8000 >>}

Init ==
  /\ part \in {"serve", "stream", "pd", "health", "discovery"}
  /\ ServeInit /\ StreamInit /\ PdInit /\ HealthInit /\ DiscoveryInit
  /\ part # "serve" => ~capture
  /\ part # "stream" => ~bounded
  /\ part # "pd" => body = NotJson /\ healthy = {} /\ ~limited
  /\ part # "discovery" => mode = "pod"

Next ==
  \/ /\ part = "serve" /\ ServeNext
     /\ UNCHANGED << streamVars, pdVars, healthVars, discoveryVars, part >>
  \/ /\ part = "stream" /\ StreamNext
     /\ UNCHANGED << serveVars, pdVars, healthVars, discoveryVars, part >>
  \/ /\ part = "pd" /\ PdNext
     /\ UNCHANGED << serveVars, streamVars, healthVars, discoveryVars, part >>
  \/ /\ part = "health" /\ HealthNext
     /\ UNCHANGED << serveVars, streamVars, pdVars, discoveryVars, part >>
  \/ /\ part = "discovery" /\ DiscoveryNext
     /\ UNCHANGED << serveVars, streamVars, pdVars, healthVars, part >>

\* Each part's own fairness, while it is the one that runs.
Fairness ==
  /\ WF_serveVars(part = "serve" /\ ServeStep) /\ WF_serveVars(part = "serve" /\ Answer)
  /\ WF_streamVars(part = "stream" /\ RouterStep)
  /\ SF_streamVars(part = "stream" /\ Write)
  /\ WF_streamVars(part = "stream" /\ DeadlinePasses)
  /\ WF_streamVars(part = "stream" /\ Unread /\ IdleFires)
  /\ WF_pdVars(part = "pd" /\ PdStep) /\ WF_pdVars(part = "pd" /\ BudgetEnds)
  /\ WF_healthVars(part = "health" /\ HealthTick) /\ WF_healthVars(part = "health" /\ Checking)
  /\ WF_discoveryVars(part = "discovery" /\ Resync)
  /\ \A g \in {"run", "handler"} :
       /\ WF_discoveryVars(part = "discovery" /\ List(g))
       /\ WF_discoveryVars(part = "discovery" /\ Apply(g))

Spec ==
  /\ Init /\ [][Next]_<< serveVars, streamVars, pdVars, healthVars, discoveryVars, part >>
  /\ Fairness
===========================================================================
