------------------------------ MODULE Discovery -----------------------------
(***************************************************************************)
(* Kubernetes discovery (internal/discovery/k8s): from the informer's      *)
(* store of pods, or of the slices of a Service, to the backends proposed  *)
(* to the registry.                                                        *)
(*                                                                         *)
(* Two goroutines reconcile: the informer's handler, on every event and    *)
(* every resync, and Run itself, once, after the first sync.  Each lists   *)
(* the store and then calls ReconcileDiscovered, whose own steps are       *)
(* module Registry.  The API server and the informer are external: objects *)
(* change in any way, every change is followed by an event, and a resync   *)
(* is an event only if the store has an object.                            *)
(***************************************************************************)
EXTENDS Integers, Sequences, FiniteSets

CONSTANTS
  Names,         \* object names
  PodShapes,     \* the pods there may be, as specFromPod looks at them
  SliceShapes,   \* the slices there may be, as specsFromSlice does
  PortName,      \* Config.PortName, Unset for ""
  Port,          \* Config.Port, 0 for none
  StaticUrls,    \* statically configured backends
  Unset          \* absent, nil, ""

VARIABLES
  mode,      \* Config.Mode
  store,     \* the informer's store: name -> object
  event,     \* the handler has an event to take
  reconcile, \* goroutine -> [at, want]
  proposed   \* the discovered backends, as the registry has them

discoveryVars == << mode, store, event, reconcile, proposed >>

Objects == {store[n] : n \in Names} \ {Unset}

----------------------------------------------------------------------------
(* From objects to backends.  A URL is <<address, port>>. *)

\* The port of the first of those that meet a loop's condition, 0 if none does.
FirstPort(ports) == IF ports = << >> THEN 0 ELSE ports[1].port

\* portFromSlice: a configured name that is missing is no port at all.
PortFromSlice(es) ==
  IF PortName # Unset THEN FirstPort(SelectSeq(es.ports, LAMBDA p : p.name = PortName /\ p.port # Unset))
  ELSE IF Port > 0 THEN Port
  ELSE FirstPort(SelectSeq(es.ports, LAMBDA p : p.port # Unset))

\* specsFromSlice: endpoints that are not ready or terminating are left out, and a
\* condition nobody set is a good one.
SpecsFromSlice(es) ==
  IF PortFromSlice(es) <= 0 THEN {}
  ELSE {<< ep.addr, PortFromSlice(es) >> :
          ep \in {e \in es.endpoints : e.ready # FALSE /\ e.terminating # TRUE}}

\* portFromPod: the named port, then a sole declared one, then the configured one.
PortFromPod(pod) ==
  LET declared == SelectSeq(pod.ports, LAMBDA p : p.port > 0)
      named == FirstPort(SelectSeq(declared, LAMBDA p : p.name = PortName))
  IN  IF PortName # Unset THEN (IF named > 0 THEN named ELSE Port)
      ELSE IF Len(declared) = 1 THEN declared[1].port ELSE Port

\* Mutant: a pod that is being deleted is still proposed.
SpecFromPod_Deleting(pod) ==
  IF pod.ip = Unset \/ pod.phase # "Running" \/ ~pod.ready THEN {}
  ELSE {<< pod.ip, PortFromPod(pod) >>}

\* specFromPod.
SpecFromPod(pod) ==
  IF pod.ip = Unset \/ pod.deleting \/ pod.phase # "Running" \/ ~pod.ready THEN {}
  ELSE {<< pod.ip, PortFromPod(pod) >>}

\* reconcileFrom's desired set.
Desired ==
  UNION {IF mode = "pod" THEN SpecFromPod(o) ELSE SpecsFromSlice(o) : o \in Objects}

----------------------------------------------------------------------------
DiscoveryInit ==
  /\ mode \in {"pod", "endpointslice"}
  /\ store = [n \in Names |-> Unset]
  /\ event = FALSE
  /\ reconcile = [g \in {"run", "handler"} |-> [at |-> "idle", want |-> {}]]
  /\ proposed = {}

\* An object is added, updated or deleted.
ClusterChange(n, o) ==
  /\ o # store[n]
  /\ store' = [store EXCEPT ![n] = o]
  /\ event' = TRUE
  /\ UNCHANGED << mode, reconcile, proposed >>

Resync ==
  /\ Objects # {} /\ ~event
  /\ event' = TRUE
  /\ UNCHANGED << mode, store, reconcile, proposed >>

\* reconcileFrom lists the store ...
List(g) ==
  /\ reconcile[g].at = "idle"
  /\ g = "handler" => event
  /\ event' = (event /\ g # "handler")
  /\ reconcile' = [reconcile EXCEPT ![g] = [at |-> "listed", want |-> Desired]]
  /\ UNCHANGED << mode, store, proposed >>

\* ... and ReconcileDiscovered applies it, leaving static backends alone.
Apply(g) ==
  /\ reconcile[g].at = "listed"
  /\ proposed' = reconcile[g].want \ StaticUrls
  /\ reconcile' = [reconcile EXCEPT ![g] =
       [at |-> IF g = "run" THEN "done" ELSE "idle", want |-> {}]]
  /\ UNCHANGED << mode, store, event >>

DiscoveryNext ==
  \/ \E n \in Names : \E o \in {Unset} \cup (IF mode = "pod" THEN PodShapes ELSE SliceShapes) :
       ClusterChange(n, o)
  \/ Resync
  \/ \E g \in {"run", "handler"} : List(g) \/ Apply(g)

\* Both goroutines run, and the resync timer does.
DiscoveryFairness ==
  /\ WF_discoveryVars(Resync)
  /\ \A g \in {"run", "handler"} : WF_discoveryVars(List(g)) /\ WF_discoveryVars(Apply(g))

DiscoverySpec == DiscoveryInit /\ [][DiscoveryNext]_discoveryVars /\ DiscoveryFairness

----------------------------------------------------------------------------
\* An address a ready object has, and no deleted or failed one.
Serving(o) ==
  IF mode = "pod"
  THEN IF o.ready /\ ~o.deleting /\ o.phase = "Running" /\ o.ip # Unset THEN {o.ip} ELSE {}
  ELSE {e.addr : e \in {x \in o.endpoints : x.ready # FALSE /\ x.terminating # TRUE}}

\* Whatever order the two goroutines' listings and reconciles come in, the backends
\* proposed become the ones that serve, once the cluster rests with something in it
\* (discovery.go:79-81, 219-245): no pod that is gone stays, none that is ready is left
\* out but where a static backend or a missing port name is in the way.
DiscoveryFollows ==
  \/ []<><<TRUE>>_store
  \/ <>[](Objects = {})
  \/ <>[](/\ {u[1] : u \in proposed} \subseteq UNION {Serving(o) : o \in Objects}
          /\ \A o \in Objects : \A a \in Serving(o) :
               \/ \E u \in proposed \cup StaticUrls : u[1] = a
               \/ mode = "endpointslice" /\ PortFromSlice(o) = 0)
=============================================================================
