----------------------------- MODULE DagEngine -----------------------------
(***************************************************************************)
(* DagEngine as its callers use it: services come, change and go with      *)
(* their requirements, and build_dependency_graph makes the graph of them  *)
(* when it can.  PID 1 calls these operations at boot and at each reload,  *)
(* the command line when it loads the services; the dag lock (or owning    *)
(* the engine) makes each call one step.  Which calls follow which is left *)
(* open: the properties hold for every order.                              *)
(***************************************************************************)
EXTENDS DependencyGraph

VARIABLES
    requires,   \* the services, each with the names its configuration requires
    adjacency   \* for each service the ones that required it at the last build

engineVars == <<requires, adjacency>>

services == DOMAIN requires

EngineInit ==
    /\ requires = <<>>
    /\ adjacency = <<>>

\* add_service: the edges of a name that is there already stay.
AddService(n, deps) ==
    /\ requires' = [m \in services \union {n} |->
                      IF m = n THEN deps ELSE requires[m]]
    /\ adjacency' = [m \in DOMAIN adjacency \union {n} |->
                      IF m \in DOMAIN adjacency THEN adjacency[m] ELSE {}]

\* reload_services: svc.config = cfg
SetConfig(n, deps) ==
    /\ n \in services
    /\ requires' = [requires EXCEPT ![n] = deps]
    /\ UNCHANGED adjacency

\* Mutant: the edges to the service stay.
RemoveServiceOnly(n) ==
    /\ n \in services
    /\ requires' = Restrict(requires, services \ {n})
    /\ adjacency' = Restrict(adjacency, DOMAIN adjacency \ {n})
RemoveService(n) ==
    /\ n \in services
    /\ requires' = Restrict(requires, services \ {n})
    /\ adjacency' = [m \in DOMAIN adjacency \ {n} |-> adjacency[m] \ {n}]

NewAdjacency == [n \in services |-> {m \in services : n \in requires[m]}]

\* Mutant: the graph is installed before the search for a cycle.
BuildFirst ==
    /\ \A n \in services : requires[n] \subseteq services
    /\ adjacency' = NewAdjacency
    /\ UNCHANGED requires
\* On an error nothing changes.  find_cycle returns None exactly for the
\* acyclic graphs (FindCycleProofs).
Build ==
    /\ \A n \in services : requires[n] \subseteq services
    /\ Acyclic(services, NewAdjacency)
    /\ adjacency' = NewAdjacency
    /\ UNCHANGED requires

EngineNext ==
    \/ \E n \in Node, deps \in SUBSET Node : AddService(n, deps) \/ SetConfig(n, deps)
    \/ \E n \in Node : RemoveService(n)
    \/ Build

EngineSpec == EngineInit /\ [][EngineNext]_engineVars

-----------------------------------------------------------------------------
\* get_boot_order visits every name of the graph: all of them are services,
\* so that boot never starts a service that was removed.
GraphIsOfServices ==
    /\ DOMAIN adjacency = services
    /\ \A n \in services : adjacency[n] \subseteq services

\* No configuration, however wrong, puts a cycle into the live graph: every
\* service has a place in the boot order, and unresolved is always empty.
LiveGraphIsAcyclic == Acyclic(DOMAIN adjacency, adjacency)
=============================================================================
