----------------------------- MODULE FindCycle -----------------------------
(***************************************************************************)
(* DagEngine::find_cycle and dfs_cycle: the depth-first search that accepts *)
(* or rejects a dependency graph.  The recursion is the path; the order in *)
(* which the nodes and the edges of one node come is that of a HashMap,    *)
(* which is a free choice, so one run covers every order.  (An edge listed *)
(* twice is met again when its target is done with, and skipped.)          *)
(***************************************************************************)
EXTENDS DependencyGraph

VARIABLES
    newAdjacency,  \* newAdjacency[n]: the nodes with an edge from n
    visited,
    stack,      \* the set of the nodes on the path
    path,
    todo,       \* todo[n]: the edges of n the loop has not finished
    answer,     \* "searching", then "none" or "cycle"
    cycle       \* the cycle that was returned

searchVars == <<newAdjacency, visited, stack, path, todo, answer, cycle>>

SearchInit ==
    /\ newAdjacency \in [Node -> SUBSET Node]
    /\ visited = {}
    /\ stack = {}
    /\ path = <<>>
    /\ todo = [n \in Node |-> {}]
    /\ answer = "searching"
    /\ cycle = <<>>

-----------------------------------------------------------------------------
\* dfs_cycle(n) is called.
Enter(n) ==
    /\ visited' = visited \union {n}
    /\ stack' = stack \union {n}
    /\ path' = Append(path, n)
    /\ todo' = [todo EXCEPT ![n] = newAdjacency[n]]
    /\ UNCHANGED <<newAdjacency, answer, cycle>>

\* By the loop of find_cycle, for a node no search has met.
Root(n) ==
    /\ answer = "searching"
    /\ path = <<>>
    /\ n \notin visited
    /\ Enter(n)

\* The loop of dfs_cycle comes to the edge from the last node to dep.
AtEdge(dep) ==
    /\ answer = "searching"
    /\ path # <<>>
    /\ dep \in todo[Last(path)]

Descend(dep) == AtEdge(dep) /\ dep \notin visited /\ Enter(dep)

\* An edge to a node that is done with.
\* Mutant: an edge to a visited node never closes a cycle.
SkipVisited(dep) ==
    /\ AtEdge(dep)
    /\ dep \in visited
    /\ todo' = [todo EXCEPT ![Last(path)] = @ \ {dep}]
    /\ UNCHANGED <<newAdjacency, visited, stack, path, answer, cycle>>
Skip(dep) ==
    /\ AtEdge(dep)
    /\ dep \in visited \ stack
    /\ todo' = [todo EXCEPT ![Last(path)] = @ \ {dep}]
    /\ UNCHANGED <<newAdjacency, visited, stack, path, answer, cycle>>

\* An edge back to the path: every caller returns the cycle at once.
\* Mutant: the cycle is said to begin where the path does.
CloseCycleAtRoot(dep) ==
    /\ AtEdge(dep)
    /\ dep \in visited \intersect stack
    /\ cycle' = Append(path, dep)
    /\ answer' = "cycle"
    /\ UNCHANGED <<newAdjacency, visited, stack, path, todo>>
CloseCycle(dep) ==
    /\ AtEdge(dep)
    /\ dep \in visited \intersect stack
    /\ \E start \in DOMAIN path :
         /\ path[start] = dep
         /\ \A i \in 1..(start - 1) : path[i] # dep
         /\ cycle' = Append(SubSeq(path, start, Len(path)), dep)
    /\ answer' = "cycle"
    /\ UNCHANGED <<newAdjacency, visited, stack, path, todo>>

\* dfs_cycle returns None to its caller, whose loop goes on.
\* Mutant: the node stays in the stack set.
LeaveOnStack ==
    /\ answer = "searching"
    /\ path # <<>>
    /\ todo[Last(path)] = {}
    /\ path' = Front(path)
    /\ todo' = [n \in Node |->
                  IF path' # <<>> /\ n = Last(path')
                  THEN todo[n] \ {Last(path)} ELSE todo[n]]
    /\ UNCHANGED <<newAdjacency, visited, stack, answer, cycle>>
Leave ==
    /\ answer = "searching"
    /\ path # <<>>
    /\ todo[Last(path)] = {}
    /\ path' = Front(path)
    /\ stack' = stack \ {Last(path)}
    /\ todo' = [n \in Node |->
                  IF path' # <<>> /\ n = Last(path')
                  THEN todo[n] \ {Last(path)} ELSE todo[n]]
    /\ UNCHANGED <<newAdjacency, visited, answer, cycle>>

\* find_cycle has been through all the nodes.
Finish ==
    /\ answer = "searching"
    /\ path = <<>>
    /\ visited = Node
    /\ answer' = "none"
    /\ UNCHANGED <<newAdjacency, visited, stack, path, todo, cycle>>

SearchNext ==
    \/ \E n \in Node : Root(n) \/ Descend(n) \/ Skip(n) \/ CloseCycle(n)
    \/ Leave
    \/ Finish

SearchSpec == SearchInit /\ [][SearchNext]_searchVars

-----------------------------------------------------------------------------
SearchTypeOK ==
    /\ newAdjacency \in [Node -> SUBSET Node]
    /\ visited \subseteq Node
    /\ stack \subseteq visited
    /\ path \in Seq(Node)
    /\ todo \in [Node -> SUBSET Node]
    /\ answer \in {"searching", "none", "cycle"}
    /\ cycle \in Seq(Node)

\* `.expect("cycle start in path")` never panics: the hash set that answers
\* whether a node is on the path and the vector hold the same nodes, each once.
PathIsStack == stack = Range(path) /\ IsInjective(path)

\* find_cycle answers None only for a graph without a cycle, whatever order
\* the nodes and the edges come in.
NoneIsAcyclic == answer = "none" => Acyclic(Node, newAdjacency)

\* The cycle it reports is a cycle of the graph: no other graph is rejected.
CycleIsReal == answer = "cycle" => IsCycle(cycle, newAdjacency)

=============================================================================
