-------------------------- MODULE DependencyGraph --------------------------
(***************************************************************************)
(* What the graph algorithms of DagEngine are judged by.  edges[n] is the  *)
(* set of the services that require n, as in DagEngine.adjacency.          *)
(***************************************************************************)
EXTENDS SequencesExt

CONSTANT Node     \* the names a service can have

\* Each member requires another one (or itself): none can be the first.
Knotted(S, edges) == \A n \in S : \E m \in S : n \in edges[m]

Acyclic(V, edges) == \A S \in SUBSET V : Knotted(S, edges) => S = {}

\* A closed walk along the edges.
IsCycle(walk, edges) ==
    /\ Len(walk) > 1
    /\ walk[1] = Last(walk)
    /\ \A i \in 1..(Len(walk) - 1) : walk[i + 1] \in edges[walk[i]]
=============================================================================
