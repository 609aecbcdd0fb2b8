------------------------------ MODULE BootOrder ------------------------------
(***************************************************************************)
(* DagEngine::get_boot_order and unresolved: the services in levels, each  *)
(* after the levels of what it requires, by counting down in-degrees.      *)
(*                                                                         *)
(* Edge has a member for every entry of a vector of successors, since a     *)
(* service that lists a requirement twice has two edges from it.  The      *)
(* order of the queue is that of a HashMap at first and irrelevant after,  *)
(* because a level is sorted before it is used: both queues are sets.      *)
(***************************************************************************)
EXTENDS DependencyGraph, Integers

CONSTANT Edge

ASSUME EdgeAssumption == IsFiniteSet(Edge)

VARIABLES
    arc,            \* arc[e]: <<required service, service that requires it>>
    inDegree,
    queue,
    nextQueue,
    currentLevel,
    levels,
    children        \* the edges of the popped node not yet counted

orderVars == <<arc, inDegree, queue, nextQueue, currentLevel, levels, children>>

From(e) == arc[e][1]
To(e) == arc[e][2]

successors == [n \in Node |-> {To(e) : e \in {f \in Edge : From(f) = n}}]

\* Mutant: an edge is counted once however often it is listed.
InDegreeOnce(n) == IF \E e \in Edge : To(e) = n THEN 1 ELSE 0
InDegree(n) == Cardinality({e \in Edge : To(e) = n})

OrderInit ==
    /\ arc \in [Edge -> Node \X Node]
    /\ inDegree = [n \in Node |-> InDegree(n)]
    /\ queue = {n \in Node : inDegree[n] = 0}
    /\ nextQueue = {}
    /\ currentLevel = {}
    /\ levels = <<>>
    /\ children = {}

-----------------------------------------------------------------------------
PopFront(n) ==
    /\ children = {}
    /\ n \in queue
    /\ queue' = queue \ {n}
    /\ currentLevel' = currentLevel \union {n}
    /\ children' = {e \in Edge : From(e) = n}
    /\ UNCHANGED <<arc, inDegree, nextQueue, levels>>

\* Mutant: one requirement may still be missing.
CountDownToOne(e) ==
    /\ e \in children
    /\ children' = children \ {e}
    /\ inDegree' = [inDegree EXCEPT ![To(e)] = @ - 1]
    /\ nextQueue' = IF inDegree'[To(e)] <= 1 THEN nextQueue \union {To(e)}
                                             ELSE nextQueue
    /\ UNCHANGED <<arc, queue, currentLevel, levels>>
CountDown(e) ==
    /\ e \in children
    /\ children' = children \ {e}
    /\ inDegree' = [inDegree EXCEPT ![To(e)] = @ - 1]
    /\ nextQueue' = IF inDegree'[To(e)] = 0 THEN nextQueue \union {To(e)}
                                            ELSE nextQueue
    /\ UNCHANGED <<arc, queue, currentLevel, levels>>

\* Mutant: the next level is forgotten.
EndLevelLast ==
    /\ queue = {} /\ children = {} /\ currentLevel # {}
    /\ levels' = Append(levels, currentLevel)
    /\ currentLevel' = {}
    /\ queue' = {}
    /\ nextQueue' = {}
    /\ UNCHANGED <<arc, inDegree, children>>
EndLevel ==
    /\ queue = {} /\ children = {} /\ currentLevel # {}
    /\ levels' = Append(levels, currentLevel)
    /\ currentLevel' = {}
    /\ queue' = nextQueue
    /\ nextQueue' = {}
    /\ UNCHANGED <<arc, inDegree, children>>

OrderNext ==
    \/ \E n \in Node : PopFront(n)
    \/ \E e \in Edge : CountDown(e)
    \/ EndLevel

OrderSpec == OrderInit /\ [][OrderNext]_orderVars

\* `while !queue.is_empty()` is over.
Returned == queue = {} /\ children = {} /\ currentLevel = {}

Scheduled == UNION Range(levels)
unresolved == Node \ Scheduled

-----------------------------------------------------------------------------
OrderTypeOK ==
    /\ arc \in [Edge -> Node \X Node]
    /\ inDegree \in [Node -> Int]
    /\ queue \subseteq Node
    /\ nextQueue \subseteq Node
    /\ currentLevel \subseteq Node
    /\ levels \in Seq(SUBSET Node)
    /\ children \subseteq Edge

\* `*deg -= 1` on an unsigned counter never underflows: the counter of a node
\* is at any time the number of its edges that have not been counted yet.
Popped == currentLevel \union Scheduled
Left(n) == {e \in Edge : To(e) = n /\ (e \in children \/ From(e) \notin Popped)}
CountsWhatIsLeft == \A n \in Node : inDegree[n] = Cardinality(Left(n))

\* Boot starts the levels in order: whatever a service requires is in an
\* earlier level than the service.
DependenciesEarlier ==
    \A e \in Edge : \A i \in DOMAIN levels :
        To(e) \in levels[i] => \E j \in 1..(i - 1) : From(e) \in levels[j]

\* Boot starts no service twice.
ScheduledOnce ==
    \A i, j \in DOMAIN levels : i # j => levels[i] \intersect levels[j] = {}

\* "Services that never appeared in any boot level: they are part of a cycle
\* or depend (transitively) on one": what unresolved reports is the largest
\* set of services of which each one requires another of the set.
UnresolvedIsExact ==
    Returned =>
        /\ Knotted(unresolved, successors)
        /\ \A S \in SUBSET Node : Knotted(S, successors) => S \subseteq unresolved
=============================================================================
