-------------------------- MODULE FindCycleProofs --------------------------
(***************************************************************************)
(* find_cycle is right in both directions, for every graph and every order *)
(* in which its nodes and edges come.                                      *)
(***************************************************************************)
EXTENDS FindCycle, SequenceTheorems, FiniteSetTheorems, TLAPS

(***************************************************************************)
(* Why: the nodes that are done with have edges only to one another and    *)
(* make no cycle, those on the path have only such edges behind them, and  *)
(* the path is a walk along the edges.                                     *)
(***************************************************************************)
Done == visited \ stack
DoneIsClosed == \A n \in Done : newAdjacency[n] \subseteq Done
DoneIsAcyclic == Acyclic(Done, newAdjacency)
BehindIsDone == \A n \in stack : newAdjacency[n] \ todo[n] \subseteq Done
PathIsWalk ==
    /\ \A i \in 1..(Len(path) - 1) : path[i + 1] \in newAdjacency[path[i]]
    /\ \A n \in stack : todo[n] \subseteq newAdjacency[n]

IInv ==
    /\ SearchTypeOK /\ PathIsStack
    /\ DoneIsClosed /\ DoneIsAcyclic /\ BehindIsDone /\ PathIsWalk
    /\ NoneIsAcyclic /\ CycleIsReal

-----------------------------------------------------------------------------
\* The search begins with nothing done.
LEMMA InitInv == SearchInit => IInv
<1> SUFFICES ASSUME SearchInit PROVE IInv
  OBVIOUS
<1> USE DEF SearchInit
<1>1. SearchTypeOK
  BY DEF SearchTypeOK
<1>2. Range(path) = {} /\ IsInjective(path)
  BY DEF Range, IsInjective
<1>3. Done = {}
  BY DEF Done
<1> QED
  BY <1>1, <1>2, <1>3 DEF IInv, PathIsStack, DoneIsClosed, DoneIsAcyclic,
     Acyclic, Knotted, BehindIsDone, PathIsWalk, NoneIsAcyclic, CycleIsReal

\* Entering a node, from find_cycle or along an edge, keeps the invariant:
\* the node is on the path with all its edges before it.
LEMMA EnterInv ==
    ASSUME IInv, NEW n \in Node, answer = "searching", n \notin visited,
           Enter(n), path # <<>> => n \in todo[Last(path)]
    PROVE  IInv'
<1> USE DEF Enter, IInv
<1>1. SearchTypeOK'
  BY DEF SearchTypeOK
<1>2. PathIsStack'
  <2>1. n \notin Range(path)
    BY DEF SearchTypeOK, PathIsStack
  <2>2. /\ Len(path') = Len(path) + 1
        /\ \A i \in 1..Len(path) : path'[i] = path[i]
        /\ path'[Len(path) + 1] = n
        /\ DOMAIN path = 1..Len(path) /\ DOMAIN path' = 1..(Len(path) + 1)
        /\ Len(path) \in Nat
    BY DEF SearchTypeOK
  <2>3. Range(path') = Range(path) \union {n}
    BY <2>2 DEF Range
  <2>4. IsInjective(path')
    BY <2>1, <2>2 DEF IsInjective, Range, PathIsStack
  <2> QED
    BY <2>3, <2>4 DEF PathIsStack
<1>3. Done' = Done
  BY DEF Done, SearchTypeOK
<1>4. DoneIsClosed' /\ DoneIsAcyclic' /\ NoneIsAcyclic' /\ CycleIsReal'
  BY <1>3 DEF DoneIsClosed, DoneIsAcyclic, Acyclic, Knotted, NoneIsAcyclic, CycleIsReal
<1>5. \A m \in Node \ {n} : todo'[m] = todo[m]
  BY DEF SearchTypeOK
<1>6. todo'[n] = newAdjacency[n]
  BY DEF SearchTypeOK
<1>7. BehindIsDone'
  BY <1>3, <1>5, <1>6 DEF BehindIsDone, SearchTypeOK
<1>8. PathIsWalk'
  <2>1. \A m \in stack' : todo'[m] \subseteq newAdjacency[m]
    BY <1>5, <1>6 DEF PathIsWalk, SearchTypeOK
  <2>2. \A i \in 1..(Len(path') - 1) : path'[i + 1] \in newAdjacency[path'[i]]
    <3> SUFFICES ASSUME NEW i \in 1..(Len(path') - 1)
                 PROVE  path'[i + 1] \in newAdjacency[path'[i]]
      OBVIOUS
    <3>1. Len(path') = Len(path) + 1 /\ Len(path) \in Nat /\ path \in Seq(Node)
      BY DEF SearchTypeOK
    <3>2. CASE i < Len(path)
      BY <3>1, <3>2 DEF PathIsWalk
    <3>3. CASE i = Len(path)
      <4>1. path # <<>> /\ path'[i] = Last(path) /\ path'[i + 1] = n
        BY <3>1, <3>3 DEF Last
      <4>2. Last(path) \in stack
        BY <4>1, <3>1, <3>3 DEF Last, PathIsStack, Range
      <4> QED
        BY <4>1, <4>2 DEF PathIsWalk
    <3> QED
      BY <3>1, <3>2, <3>3
  <2> QED
    BY <2>1, <2>2 DEF PathIsWalk
<1> QED
  BY <1>1, <1>2, <1>4, <1>7, <1>8

\* Passing an edge to a node that is done with keeps the invariant.
LEMMA SkipInv ==
    ASSUME IInv, NEW dep \in Node, Skip(dep)
    PROVE  IInv'
<1> USE DEF Skip, AtEdge, IInv
<1>1. Last(path) \in Node
  BY DEF SearchTypeOK, Last
<1>2. SearchTypeOK'
  BY <1>1 DEF SearchTypeOK
<1>3. Done' = Done /\ dep \in Done
  BY DEF Done
<1>4. /\ PathIsStack' /\ DoneIsClosed' /\ DoneIsAcyclic'
      /\ NoneIsAcyclic' /\ CycleIsReal'
  BY <1>3 DEF PathIsStack, DoneIsClosed, DoneIsAcyclic, Acyclic, Knotted,
              NoneIsAcyclic, CycleIsReal
<1>5. \A m \in Node : todo[m] \ {dep} \subseteq todo'[m] /\ todo'[m] \subseteq todo[m]
  BY <1>1 DEF SearchTypeOK
<1>6. BehindIsDone'
  BY <1>3, <1>5 DEF BehindIsDone, SearchTypeOK
<1>7. PathIsWalk'
  BY <1>5 DEF PathIsWalk, SearchTypeOK
<1> QED
  BY <1>2, <1>4, <1>6, <1>7

\* What CloseCycle reports is a closed walk along the edges.
LEMMA CloseCycleInv ==
    ASSUME IInv, NEW dep \in Node, CloseCycle(dep)
    PROVE  IInv'
<1>1. PICK start \in DOMAIN path :
        /\ path[start] = dep
        /\ cycle' = Append(SubSeq(path, start, Len(path)), dep)
  BY DEF CloseCycle
<1>2. /\ path \in Seq(Node) /\ Len(path) \in Nat /\ start \in 1..Len(path)
      /\ dep \in stack /\ dep \in todo[Last(path)]
      /\ answer' = "cycle"
      /\ UNCHANGED <<newAdjacency, visited, stack, path, todo>>
  BY DEF CloseCycle, AtEdge, IInv, SearchTypeOK
<1>3. /\ SubSeq(path, start, Len(path)) \in Seq(Node)
      /\ Len(SubSeq(path, start, Len(path))) = Len(path) - start + 1
      /\ \A i \in 1..(Len(path) - start + 1) :
           SubSeq(path, start, Len(path))[i] = path[start + i - 1]
  BY <1>2, SubSeqProperties
<1> DEFINE tail == SubSeq(path, start, Len(path))
           k == Len(path) - start + 1
<1>4. /\ cycle' \in Seq(Node) /\ Len(cycle') = k + 1 /\ k \in Nat /\ k >= 1
      /\ \A i \in 1..k : cycle'[i] = path[start + i - 1]
      /\ cycle'[k + 1] = dep
  <2>1. cycle' = Append(tail, dep) /\ tail \in Seq(Node) /\ Len(tail) = k
    BY <1>1, <1>3
  <2>2. k \in Nat /\ k >= 1
    BY <1>2
  <2>3. \A i \in 1..k : tail[i] = path[start + i - 1]
    BY <1>3
  <2> HIDE DEF tail, k
  <2> QED
    BY <2>1, <2>2, <2>3, AppendProperties
<1>5. SearchTypeOK'
  BY <1>2, <1>4 DEF SearchTypeOK, IInv
<1>6. IsCycle(cycle, newAdjacency)'
  <2>1. Len(cycle') > 1 /\ cycle'[1] = Last(cycle')
    BY <1>1, <1>2, <1>4 DEF Last
  <2>2. ASSUME NEW i \in 1..k
        PROVE  cycle'[i + 1] \in newAdjacency[cycle'[i]]
    <3>1. cycle'[i] = path[start + i - 1]
      BY <1>4
    <3>2. CASE i < k
      <4>1. start + i - 1 \in 1..(Len(path) - 1)
        BY <3>2, <1>2
      <4>2. i + 1 \in 1..k /\ start + (i + 1) - 1 = (start + i - 1) + 1
        BY <3>2, <1>2
      <4>3. cycle'[i + 1] = path[(start + i - 1) + 1]
        BY <4>2, <1>4
      <4> QED
        BY <4>1, <4>3, <3>1 DEF PathIsWalk, IInv
    <3>3. CASE i = k
      <4>1. start + i - 1 = Len(path) /\ cycle'[i + 1] = dep
        <5>1. Len(path) \in Nat /\ start \in Nat
          BY <1>2
        <5>2. start + i - 1 = Len(path)
          BY <3>3, <5>1
        <5>3. cycle'[k + 1] = dep
          BY <1>4
        <5> QED
          BY <5>2, <5>3, <3>3
      <4>2. cycle'[i] = Last(path) /\ Last(path) \in stack
        BY <3>1, <4>1, <1>2 DEF Last, PathIsStack, Range, IInv
      <4> QED
        BY <4>1, <4>2, <1>2 DEF PathIsWalk, IInv
    <3> QED
      BY <3>2, <3>3, <1>4
  <2>3. 1..(Len(cycle') - 1) = 1..k /\ newAdjacency' = newAdjacency
    BY <1>2, <1>4
  <2> QED
    BY <2>1, <2>2, <2>3 DEF IsCycle
<1>7. Done' = Done
  BY <1>2 DEF Done
<1> QED
  BY <1>2, <1>5, <1>6, <1>7 DEF IInv, PathIsStack, DoneIsClosed,
     DoneIsAcyclic, Acyclic, Knotted, BehindIsDone, PathIsWalk, NoneIsAcyclic,
     CycleIsReal

\* A node all of whose edges lead to nodes that are done with is done with
\* itself, and closes no cycle.
LEMMA LeaveInv ==
    ASSUME IInv, Leave
    PROVE  IInv'
<1> USE DEF Leave, IInv
<1> DEFINE top == Last(path)
<1>1. /\ path \in Seq(Node) /\ Len(path) \in Nat \ {0}
      /\ DOMAIN path = 1..Len(path) /\ top = path[Len(path)]
  BY DEF SearchTypeOK, Last
<1>2. /\ path' \in Seq(Node)
      /\ Len(path') = Len(path) - 1
      /\ DOMAIN path' = 1..(Len(path) - 1)
      /\ \A i \in 1..(Len(path) - 1) : path'[i] = path[i]
  BY <1>1, SubSeqProperties DEF Front
<1>3. top \in stack /\ top \in Node
  BY <1>1 DEF PathIsStack, Range, SearchTypeOK
<1>4. SearchTypeOK'
  BY <1>2, <1>3 DEF SearchTypeOK
<1>5. PathIsStack'
  <2>1. IsInjective(path')
    BY <1>1, <1>2 DEF IsInjective, PathIsStack
  <2>2. Range(path') = Range(path) \ {top}
    BY <1>1, <1>2 DEF Range, IsInjective, PathIsStack
  <2> QED
    BY <2>1, <2>2 DEF PathIsStack
<1>6. Done' = Done \union {top} /\ top \notin Done
  BY <1>3 DEF Done, SearchTypeOK
<1>7. newAdjacency[top] \subseteq Done
  BY <1>3 DEF BehindIsDone, SearchTypeOK
<1>8. DoneIsClosed'
  BY <1>6, <1>7 DEF DoneIsClosed
<1>9. DoneIsAcyclic'
  <2> SUFFICES ASSUME NEW S \in SUBSET (Done \union {top}),
                      Knotted(S, newAdjacency)
               PROVE  S = {}
    BY <1>6 DEF DoneIsAcyclic, Acyclic, Knotted
  <2>1. \A m \in S : top \notin newAdjacency[m]
    BY <1>6, <1>7 DEF DoneIsClosed
  <2>2. S \in SUBSET Done
    BY <2>1 DEF Knotted
  <2> QED
    BY <2>2 DEF DoneIsAcyclic, Acyclic
<1>10. \A m \in Node :
         todo[m] \ {top} \subseteq todo'[m] /\ todo'[m] \subseteq todo[m]
  BY DEF SearchTypeOK
<1>11. BehindIsDone'
  BY <1>3, <1>6, <1>10 DEF BehindIsDone, SearchTypeOK
<1>12. PathIsWalk'
  <2>1. \A m \in stack' : todo'[m] \subseteq newAdjacency'[m]
    BY <1>10 DEF PathIsWalk, SearchTypeOK
  <2>2. \A i \in 1..(Len(path') - 1) : path'[i + 1] \in newAdjacency'[path'[i]]
    BY <1>1, <1>2 DEF PathIsWalk
  <2> QED
    BY <2>1, <2>2 DEF PathIsWalk
<1>13. NoneIsAcyclic' /\ CycleIsReal'
  BY DEF NoneIsAcyclic, CycleIsReal
<1> QED
  BY <1>4, <1>5, <1>8, <1>9, <1>11, <1>12, <1>13

\* When no node is left, all of them are done with.
LEMMA FinishInv ==
    ASSUME IInv, Finish
    PROVE  IInv'
<1> USE DEF Finish, IInv
<1>1. SearchTypeOK'
  BY DEF SearchTypeOK
<1>2. stack = {}
  BY DEF PathIsStack, Range
<1>3. Done = Node /\ Done' = Done
  BY <1>2 DEF Done
<1>4. Acyclic(Node, newAdjacency)'
  BY <1>3 DEF DoneIsAcyclic, Acyclic, Knotted
<1> QED
  BY <1>1, <1>3, <1>4 DEF PathIsStack, DoneIsClosed, DoneIsAcyclic, Acyclic, Knotted,
     BehindIsDone, PathIsWalk, NoneIsAcyclic, CycleIsReal

\* Every step of the search keeps the invariant.
LEMMA StepInv == IInv /\ [SearchNext]_searchVars => IInv'
<1> SUFFICES ASSUME IInv, [SearchNext]_searchVars PROVE IInv'
  OBVIOUS
<1>1. ASSUME NEW n \in Node, Root(n) PROVE IInv'
  BY <1>1, EnterInv DEF Root
<1>2. ASSUME NEW n \in Node, Descend(n) PROVE IInv'
  BY <1>2, EnterInv DEF Descend, AtEdge
<1>3. ASSUME NEW n \in Node, Skip(n) PROVE IInv'
  BY <1>3, SkipInv
<1>4. ASSUME NEW n \in Node, CloseCycle(n) PROVE IInv'
  BY <1>4, CloseCycleInv
<1>5. CASE Leave
  BY <1>5, LeaveInv
<1>6. CASE Finish
  BY <1>6, FinishInv
<1>7. CASE UNCHANGED searchVars
  BY <1>7 DEF searchVars, IInv, SearchTypeOK, PathIsStack, Done, DoneIsClosed,
     DoneIsAcyclic, Acyclic, Knotted, BehindIsDone, PathIsWalk,
     NoneIsAcyclic, CycleIsReal, IsCycle
<1> QED
  BY <1>1, <1>2, <1>3, <1>4, <1>5, <1>6, <1>7 DEF SearchNext

\* DagEngine::build_dependency_graph accepts no graph with a cycle: when
\* find_cycle answers None there is none.
THEOREM NoneMeansAcyclic == SearchSpec => []NoneIsAcyclic
<1>1. IInv => NoneIsAcyclic
  BY DEF IInv
<1> QED
  BY <1>1, InitInv, StepInv, PTL DEF SearchSpec

\* The nodes of a closed walk each have another one before them.
LEMMA CycleIsKnotted ==
    ASSUME NEW V, NEW walk \in Seq(V), NEW edges, IsCycle(walk, edges)
    PROVE  Knotted(Range(walk), edges) /\ Range(walk) # {}
<1>1. /\ Len(walk) \in Nat /\ Len(walk) > 1 /\ DOMAIN walk = 1..Len(walk)
      /\ walk[1] = walk[Len(walk)]
      /\ \A i \in 1..(Len(walk) - 1) : walk[i + 1] \in edges[walk[i]]
  BY DEF IsCycle, Last
<1>2. ASSUME NEW i \in 2..Len(walk)
      PROVE  \E m \in Range(walk) : walk[i] \in edges[m]
  <2>1. i - 1 \in 1..(Len(walk) - 1) /\ (i - 1) + 1 = i
    BY <1>1
  <2>2. walk[i] \in edges[walk[i - 1]] /\ walk[i - 1] \in Range(walk)
    BY <2>1, <1>1 DEF Range
  <2> QED
    BY <2>2
<1>3. \A n \in Range(walk) : \E i \in 2..Len(walk) : n = walk[i]
  <2> SUFFICES ASSUME NEW j \in 1..Len(walk)
               PROVE  \E i \in 2..Len(walk) : walk[j] = walk[i]
    BY <1>1 DEF Range
  <2>1. CASE j = 1
    BY <2>1, <1>1
  <2>2. CASE j # 1
    BY <2>2, <1>1
  <2> QED
    BY <2>1, <2>2
<1>4. walk[1] \in Range(walk)
  BY <1>1 DEF Range
<1> QED
  BY <1>2, <1>3, <1>4 DEF Knotted

\* DagEngine::build_dependency_graph rejects no graph without a cycle: what
\* dfs_cycle returns is a cycle of the graph.
THEOREM CyclesAreReal == SearchSpec => []CycleIsReal
<1>1. IInv => CycleIsReal
  BY DEF IInv
<1> QED
  BY <1>1, InitInv, StepInv, PTL DEF SearchSpec

\* The answer is exact: None for the graphs without a knot, and only for them.
THEOREM AnswerIsExact ==
    SearchSpec => [](answer # "searching" =>
                 (answer = "none" <=> Acyclic(Node, newAdjacency)))
<1>1. IInv => (answer # "searching" =>
                 (answer = "none" <=> Acyclic(Node, newAdjacency)))
  <2> SUFFICES ASSUME IInv, answer = "cycle"
               PROVE  ~Acyclic(Node, newAdjacency)
    BY DEF IInv, SearchTypeOK, NoneIsAcyclic
  <2>1. cycle \in Seq(Node) /\ IsCycle(cycle, newAdjacency)
    BY DEF IInv, SearchTypeOK, CycleIsReal
  <2>2. Knotted(Range(cycle), newAdjacency) /\ Range(cycle) # {}
    BY <2>1, CycleIsKnotted
  <2>3. Range(cycle) \in SUBSET Node
    BY <2>1 DEF Range
  <2> QED
    BY <2>2, <2>3 DEF Acyclic
<1> QED
  BY <1>1, InitInv, StepInv, PTL DEF SearchSpec

\* dfs_cycle never panics at `.expect("cycle start in path")`.
THEOREM PathsAreStacks == SearchSpec => []PathIsStack
<1>1. IInv => PathIsStack
  BY DEF IInv
<1> QED
  BY <1>1, InitInv, StepInv, PTL DEF SearchSpec

-----------------------------------------------------------------------------
(***************************************************************************)
(* The search ends: nothing it has done is undone, and every step does     *)
(* something more of what a finite graph has only so much of - a node met, *)
(* a node done with, an edge passed, an answer given.                      *)
(***************************************************************************)
Passed == {e \in Node \X Node :
             e[1] \in visited /\ e[2] \in newAdjacency[e[1]] \ todo[e[1]]}
Answered == IF answer = "searching" THEN 0 ELSE 1

Advance == Cardinality(visited) + Cardinality(Done) + Cardinality(Passed) + Answered
Most == 2 * Cardinality(Node) + Cardinality(Node \X Node) + 1

\* Counting is monotone, and strictly so when something is added.
LEMMA MoreIsMore ==
    ASSUME NEW V, IsFiniteSet(V), NEW S \in SUBSET V, NEW T \in SUBSET S
    PROVE  /\ Cardinality(S) \in Nat /\ Cardinality(T) \in Nat
           /\ Cardinality(T) <= Cardinality(S) /\ Cardinality(S) <= Cardinality(V)
           /\ T # S => Cardinality(T) + 1 <= Cardinality(S)
<1>1. IsFiniteSet(S) /\ Cardinality(S) <= Cardinality(V)
  BY FS_Subset
<1>2. /\ IsFiniteSet(T) /\ Cardinality(T) <= Cardinality(S)
      /\ Cardinality(S) = Cardinality(T) => S = T
  BY <1>1, FS_Subset
<1>3. Cardinality(S) \in Nat /\ Cardinality(T) \in Nat
  BY <1>1, <1>2, FS_CardinalityType
<1> QED
  BY <1>1, <1>2, <1>3

\* The pairs of nodes of a finite graph are finitely many.
LEMMA PairsAreFinite ==
    ASSUME IsFiniteSet(Node)
    PROVE  /\ IsFiniteSet(Node \X Node)
           /\ Cardinality(Node) \in Nat /\ Cardinality(Node \X Node) \in Nat
<1>1. IsFiniteSet(Node \X Node)
  BY FS_Product
<1> QED
  BY <1>1, FS_CardinalityType

\* What a step of the search adds to: nothing shrinks, something grows.
Grows ==
    /\ visited \subseteq visited' /\ Done \subseteq Done' /\ Passed \subseteq Passed'
    /\ Answered <= Answered'
    /\ \/ visited # visited' \/ Done # Done' \/ Passed # Passed'
       \/ Answered < Answered'

\* A call of dfs_cycle meets a node no call has met.
LEMMA EnterGrows ==
    ASSUME IInv, NEW n \in Node, n \notin visited, answer = "searching", Enter(n)
    PROVE  Grows
<1> USE DEF Enter, IInv, SearchTypeOK
<1>1. visited \subseteq visited' /\ visited # visited'
  OBVIOUS
<1>2. Done \subseteq Done'
  BY DEF Done
<1>3. \A m \in visited : todo'[m] = todo[m]
  OBVIOUS
<1>4. Passed \subseteq Passed'
  BY <1>1, <1>3 DEF Passed
<1>5. Answered' = Answered /\ Answered \in Nat
  BY DEF Answered
<1> QED
  BY <1>1, <1>2, <1>4, <1>5 DEF Grows

\* The loop of dfs_cycle passes an edge it had before it.
LEMMA SkipGrows ==
    ASSUME IInv, NEW dep \in Node, Skip(dep)
    PROVE  Grows
<1> USE DEF Skip, AtEdge, IInv, SearchTypeOK
<1> DEFINE top == Last(path)
<1>1. top \in stack /\ top \in Node
  BY DEF Last, PathIsStack, Range
<1>2. \A m \in Node : todo'[m] = IF m = top THEN todo[m] \ {dep} ELSE todo[m]
  BY <1>1
<1>3. Passed \subseteq Passed'
  BY <1>2 DEF Passed
<1>4. <<top, dep>> \in Passed' /\ <<top, dep>> \notin Passed
  BY <1>1, <1>2 DEF Passed, PathIsWalk
<1>5. Done' = Done /\ Answered' = Answered /\ Answered \in Nat
  BY DEF Done, Answered
<1> HIDE DEF top
<1> QED
  BY <1>3, <1>4, <1>5 DEF Grows

\* When dfs_cycle returns None its node is done with.
LEMMA LeaveGrows ==
    ASSUME IInv, Leave
    PROVE  Grows
<1> USE DEF Leave, IInv, SearchTypeOK
<1> DEFINE top == Last(path)
<1>1. top \in stack
  BY DEF Last, PathIsStack, Range
<1>2. top \in Done' /\ top \notin Done /\ Done \subseteq Done'
  BY <1>1 DEF Done
<1>3. \A m \in Node : todo'[m] \subseteq todo[m]
  OBVIOUS
<1>4. Passed \subseteq Passed'
  BY <1>3 DEF Passed
<1>5. Answered' = Answered /\ Answered \in Nat
  BY DEF Answered
<1> HIDE DEF top
<1> QED
  BY <1>2, <1>4, <1>5 DEF Grows

\* An answer is given once.
LEMMA AnswerGrows ==
    ASSUME IInv, Finish \/ \E dep \in Node : CloseCycle(dep)
    PROVE  Grows
<1>1. /\ UNCHANGED <<newAdjacency, visited, stack, todo>>
      /\ answer = "searching" /\ answer' # "searching"
  BY DEF Finish, CloseCycle, AtEdge
<1> QED
  BY <1>1 DEF Grows, Done, Passed, Answered

\* Every step of the search gets further.
LEMMA StepGrows ==
    ASSUME IInv, SearchNext
    PROVE  Grows
<1>1. ASSUME NEW n \in Node, Root(n) PROVE Grows
  BY <1>1, EnterGrows DEF Root
<1>2. ASSUME NEW n \in Node, Descend(n) PROVE Grows
  BY <1>2, EnterGrows DEF Descend, AtEdge
<1>3. ASSUME NEW n \in Node, Skip(n) PROVE Grows
  BY <1>3, SkipGrows
<1>4. CASE Leave
  BY <1>4, LeaveGrows
<1>5. CASE Finish \/ \E n \in Node : CloseCycle(n)
  BY <1>5, AnswerGrows
<1> QED
  BY <1>1, <1>2, <1>3, <1>4, <1>5 DEF SearchNext

\* What has been counted is at most what the graph has.
LEMMA AdvanceIsBounded ==
    ASSUME IInv, IsFiniteSet(Node)
    PROVE  Advance \in 0..Most
<1>1. /\ visited \in SUBSET Node /\ Done \in SUBSET Node
      /\ Passed \in SUBSET (Node \X Node)
  BY DEF IInv, SearchTypeOK, Done, Passed
<1>2. Answered \in {0, 1}
  BY DEF Answered
<1>3. Cardinality(visited) \in Nat /\ Cardinality(visited) <= Cardinality(Node)
  BY <1>1, MoreIsMore
<1>4. Cardinality(Done) \in Nat /\ Cardinality(Done) <= Cardinality(Node)
  BY <1>1, MoreIsMore
<1>5. /\ Cardinality(Passed) \in Nat
      /\ Cardinality(Passed) <= Cardinality(Node \X Node)
  BY <1>1, PairsAreFinite, MoreIsMore
<1> QED
  BY <1>2, <1>3, <1>4, <1>5, PairsAreFinite DEF Advance, Most

\* A sum grows when no term shrinks and one grows.
LEMMA SumIsMore ==
    ASSUME NEW a \in Nat, NEW b \in Nat, NEW c \in Nat, NEW d \in Nat,
           NEW a1 \in Nat, NEW b1 \in Nat, NEW c1 \in Nat, NEW d1 \in Nat,
           a <= a1, b <= b1, c <= c1, d <= d1,
           a + 1 <= a1 \/ b + 1 <= b1 \/ c + 1 <= c1 \/ d + 1 <= d1
    PROVE  a1 + b1 + c1 + d1 > a + b + c + d
  OBVIOUS

\* Getting further is counting more.
LEMMA GrowthIsCounted ==
    ASSUME IInv, IInv', Grows, IsFiniteSet(Node)
    PROVE  Advance' > Advance
<1>1. /\ visited' \in SUBSET Node /\ Done' \in SUBSET Node
      /\ Passed' \in SUBSET (Node \X Node)
  BY DEF IInv, SearchTypeOK, Done, Passed
<1>2. Answered \in {0, 1} /\ Answered' \in {0, 1}
  BY DEF Answered
<1> DEFINE a == Cardinality(visited)  a1 == Cardinality(visited')
           b == Cardinality(Done)     b1 == Cardinality(Done')
           c == Cardinality(Passed)   c1 == Cardinality(Passed')
<1>3. a \in Nat /\ a1 \in Nat /\ a <= a1 /\ (visited # visited' => a + 1 <= a1)
  BY <1>1, MoreIsMore DEF Grows
<1>4. b \in Nat /\ b1 \in Nat /\ b <= b1 /\ (Done # Done' => b + 1 <= b1)
  BY <1>1, MoreIsMore DEF Grows
<1>5. c \in Nat /\ c1 \in Nat /\ c <= c1 /\ (Passed # Passed' => c + 1 <= c1)
  BY <1>1, PairsAreFinite, MoreIsMore DEF Grows
<1>6. Advance = a + b + c + Answered /\ Advance' = a1 + b1 + c1 + Answered'
  BY DEF Advance
<1>7. /\ Answered <= Answered'
      /\ \/ visited # visited' \/ Done # Done' \/ Passed # Passed'
         \/ Answered < Answered'
  BY DEF Grows
<1>8. \/ a + 1 <= a1 \/ b + 1 <= b1 \/ c + 1 <= c1
      \/ Answered + 1 <= Answered'
  BY <1>2, <1>3, <1>4, <1>5, <1>7
<1>9. Answered \in Nat /\ Answered' \in Nat /\ Answered <= Answered'
  BY <1>2, <1>7
<1> HIDE DEF a, a1, b, b1, c, c1
<1> QED
  BY <1>3, <1>4, <1>5, <1>6, <1>8, <1>9, SumIsMore

\* DagEngine::find_cycle cannot go on for ever, whatever graph of finitely
\* many nodes it is given and whatever order they come in: each of its steps
\* counts one more of at most 2 * |Node| + |Node|^2 + 1.
THEOREM SearchGetsFurther ==
    ASSUME IsFiniteSet(Node)
    PROVE  SearchSpec => [](Advance \in 0..Most) /\ [][Advance' > Advance]_searchVars
<1>1. IInv => Advance \in 0..Most
  BY AdvanceIsBounded
<1>2. IInv /\ IInv' /\ [SearchNext]_searchVars => [Advance' > Advance]_searchVars
  BY StepGrows, GrowthIsCounted
<1> QED
  BY <1>1, <1>2, InitInv, StepInv, PTL DEF SearchSpec
=============================================================================
