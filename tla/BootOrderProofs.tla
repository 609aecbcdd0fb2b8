-------------------------- MODULE BootOrderProofs --------------------------
(***************************************************************************)
(* get_boot_order never underflows a counter, puts every requirement in an *)
(* earlier level, and leaves out exactly the services that can never start *)
(***************************************************************************)
EXTENDS BootOrder, SequenceTheorems, FiniteSetTheorems, TLAPS

(***************************************************************************)
(* The queues hold the nodes whose edges have all been counted and that    *)
(* are in no level yet, and a queued node has its requirements in levels   *)
(* that are complete.  No member of a knot is ever the first of it to be   *)
(* queued.                                                                 *)
(***************************************************************************)
Ready == queue \union nextQueue \union Popped

ChildrenArePopped == \A e \in children : From(e) \in currentLevel
NextIsAfter == nextQueue # {} => currentLevel # {}
ReadyIsCounted == \A n \in Node : n \in Ready <=> Left(n) = {}
Apart ==
    /\ queue \intersect nextQueue = {}
    /\ queue \intersect Popped = {}
    /\ nextQueue \intersect Popped = {}
    /\ currentLevel \intersect Scheduled = {}
RequirementsScheduled ==
    \A e \in Edge : To(e) \in queue \union currentLevel => From(e) \in Scheduled
KnotsStayBehind ==
    \A S \in SUBSET Node : Knotted(S, successors) => S \intersect Ready = {}

IInv ==
    /\ OrderTypeOK
    /\ CountsWhatIsLeft /\ DependenciesEarlier /\ ScheduledOnce
    /\ ChildrenArePopped /\ NextIsAfter /\ ReadyIsCounted /\ Apart
    /\ RequirementsScheduled /\ KnotsStayBehind

-----------------------------------------------------------------------------
\* Counting edges: a finite set of them has 0 members only if it is empty,
\* and one member less when one is taken out.
LEMMA EdgesCount ==
    ASSUME NEW S \in SUBSET Edge
    PROVE  /\ IsFiniteSet(S)
           /\ Cardinality(S) \in Nat
           /\ Cardinality(S) = 0 <=> S = {}
           /\ \A e \in S : Cardinality(S \ {e}) = Cardinality(S) - 1
<1>1. IsFiniteSet(S)
  BY EdgeAssumption, FS_Subset
<1> QED
  BY <1>1, FS_CardinalityType, FS_EmptySet, FS_RemoveElement

\* An edge leads from each of its ends to the other.
LEMMA EndsOfEdges ==
    ASSUME OrderTypeOK, NEW e \in Edge
    PROVE  /\ From(e) \in Node /\ To(e) \in Node
           /\ To(e) \in successors[From(e)]
BY DEF OrderTypeOK, From, To, successors

\* A node all of whose edges come from outside a knot is not in it.
LEMMA KnotNeedsItsOwn ==
    ASSUME NEW S \in SUBSET Node, Knotted(S, successors), NEW n \in S
    PROVE  \E e \in Edge : To(e) = n /\ From(e) \in S
BY DEF Knotted, successors

\* At first the services that require nothing are queued.
LEMMA InitInv == OrderInit => IInv
<1> SUFFICES ASSUME OrderInit PROVE IInv
  OBVIOUS
<1>1. levels = <<>> /\ Scheduled = {} /\ Popped = {} /\ Ready = queue
  BY DEF OrderInit, Scheduled, Popped, Ready, Range
<1>2. \A n \in Node : Left(n) = {e \in Edge : To(e) = n}
  BY <1>1 DEF OrderInit, Left
<1>3. CountsWhatIsLeft
  BY <1>2 DEF OrderInit, InDegree, CountsWhatIsLeft
<1>4. OrderTypeOK
  <2>1. \A n \in Node : InDegree(n) \in Int
    BY EdgesCount DEF InDegree
  <2> QED
    BY <2>1 DEF OrderInit, OrderTypeOK
<1>5. ReadyIsCounted
  <2> SUFFICES ASSUME NEW n \in Node PROVE n \in queue <=> Left(n) = {}
    BY <1>1 DEF ReadyIsCounted
  <2>1. n \in queue <=> Cardinality(Left(n)) = 0
    BY <1>3 DEF OrderInit, CountsWhatIsLeft
  <2>2. Left(n) \in SUBSET Edge
    BY DEF Left
  <2> QED
    BY <2>1, <2>2, EdgesCount
<1>6. RequirementsScheduled /\ KnotsStayBehind
  <2>1. \A n \in queue, e \in Edge : To(e) # n
    BY <1>1, <1>2, <1>5 DEF ReadyIsCounted, OrderInit
  <2>2. RequirementsScheduled
    BY <2>1 DEF RequirementsScheduled, OrderInit
  <2>3. KnotsStayBehind
    BY <2>1, <1>1, KnotNeedsItsOwn DEF KnotsStayBehind
  <2> QED
    BY <2>2, <2>3
<1>7. DependenciesEarlier /\ ScheduledOnce
  BY <1>1 DEF DependenciesEarlier, ScheduledOnce
<1> QED
  BY <1>1, <1>3, <1>4, <1>5, <1>6, <1>7
     DEF OrderInit, IInv, ChildrenArePopped, NextIsAfter, Apart

\* Taking a node from the queue keeps the invariant: its edges remain to be
\* counted, now as children.
LEMMA PopFrontInv ==
    ASSUME IInv, NEW n \in Node, PopFront(n)
    PROVE  IInv'
<1> USE DEF IInv, PopFront
<1>1. OrderTypeOK'
  BY DEF OrderTypeOK
<1>2. Scheduled' = Scheduled /\ Popped' = Popped \union {n} /\ n \notin Popped
  BY DEF Scheduled, Popped, Apart
<1>3. Ready' = Ready
  BY <1>2 DEF Ready
<1>4. \A e \in Edge : From(e)' = From(e) /\ To(e)' = To(e)
  BY DEF From, To
<1>5. ASSUME NEW m \in Node PROVE Left(m)' = Left(m)
  BY <1>2, <1>4 DEF Left
<1>6. successors' = successors
  BY <1>4 DEF successors
<1>7. CountsWhatIsLeft' /\ ReadyIsCounted'
  BY <1>3, <1>5 DEF CountsWhatIsLeft, ReadyIsCounted
<1>8. ChildrenArePopped' /\ NextIsAfter'
  BY <1>4 DEF ChildrenArePopped, NextIsAfter
<1>9. Apart'
  BY <1>2 DEF Apart, Popped
<1>10. RequirementsScheduled'
  BY <1>2, <1>4 DEF RequirementsScheduled
<1>11. KnotsStayBehind'
  BY <1>3, <1>6 DEF KnotsStayBehind
<1>12. DependenciesEarlier' /\ ScheduledOnce'
  BY <1>4 DEF DependenciesEarlier, ScheduledOnce
<1> QED
  BY <1>1, <1>7, <1>8, <1>9, <1>10, <1>11, <1>12

\* Counting an edge keeps the invariant: its target becomes ready when it was
\* the last edge to it.
LEMMA CountDownInv ==
    ASSUME IInv, NEW e \in Edge, CountDown(e)
    PROVE  IInv'
<1> USE DEF IInv, CountDown
<1> PICK m \in Node : m = To(e)
  BY EndsOfEdges
<1>1. From(e) \in currentLevel /\ e \in children
  BY DEF ChildrenArePopped
<1>2. Scheduled' = Scheduled /\ Popped' = Popped
  BY DEF Scheduled, Popped
<1>3. \A f \in Edge : From(f)' = From(f) /\ To(f)' = To(f)
  BY DEF From, To
<1>4. Left(m)' = Left(m) \ {e} /\ e \in Left(m)
  BY <1>1, <1>2, <1>3 DEF Left, Popped
<1>5. \A n \in Node \ {m} : Left(n)' = Left(n)
  BY <1>2, <1>3 DEF Left
<1>6. /\ inDegree[m] = Cardinality(Left(m))
      /\ inDegree'[m] = Cardinality(Left(m)')
      /\ inDegree'[m] = 0 <=> Left(m)' = {}
      /\ inDegree'[m] \in Int
  <2>1. Left(m) \in SUBSET Edge /\ Left(m)' \in SUBSET Edge
    BY <1>4 DEF Left
  <2>2. inDegree'[m] = inDegree[m] - 1
    BY <1>1 DEF OrderTypeOK
  <2>3. inDegree[m] = Cardinality(Left(m))
    BY <1>1 DEF CountsWhatIsLeft
  <2>4. Cardinality(Left(m)') = Cardinality(Left(m)) - 1
    BY <1>4, <2>1, EdgesCount
  <2> QED
    BY <2>1, <2>2, <2>3, <2>4, EdgesCount
<1>7. \A n \in Node \ {m} : inDegree'[n] = inDegree[n]
  BY DEF OrderTypeOK
<1>8. OrderTypeOK'
  BY <1>1, <1>6 DEF OrderTypeOK
<1>9. CountsWhatIsLeft'
  BY <1>5, <1>6, <1>7 DEF CountsWhatIsLeft
<1>10. m \notin Ready
  BY <1>1, <1>4 DEF ReadyIsCounted
<1>11. Ready' = IF Left(m)' = {} THEN Ready \union {m} ELSE Ready
  BY <1>2, <1>6 DEF Ready
<1>12. ReadyIsCounted'
  <2> SUFFICES ASSUME NEW n \in Node PROVE n \in Ready' <=> Left(n)' = {}
    BY DEF ReadyIsCounted
  <2>1. CASE n = m
    BY <2>1, <1>10, <1>11
  <2>2. CASE n # m
    BY <2>2, <1>5, <1>11 DEF ReadyIsCounted
  <2> QED
    BY <2>1, <2>2
<1>13. ChildrenArePopped' /\ NextIsAfter'
  BY <1>1, <1>3 DEF ChildrenArePopped, NextIsAfter, OrderTypeOK
<1>14. Apart'
  BY <1>2, <1>10 DEF Apart, Ready
<1>15. RequirementsScheduled'
  BY <1>2, <1>3 DEF RequirementsScheduled
<1>16. successors' = successors
  BY <1>3 DEF successors
<1>17. KnotsStayBehind'
  <2> SUFFICES ASSUME NEW S \in SUBSET Node, Knotted(S, successors)
               PROVE  S \intersect Ready' = {}
    BY <1>16 DEF KnotsStayBehind
  <2>1. S \intersect Ready = {}
    BY DEF KnotsStayBehind
  <2>2. ASSUME Left(m)' = {} PROVE m \notin S
    <3>1. \A f \in Edge : To(f) = m => From(f) \in Popped
      BY <2>2, <1>2, <1>3 DEF Left
    <3>2. Popped \subseteq Ready
      BY DEF Ready
    <3> QED
      BY <2>1, <3>1, <3>2, KnotNeedsItsOwn
  <2> QED
    BY <2>1, <2>2, <1>11
<1>18. DependenciesEarlier' /\ ScheduledOnce'
  BY <1>3 DEF DependenciesEarlier, ScheduledOnce
<1> QED
  BY <1>8, <1>9, <1>12, <1>13, <1>14, <1>15, <1>17, <1>18

\* Ending a level keeps the invariant: what comes next has its requirements
\* in the levels that are complete now.
LEMMA EndLevelInv ==
    ASSUME IInv, EndLevel
    PROVE  IInv'
<1> USE DEF IInv, EndLevel
<1>1. /\ levels' \in Seq(SUBSET Node)
      /\ Len(levels) \in Nat /\ Len(levels') = Len(levels) + 1
      /\ DOMAIN levels = 1..Len(levels)
      /\ DOMAIN levels' = 1..(Len(levels) + 1)
      /\ \A i \in 1..Len(levels) : levels'[i] = levels[i]
      /\ levels'[Len(levels) + 1] = currentLevel
  BY DEF OrderTypeOK
<1>2. OrderTypeOK'
  BY <1>1 DEF OrderTypeOK
<1>3. Scheduled' = Popped /\ Popped' = Popped
  <2>1. Range(levels') = Range(levels) \union {currentLevel}
    BY <1>1 DEF Range
  <2> QED
    BY <2>1 DEF Scheduled, Popped
<1>4. Ready' = Ready
  BY <1>3 DEF Ready
<1>5. \A f \in Edge : From(f)' = From(f) /\ To(f)' = To(f)
  BY DEF From, To
<1>6. \A n \in Node : Left(n)' = Left(n)
  BY <1>3, <1>5 DEF Left
<1>7. successors' = successors
  BY <1>5 DEF successors
<1>8. CountsWhatIsLeft' /\ ReadyIsCounted' /\ KnotsStayBehind'
  BY <1>4, <1>6, <1>7 DEF CountsWhatIsLeft, ReadyIsCounted, KnotsStayBehind
<1>9. ChildrenArePopped' /\ NextIsAfter'
  BY DEF ChildrenArePopped, NextIsAfter
<1>10. Apart'
  BY <1>3 DEF Apart
<1>11. RequirementsScheduled'
  <2> SUFFICES ASSUME NEW e \in Edge, To(e) \in nextQueue
               PROVE  From(e) \in Popped
    BY <1>3, <1>5 DEF RequirementsScheduled
  <2>1. Left(To(e)) = {}
    BY EndsOfEdges DEF ReadyIsCounted, Ready
  <2> QED
    BY <2>1 DEF Left
<1>12. DependenciesEarlier'
  <2> SUFFICES ASSUME NEW e \in Edge, NEW i \in DOMAIN levels',
                      To(e) \in levels'[i]
               PROVE  \E j \in 1..(i - 1) : From(e) \in levels'[j]
    BY <1>5 DEF DependenciesEarlier
  <2>1. CASE i \in 1..Len(levels)
    <3>1. PICK j \in 1..(i - 1) : From(e) \in levels[j]
      BY <2>1, <1>1 DEF DependenciesEarlier
    <3> QED
      BY <2>1, <3>1, <1>1
  <2>2. CASE i = Len(levels) + 1
    <3>1. From(e) \in Scheduled
      BY <2>2, <1>1 DEF RequirementsScheduled
    <3>2. PICK j \in 1..Len(levels) : From(e) \in levels[j]
      BY <3>1, <1>1 DEF Scheduled, Range
    <3> QED
      BY <2>2, <3>2, <1>1
  <2> QED
    BY <2>1, <2>2, <1>1
<1>13. ScheduledOnce'
  <2>1. \A i \in 1..Len(levels) : levels[i] \intersect currentLevel = {}
    BY <1>1 DEF Apart, Scheduled, Range
  <2> QED
    BY <2>1, <1>1 DEF ScheduledOnce
<1> QED
  BY <1>2, <1>8, <1>9, <1>10, <1>11, <1>12, <1>13

\* Every step of get_boot_order keeps the invariant.
LEMMA StepInv == IInv /\ [OrderNext]_orderVars => IInv'
<1> SUFFICES ASSUME IInv, [OrderNext]_orderVars PROVE IInv'
  OBVIOUS
<1>1. ASSUME NEW n \in Node, PopFront(n) PROVE IInv'
  BY <1>1, PopFrontInv
<1>2. ASSUME NEW e \in Edge, CountDown(e) PROVE IInv'
  BY <1>2, CountDownInv
<1>3. CASE EndLevel
  BY <1>3, EndLevelInv
<1>4. CASE UNCHANGED orderVars
  <2> USE <1>4 DEF orderVars
  <2>1. \A e \in Edge : From(e)' = From(e) /\ To(e)' = To(e)
    BY DEF From, To
  <2>2. successors' = successors
    BY <2>1 DEF successors
  <2>3. Scheduled' = Scheduled /\ Popped' = Popped /\ Ready' = Ready
    BY DEF Scheduled, Popped, Ready
  <2>4. \A n \in Node : Left(n)' = Left(n)
    BY <2>1, <2>3 DEF Left
  <2>5. /\ OrderTypeOK' /\ CountsWhatIsLeft' /\ ChildrenArePopped' /\ NextIsAfter'
        /\ ReadyIsCounted' /\ Apart'
    BY <2>1, <2>3, <2>4 DEF IInv, OrderTypeOK, CountsWhatIsLeft,
       ChildrenArePopped, NextIsAfter, ReadyIsCounted, Apart
  <2>6. /\ DependenciesEarlier' /\ ScheduledOnce'
        /\ RequirementsScheduled' /\ KnotsStayBehind'
    BY <2>1, <2>2, <2>3 DEF IInv, DependenciesEarlier, ScheduledOnce,
       RequirementsScheduled, KnotsStayBehind
  <2> QED
    BY <2>5, <2>6 DEF IInv
<1> QED
  BY <1>1, <1>2, <1>3, <1>4 DEF OrderNext

\* No counter of get_boot_order underflows: each is the number of edges left.
THEOREM CountersAreExact == OrderSpec => []CountsWhatIsLeft
<1>1. IInv => CountsWhatIsLeft
  BY DEF IInv
<1> QED
  BY <1>1, InitInv, StepInv, PTL DEF OrderSpec

\* Boot meets every service after all it requires.
THEOREM RequirementsFirst == OrderSpec => []DependenciesEarlier
<1>1. IInv => DependenciesEarlier
  BY DEF IInv
<1> QED
  BY <1>1, InitInv, StepInv, PTL DEF OrderSpec

\* Boot meets no service twice.
THEOREM NeverTwice == OrderSpec => []ScheduledOnce
<1>1. IInv => ScheduledOnce
  BY DEF IInv
<1> QED
  BY <1>1, InitInv, StepInv, PTL DEF OrderSpec

\* unresolved reports the services that are in a cycle or behind one, all of
\* them and no other.
THEOREM ReportIsExact == OrderSpec => []UnresolvedIsExact
<1>1. ASSUME IInv, Returned PROVE UnresolvedIsExact
  <2>1. Ready = Scheduled /\ Popped = Scheduled /\ children = {}
    BY <1>1 DEF IInv, Returned, NextIsAfter, Ready, Popped
  <2>2. ASSUME NEW n \in unresolved
        PROVE  \E m \in unresolved : n \in successors[m]
    <3>1. n \in Node /\ n \notin Ready
      BY <2>1, <2>2 DEF unresolved
    <3>2. PICK e \in Edge : e \in Left(n)
      BY <1>1, <3>1 DEF IInv, ReadyIsCounted, Left
    <3>3. To(e) = n /\ From(e) \notin Scheduled
      BY <2>1, <3>2 DEF Left
    <3>4. From(e) \in unresolved /\ n \in successors[From(e)]
      BY <1>1, <3>3, EndsOfEdges DEF unresolved, IInv
    <3> QED
      BY <3>4
  <2>3. ASSUME NEW S \in SUBSET Node, Knotted(S, successors)
        PROVE  S \subseteq unresolved
    BY <1>1, <2>1, <2>3 DEF IInv, KnotsStayBehind, unresolved
  <2> QED
    BY <2>2, <2>3 DEF UnresolvedIsExact, Knotted
<1>2. IInv => UnresolvedIsExact
  BY <1>1 DEF UnresolvedIsExact
<1> QED
  BY <1>2, InitInv, StepInv, PTL DEF OrderSpec

\* In a graph that find_cycle accepted there is nothing to report: every
\* service gets a level.
THEOREM AcyclicIsScheduled ==
    OrderSpec => [](Returned /\ Acyclic(Node, successors) => unresolved = {})
<1>1. UnresolvedIsExact =>
        (Returned /\ Acyclic(Node, successors) => unresolved = {})
  BY DEF UnresolvedIsExact, Acyclic, unresolved
<1> QED
  BY <1>1, ReportIsExact, PTL

-----------------------------------------------------------------------------
(***************************************************************************)
(* The loop ends: a node is popped, an edge counted and a node put in a    *)
(* level once, and every step does one of the three.                       *)
(***************************************************************************)
Counted == {e \in Edge : From(e) \in Popped} \ children

Advance == Cardinality(Popped) + Cardinality(Counted) + Cardinality(Scheduled)
Most == 2 * Cardinality(Node) + Cardinality(Edge)

\* Counting is monotone, and strictly so when something is added.
LEMMA MoreIsMore ==
    ASSUME NEW V, IsFiniteSet(V), NEW S \in SUBSET V, NEW T \in SUBSET S
    PROVE  /\ Cardinality(S) \in Nat /\ Cardinality(T) \in Nat
           /\ Cardinality(T) <= Cardinality(S) /\ Cardinality(S) <= Cardinality(V)
           /\ T # S => Cardinality(T) + 1 <= Cardinality(S)
<1>1. IsFiniteSet(S) /\ Cardinality(S) <= Cardinality(V)
  BY FS_Subset
<1>2. /\ IsFiniteSet(T) /\ Cardinality(T) <= Cardinality(S)
      /\ Cardinality(S) = Cardinality(T) => S = T
  BY <1>1, FS_Subset
<1>3. Cardinality(S) \in Nat /\ Cardinality(T) \in Nat
  BY <1>1, <1>2, FS_CardinalityType
<1> QED
  BY <1>1, <1>2, <1>3

\* What a step adds to: nothing shrinks, something grows.
Grows ==
    /\ Popped \subseteq Popped' /\ Counted \subseteq Counted'
    /\ Scheduled \subseteq Scheduled'
    /\ Popped # Popped' \/ Counted # Counted' \/ Scheduled # Scheduled'

\* A node that is taken from the queue was in no level before.
LEMMA PopFrontGrows ==
    ASSUME IInv, NEW n \in Node, PopFront(n)
    PROVE  Grows
<1> USE DEF IInv, PopFront
<1>1. Scheduled' = Scheduled /\ Popped' = Popped \union {n} /\ n \notin Popped
  BY DEF Scheduled, Popped, Apart
<1>2. \A e \in Edge : From(e)' = From(e)
  BY DEF From
<1>3. \A e \in children' : From(e) = n
  BY <1>2
<1>4. Counted \subseteq Counted'
  BY <1>1, <1>2, <1>3 DEF Counted
<1> QED
  BY <1>1, <1>4 DEF Grows

\* An edge is counted once.
LEMMA CountDownGrows ==
    ASSUME IInv, NEW e \in Edge, CountDown(e)
    PROVE  Grows
<1> USE DEF IInv, CountDown
<1>1. Scheduled' = Scheduled /\ Popped' = Popped
  BY DEF Scheduled, Popped
<1>2. \A f \in Edge : From(f)' = From(f)
  BY DEF From
<1>3. From(e) \in Popped
  BY DEF ChildrenArePopped, Popped
<1>4. Counted \subseteq Counted' /\ e \in Counted' /\ e \notin Counted
  BY <1>1, <1>2, <1>3 DEF Counted
<1> QED
  BY <1>1, <1>4 DEF Grows

\* A level that ends is not empty, and none of it was in a level before.
LEMMA EndLevelGrows ==
    ASSUME IInv, EndLevel
    PROVE  Grows
<1> USE DEF IInv, EndLevel
<1>1. Scheduled' = Scheduled \union currentLevel
  <2>1. /\ Len(levels) \in Nat
        /\ DOMAIN levels = 1..Len(levels) /\ DOMAIN levels' = 1..(Len(levels) + 1)
        /\ \A i \in 1..Len(levels) : levels'[i] = levels[i]
        /\ levels'[Len(levels) + 1] = currentLevel
    BY DEF OrderTypeOK
  <2>2. Range(levels') = Range(levels) \union {currentLevel}
    BY <2>1 DEF Range
  <2> QED
    BY <2>2 DEF Scheduled
<1>2. Scheduled # Scheduled'
  BY <1>1 DEF Apart
<1>3. Popped' = Popped
  BY <1>1 DEF Popped
<1>4. Counted' = Counted
  BY <1>3 DEF Counted, From
<1> QED
  BY <1>1, <1>2, <1>3, <1>4 DEF Grows

\* What is counted is part of the graph.
LEMMA CountedOnce ==
    ASSUME IInv, IsFiniteSet(Node)
    PROVE  /\ Popped \in SUBSET Node /\ Scheduled \in SUBSET Node
           /\ Counted \in SUBSET Edge
           /\ Cardinality(Node) \in Nat /\ Cardinality(Edge) \in Nat
<1>1. Scheduled \in SUBSET Node
  BY DEF IInv, OrderTypeOK, Scheduled, Range
<1>2. Popped \in SUBSET Node
  BY <1>1 DEF IInv, OrderTypeOK, Popped
<1> QED
  BY <1>1, <1>2, EdgeAssumption, FS_CardinalityType DEF Counted

\* DagEngine::get_boot_order returns, whatever graph of finitely many services
\* it is given, one with cycles included: each of its steps counts one more of
\* at most 2 * |Node| + |Edge|.
THEOREM OrderGetsFurther ==
    ASSUME IsFiniteSet(Node)
    PROVE  OrderSpec => [](Advance \in 0..Most) /\ [][Advance' > Advance]_orderVars
<1> DEFINE a == Cardinality(Popped)    a1 == Cardinality(Popped')
           b == Cardinality(Counted)   b1 == Cardinality(Counted')
           c == Cardinality(Scheduled) c1 == Cardinality(Scheduled')
<1>1. ASSUME IInv PROVE Advance \in 0..Most
  <2>1. a \in Nat /\ a <= Cardinality(Node)
    BY <1>1, CountedOnce, MoreIsMore
  <2>2. c \in Nat /\ c <= Cardinality(Node)
    BY <1>1, CountedOnce, MoreIsMore
  <2>3. b \in Nat /\ b <= Cardinality(Edge)
    BY <1>1, CountedOnce, EdgeAssumption, MoreIsMore
  <2> QED
    BY <1>1, <2>1, <2>2, <2>3, CountedOnce DEF Advance, Most
<1>2. ASSUME IInv, OrderNext PROVE Grows
  BY <1>2, PopFrontGrows, CountDownGrows, EndLevelGrows DEF OrderNext
<1>3. ASSUME IInv, IInv', Grows PROVE Advance' > Advance
  <2>1. /\ Popped' \in SUBSET Node /\ Scheduled' \in SUBSET Node
        /\ Counted' \in SUBSET Edge
    <3>1. Scheduled' \in SUBSET Node
      BY <1>3 DEF IInv, OrderTypeOK, Scheduled, Range
    <3>2. Popped' \in SUBSET Node
      BY <1>3, <3>1 DEF IInv, OrderTypeOK, Popped
    <3> QED
      BY <3>1, <3>2 DEF Counted
  <2>2. a \in Nat /\ a1 \in Nat /\ a <= a1 /\ (Popped # Popped' => a + 1 <= a1)
    BY <1>3, <2>1, MoreIsMore DEF Grows
  <2>3. b \in Nat /\ b1 \in Nat /\ b <= b1 /\ (Counted # Counted' => b + 1 <= b1)
    BY <1>3, <2>1, EdgeAssumption, MoreIsMore DEF Grows
  <2>4. c \in Nat /\ c1 \in Nat /\ c <= c1 /\ (Scheduled # Scheduled' => c + 1 <= c1)
    BY <1>3, <2>1, MoreIsMore DEF Grows
  <2>5. a + 1 <= a1 \/ b + 1 <= b1 \/ c + 1 <= c1
    BY <1>3, <2>2, <2>3, <2>4 DEF Grows
  <2>6. Advance = a + b + c /\ Advance' = a1 + b1 + c1
    BY DEF Advance
  <2> HIDE DEF a, a1, b, b1, c, c1
  <2>7. a1 + b1 + c1 > a + b + c
    BY <2>2, <2>3, <2>4, <2>5
  <2> QED
    BY <2>6, <2>7
<1>4. IInv /\ IInv' /\ [OrderNext]_orderVars => [Advance' > Advance]_orderVars
  BY <1>2, <1>3
<1>5. IInv => Advance \in 0..Most
  BY <1>1
<1> QED
  BY <1>4, <1>5, InitInv, StepInv, PTL DEF OrderSpec
=============================================================================
