---------------------------- MODULE EngineProofs ----------------------------
(***************************************************************************)
(* The live graph of the engine, and the boot of the command line that uses *)
(* it, for any set of services and any requirements between them.          *)
(***************************************************************************)
EXTENDS DagEngine, CliBoot, TLAPS

-----------------------------------------------------------------------------
(***************************************************************************)
(* The live graph has no cycle and no edge to what is not a service,       *)
(* whatever the configurations and in whatever order they come.            *)
(***************************************************************************)
EngineInv == GraphIsOfServices /\ LiveGraphIsAcyclic

\* A graph with fewer nodes and fewer edges has no new cycle.
LEMMA SubgraphIsAcyclic ==
    ASSUME NEW V, NEW W, NEW edges, NEW fewer, Acyclic(V, edges),
           \A S \in SUBSET W : Knotted(S, fewer) => S \subseteq V,
           \A n \in V \intersect W : fewer[n] \subseteq edges[n]
    PROVE  Acyclic(W, fewer)
<1> SUFFICES ASSUME NEW S \in SUBSET W, Knotted(S, fewer)
             PROVE  S = {}
  BY DEF Acyclic
<1>1. S \in SUBSET V /\ Knotted(S, edges)
  BY DEF Knotted
<1> QED
  BY <1>1 DEF Acyclic

\* A service that is added has no edges yet, or keeps those it has.
LEMMA AddServiceInv ==
    ASSUME EngineInv, NEW n \in Node, NEW deps \in SUBSET Node, AddService(n, deps)
    PROVE  EngineInv'
<1> USE DEF EngineInv, GraphIsOfServices
<1>1. services' = services \union {n}
  BY DEF AddService, services
<1>2. /\ DOMAIN adjacency' = services \union {n}
      /\ n \notin services => adjacency'[n] = {}
      /\ \A m \in services : adjacency'[m] = adjacency[m]
  BY DEF AddService
<1>3. GraphIsOfServices'
  BY <1>1, <1>2
<1>4. ASSUME NEW S \in SUBSET (DOMAIN adjacency'), Knotted(S, adjacency')
      PROVE  S \subseteq services
  BY <1>2, <1>4 DEF Knotted
<1>5. Acyclic(DOMAIN adjacency', adjacency')
  BY <1>2, <1>4, SubgraphIsAcyclic DEF LiveGraphIsAcyclic
<1> QED
  BY <1>3, <1>5 DEF LiveGraphIsAcyclic

\* Removing a service takes a node and edges away.
LEMMA RemoveServiceInv ==
    ASSUME EngineInv, NEW n \in Node, RemoveService(n)
    PROVE  EngineInv'
<1> USE DEF EngineInv, GraphIsOfServices
<1>1. services' = services \ {n}
  BY DEF RemoveService, services, Restrict
<1>2. /\ DOMAIN adjacency' = services \ {n}
      /\ \A m \in services \ {n} : adjacency'[m] = adjacency[m] \ {n}
  BY DEF RemoveService
<1>3. GraphIsOfServices'
  BY <1>1, <1>2
<1>4. Acyclic(DOMAIN adjacency', adjacency')
  BY <1>2, SubgraphIsAcyclic DEF LiveGraphIsAcyclic
<1> QED
  BY <1>3, <1>4 DEF LiveGraphIsAcyclic

\* Every call of the engine keeps the graph acyclic.
LEMMA EngineStepInv == EngineInv /\ [EngineNext]_engineVars => EngineInv'
<1> SUFFICES ASSUME EngineInv, [EngineNext]_engineVars PROVE EngineInv'
  OBVIOUS
<1>1. ASSUME NEW n \in Node, NEW deps \in SUBSET Node, AddService(n, deps)
      PROVE  EngineInv'
  BY <1>1, AddServiceInv
<1>2. ASSUME NEW n \in Node, NEW deps \in SUBSET Node, SetConfig(n, deps)
      PROVE  EngineInv'
  BY <1>2 DEF SetConfig, EngineInv, GraphIsOfServices, LiveGraphIsAcyclic, services
<1>3. ASSUME NEW n \in Node, RemoveService(n) PROVE EngineInv'
  BY <1>3, RemoveServiceInv
<1>4. CASE Build
  <2>1. services' = services /\ adjacency' = NewAdjacency
    BY <1>4 DEF Build, services
  <2> QED
    BY <1>4, <2>1 DEF Build, EngineInv, GraphIsOfServices, LiveGraphIsAcyclic,
       NewAdjacency
<1>5. CASE UNCHANGED engineVars
  BY <1>5 DEF engineVars, EngineInv, GraphIsOfServices, LiveGraphIsAcyclic, services
<1> QED
  BY <1>1, <1>2, <1>3, <1>4, <1>5 DEF EngineNext

\* The engine begins without services.
LEMMA EngineInitInv == EngineInit => EngineInv
BY DEF EngineInit, EngineInv, GraphIsOfServices, LiveGraphIsAcyclic, Acyclic, Knotted,
       services

\* Whatever is loaded, reloaded or rejected, the live graph is acyclic: with
\* AcyclicIsScheduled (BootOrderProofs), every service gets a boot level.
THEOREM LiveGraphStaysAcyclic == EngineSpec => []LiveGraphIsAcyclic
<1>1. EngineInv => LiveGraphIsAcyclic
  BY DEF EngineInv
<1> QED
  BY <1>1, EngineInitInv, EngineStepInv, PTL DEF EngineSpec

\* The boot order never names a service that was removed.
THEOREM OnlyServicesAreOrdered == EngineSpec => []GraphIsOfServices
<1>1. EngineInv => GraphIsOfServices
  BY DEF EngineInv
<1> QED
  BY <1>1, EngineInitInv, EngineStepInv, PTL DEF EngineSpec

-----------------------------------------------------------------------------
(***************************************************************************)
(* csr without a command starts what can be started and nothing else.      *)
(***************************************************************************)
CliTypeOK ==
    /\ loaded \subseteq Node
    /\ wants \in [Node -> SUBSET Node]
    /\ cliPc \in {"load", "level", "start", "join", "refused", "ok", "failed"}
    /\ scheduled \subseteq loaded
    /\ toVisit \subseteq scheduled /\ toSpawn \subseteq scheduled
    /\ toJoin \subseteq scheduled \X {"up", "error"}
    /\ cliState \in [Node -> {"Stopped", "Starting", "Running", "Failed"}]
    /\ spawned \in [Node -> {"no", "up", "error"}]

\* The three sets are empty between two levels.
Empty == toVisit = {} /\ toSpawn = {} /\ toJoin = {}
PhaseOK ==
    /\ cliPc \in {"load", "level", "refused", "ok", "failed"} => Empty
    /\ cliPc = "join" => toVisit = {}
    /\ cliPc = "start" => toJoin = {}
    /\ cliPc \in {"level", "start", "join"} => GraphBuilds

\* The state in the table says in which of the sets a service is.
PlaceOK ==
    /\ \A n \in Node \ scheduled : cliState[n] = "Stopped"
    /\ \A n \in toVisit : cliState[n] = "Stopped"
    /\ \A n \in toSpawn : cliState[n] = "Starting" /\ spawned[n] = "no"
    /\ \A t \in toJoin : cliState[t[1]] = "Starting" /\ spawned[t[1]] = t[2]
    /\ \A n \in Node : cliState[n] = "Stopped" =>
          spawned[n] = "no" /\ (n \in toVisit \/ n \notin scheduled)
    /\ \A n \in Node : cliState[n] = "Starting" =>
          n \in toSpawn \/ \E t \in toJoin : t[1] = n

\* How a service came to be Running or Failed.
CauseOK ==
    /\ \A n \in Node : cliState[n] = "Running" => spawned[n] = "up"
    /\ \A n \in Node : cliState[n] = "Failed" =>
          /\ spawned[n] # "up"
          /\ spawned[n] = "no" => \E m \in wants[n] : cliState[m] = "Failed"

\* What is required is settled before the service is looked at.
SettledOK ==
    /\ \A n \in toVisit : \A m \in wants[n] : cliState[m] \in {"Running", "Failed"}
    /\ \A n \in Node : cliState[n] = "Starting" => DepsRun(n)
    /\ RequiredFirst

EndOK ==
    Ended =>
      /\ loaded \subseteq scheduled
      /\ cliPc = "ok" <=> \A n \in scheduled : cliState[n] # "Failed"

CliInv == CliTypeOK /\ PhaseOK /\ PlaceOK /\ CauseOK /\ SettledOK /\ EndOK

-----------------------------------------------------------------------------
LEMMA CliInitInv ==
    ASSUME CliInit
    PROVE  CliInv
<1> USE DEF CliInit
<1>1. CliTypeOK
  BY DEF CliTypeOK
<1>2. PhaseOK /\ EndOK
  BY DEF PhaseOK, Empty, EndOK, Ended
<1>3. PlaceOK /\ CauseOK
  BY DEF PlaceOK, CauseOK
<1>4. SettledOK
  BY DEF SettledOK, RequiredFirst
<1> QED
  BY <1>1, <1>2, <1>3, <1>4 DEF CliInv

\* Between two levels every service that was scheduled is settled.
LEMMA SettledBetweenLevels ==
    ASSUME CliInv, Empty, NEW n \in scheduled
    PROVE  cliState[n] \in {"Running", "Failed"}
<1>1. n \in Node
  BY DEF CliInv, CliTypeOK
<1>2. cliState[n] # "Stopped" /\ cliState[n] # "Starting"
  BY <1>1 DEF CliInv, PlaceOK, Empty
<1> QED
  BY <1>1, <1>2 DEF CliInv, CliTypeOK

\* An acyclic graph always has a next level, until all is scheduled.
LEMMA NothingIsLeftOut ==
    ASSUME CliTypeOK, GraphBuilds, NextLevel = {}
    PROVE  loaded \subseteq scheduled
<1> DEFINE S == loaded \ scheduled
<1>1. ASSUME NEW n \in S
      PROVE  \E m \in S : n \in RequiredBy[m]
  <2>1. PICK m \in wants[n] : m \notin scheduled
    BY <1>1 DEF NextLevel
  <2>2. m \in loaded /\ m \in Node
    BY <1>1, <2>1 DEF GraphBuilds, CliTypeOK
  <2>3. n \in RequiredBy[m]
    BY <1>1, <2>1, <2>2 DEF RequiredBy
  <2> QED
    BY <2>1, <2>2, <2>3
<1>2. Knotted(S, RequiredBy)
  BY <1>1 DEF Knotted
<1>3. S \in SUBSET loaded
  OBVIOUS
<1>4. S = {}
  <2> HIDE DEF S
  <2> QED
    BY <1>2, <1>3 DEF GraphBuilds, Acyclic
<1> QED
  BY <1>4

-----------------------------------------------------------------------------
LEMMA GraphStays ==
    ASSUME UNCHANGED <<wants, loaded>>
    PROVE  GraphBuilds' <=> GraphBuilds
<1>1. RequiredBy' = RequiredBy
  BY DEF RequiredBy
<1>2. Acyclic(loaded, RequiredBy)' <=> Acyclic(loaded, RequiredBy)
  BY <1>1 DEF Acyclic, Knotted
<1> QED
  BY <1>1, <1>2 DEF GraphBuilds

LEMMA LoadUnitsInv ==
    ASSUME CliInv, LoadUnits
    PROVE  CliInv'
<1> USE DEF LoadUnits
<1>1. CliTypeOK'
  BY DEF CliInv, CliTypeOK
<1>2. PhaseOK'
  BY GraphStays DEF CliInv, PhaseOK, Empty
<1>3. PlaceOK' /\ CauseOK' /\ SettledOK'
  BY DEF CliInv, PlaceOK, CauseOK, SettledOK, DepsRun, RequiredFirst
<1>4. EndOK'
  BY DEF EndOK, Ended
<1> QED
  BY <1>1, <1>2, <1>3, <1>4 DEF CliInv

LEMMA BeginLevelInv ==
    ASSUME CliInv, BeginLevel
    PROVE  CliInv'
<1> USE DEF BeginLevel
<1>1. Empty
  BY DEF CliInv, PhaseOK
<1>2. CliTypeOK'
  BY <1>1 DEF CliInv, CliTypeOK, NextLevel, Empty
<1>3. PhaseOK'
  BY <1>1, GraphStays DEF CliInv, PhaseOK, Empty
<1>4. PlaceOK'
  <2>1. \A n \in Node : n \in NextLevel => cliState[n] = "Stopped"
    BY DEF CliInv, CliTypeOK, PlaceOK, NextLevel
  <2> QED
    BY <1>1, <2>1 DEF CliInv, CliTypeOK, PlaceOK, Empty, NextLevel
<1>5. CauseOK'
  BY DEF CliInv, CauseOK
<1>6. SettledOK'
  <2>1. \A n \in NextLevel : \A m \in wants[n] :
           cliState[m] \in {"Running", "Failed"}
    BY <1>1, SettledBetweenLevels DEF NextLevel
  <2> QED
    BY <2>1 DEF CliInv, SettledOK, DepsRun, RequiredFirst
<1>7. EndOK'
  BY DEF EndOK, Ended
<1> QED
  BY <1>2, <1>3, <1>4, <1>5, <1>6, <1>7 DEF CliInv

LEMMA EndBootInv ==
    ASSUME CliInv, EndBoot
    PROVE  CliInv'
<1> USE DEF EndBoot
<1>1. CliTypeOK'
  BY DEF CliInv, CliTypeOK
<1>2. PhaseOK'
  BY DEF CliInv, PhaseOK, Empty
<1>3. PlaceOK' /\ CauseOK' /\ SettledOK'
  BY DEF CliInv, PlaceOK, CauseOK, SettledOK, DepsRun, RequiredFirst
<1>4. EndOK'
  <2>1. loaded \subseteq scheduled
    BY NothingIsLeftOut DEF CliInv, PhaseOK
  <2> QED
    BY <2>1 DEF EndOK, Ended
<1> QED
  BY <1>1, <1>2, <1>3, <1>4 DEF CliInv

LEMMA VisitInv ==
    ASSUME CliInv, NEW n \in Node, Visit(n)
    PROVE  CliInv'
<1> USE DEF Visit
<1>1. n \in scheduled /\ cliState[n] = "Stopped" /\ spawned[n] = "no"
  BY DEF CliInv, CliTypeOK, PlaceOK
<1>2. \A m \in wants[n] : m \in Node /\ m # n /\ cliState[m] \in {"Running", "Failed"}
  BY <1>1 DEF CliInv, CliTypeOK, SettledOK
<1>3. \A m \in Node \ {n} : cliState'[m] = cliState[m]
  BY DEF CliInv, CliTypeOK
<1>4. CliTypeOK'
  BY <1>1 DEF CliInv, CliTypeOK
<1>5. PhaseOK'
  BY GraphStays DEF CliInv, PhaseOK, Empty
<1>6. PlaceOK'
  BY <1>1, <1>3 DEF CliInv, CliTypeOK, PhaseOK, PlaceOK
<1>7. CauseOK'
  BY <1>1, <1>2, <1>3 DEF CliInv, CliTypeOK, CauseOK, DepsRun
<1>8. SettledOK'
  <2>1. \A k \in Node : \A m \in wants[k] :
           m \in Node /\ (cliState[m] \in {"Running", "Failed"} =>
                            cliState'[m] = cliState[m])
    BY <1>1, <1>3 DEF CliInv, CliTypeOK
  <2>2. cliState'[n] = "Starting" => DepsRun(n)
    BY DEF CliInv, CliTypeOK
  <2> QED
    BY <1>1, <1>3, <2>1, <2>2
       DEF CliInv, CliTypeOK, SettledOK, DepsRun, RequiredFirst
<1>9. EndOK'
  BY DEF EndOK, Ended
<1> QED
  BY <1>4, <1>5, <1>6, <1>7, <1>8, <1>9 DEF CliInv

LEMMA PhaseInv ==
    ASSUME CliInv, Await \/ LevelDone
    PROVE  CliInv'
<1> USE DEF Await, LevelDone
<1>1. CliTypeOK'
  BY DEF CliInv, CliTypeOK
<1>2. PhaseOK'
  BY GraphStays DEF CliInv, PhaseOK, Empty
<1>3. PlaceOK' /\ CauseOK' /\ SettledOK'
  BY DEF CliInv, PlaceOK, CauseOK, SettledOK, DepsRun, RequiredFirst
<1>4. EndOK'
  BY DEF EndOK, Ended
<1> QED
  BY <1>1, <1>2, <1>3, <1>4 DEF CliInv

LEMMA RunTaskInv ==
    ASSUME CliInv, NEW n \in Node, RunTask(n)
    PROVE  CliInv'
<1>1. PICK result \in {"up", "error"} :
         /\ spawned' = [spawned EXCEPT ![n] = result]
         /\ toJoin' = toJoin \union {<<n, result>>}
  BY DEF RunTask
<1> USE DEF RunTask
<1>2. n \in scheduled /\ cliState[n] = "Starting" /\ spawned[n] = "no" /\ DepsRun(n)
  BY DEF CliInv, CliTypeOK, PlaceOK, SettledOK
<1>3. /\ spawned'[n] = result
      /\ \A m \in Node \ {n} : spawned'[m] = spawned[m]
  BY <1>1 DEF CliInv, CliTypeOK
<1>4. CliTypeOK'
  BY <1>1, <1>2 DEF CliInv, CliTypeOK
<1>5. PhaseOK'
  BY GraphStays DEF CliInv, PhaseOK, Empty
<1>6. PlaceOK'
  <2>1. \A t \in toJoin : t[1] \in Node /\ t[2] # "no" /\ t[1] # n
    BY <1>2 DEF CliInv, CliTypeOK, PlaceOK
  <2>2. \A t \in toJoin' : cliState[t[1]] = "Starting" /\ spawned'[t[1]] = t[2]
    BY <1>1, <1>2, <1>3, <2>1 DEF CliInv, PlaceOK
  <2>3. \A m \in Node : cliState[m] = "Starting" =>
           m \in toSpawn' \/ \E t \in toJoin' : t[1] = m
    <3>1. <<n, result>> \in toJoin' /\ <<n, result>>[1] = n
      BY <1>1
    <3>2. toSpawn \subseteq toSpawn' \union {n} /\ toJoin \subseteq toJoin'
      BY <1>1
    <3> QED
      BY <3>1, <3>2 DEF CliInv, PlaceOK
  <2> QED
    BY <1>2, <1>3, <2>2, <2>3 DEF CliInv, CliTypeOK, PlaceOK
<1>7. CauseOK'
  BY <1>2, <1>3 DEF CliInv, CliTypeOK, CauseOK
<1>8. SettledOK'
  BY <1>2, <1>3 DEF CliInv, CliTypeOK, SettledOK, DepsRun, RequiredFirst
<1>9. EndOK'
  BY DEF EndOK, Ended
<1> QED
  BY <1>4, <1>5, <1>6, <1>7, <1>8, <1>9 DEF CliInv

LEMMA JoinTaskInv ==
    ASSUME CliInv, NEW n \in Node, NEW r \in {"up", "error"}, JoinTask(n, r)
    PROVE  CliInv'
<1> USE DEF JoinTask
<1>1. n \in scheduled /\ cliState[n] = "Starting" /\ spawned[n] = r
  BY DEF CliInv, CliTypeOK, PlaceOK
<1>2. /\ cliState'[n] = IF r = "up" THEN "Running" ELSE "Failed"
      /\ \A m \in Node \ {n} : cliState'[m] = cliState[m]
  BY DEF CliInv, CliTypeOK
<1>3. CliTypeOK'
  BY DEF CliInv, CliTypeOK
<1>4. PhaseOK'
  BY GraphStays DEF CliInv, PhaseOK, Empty
<1>5. PlaceOK'
  <2>1. \A t \in toJoin : t \in Node \X {"up", "error"} /\ spawned[t[1]] = t[2]
    BY DEF CliInv, CliTypeOK, PlaceOK
  <2>2. \A t \in toJoin : t[1] = n => t = <<n, r>>
    BY <1>1, <2>1
  <2>3. \A t \in toJoin' : t[1] \in Node \ {n}
    BY <2>1, <2>2
  <2>4. \A t \in toJoin : t[1] # n => t \in toJoin'
    OBVIOUS
  <2>5. \A m \in toSpawn \union toVisit : m # n
    BY <1>1 DEF CliInv, CliTypeOK, PlaceOK
  <2>6. \A m \in Node \ {n} : cliState[m] = "Starting" =>
           m \in toSpawn \/ \E t \in toJoin' : t[1] = m
    BY <2>4 DEF CliInv, PlaceOK
  <2> QED
    BY <1>1, <1>2, <2>3, <2>5, <2>6 DEF CliInv, CliTypeOK, PlaceOK
<1>6. CauseOK'
  BY <1>1, <1>2 DEF CliInv, CliTypeOK, CauseOK
<1>7. SettledOK'
  <2>1. \A m \in Node : cliState[m] \in {"Running", "Failed"} =>
           cliState'[m] = cliState[m]
    BY <1>1, <1>2
  <2>2. \A m \in Node : cliState'[m] = "Starting" => cliState[m] = "Starting"
    BY <1>2
  <2> QED
    BY <2>1, <2>2 DEF CliInv, CliTypeOK, SettledOK, DepsRun, RequiredFirst
<1>8. EndOK'
  BY DEF EndOK, Ended
<1> QED
  BY <1>3, <1>4, <1>5, <1>6, <1>7, <1>8 DEF CliInv

LEMMA CliStutterInv ==
    ASSUME CliInv, UNCHANGED cliVars
    PROVE  CliInv'
BY GraphStays DEF cliVars, CliInv, CliTypeOK, PhaseOK, Empty, PlaceOK, CauseOK, SettledOK,
       EndOK, Ended, DepsRun, RequiredFirst

LEMMA CliNextInv ==
    ASSUME CliInv, [CliNext]_cliVars
    PROVE  CliInv'
BY LoadUnitsInv, BeginLevelInv, EndBootInv, VisitInv, PhaseInv, RunTaskInv,
   JoinTaskInv, CliStutterInv DEF CliNext

\* The invariant gives the account of every service at the end.
LEMMA InvGivesAccount ==
    ASSUME CliInv
    PROVE  BootsWhatItCan
<1>1. RequiredFirst
  BY DEF CliInv, SettledOK
<1>2. ASSUME Ended
      PROVE  /\ \A n \in loaded :
                   spawned[n] = "no" => \E m \in wants[n] : spawned[m] # "up"
             /\ \A n \in loaded :
                   cliState[n] = IF spawned[n] = "up" THEN "Running" ELSE "Failed"
             /\ cliPc = "ok" <=> \A n \in loaded : spawned[n] = "up"
  <2>1. Empty
    BY <1>2 DEF CliInv, PhaseOK, Ended
  <2>2. loaded = scheduled /\ loaded \subseteq Node
    BY <1>2 DEF CliInv, CliTypeOK, EndOK
  <2>3. \A n \in loaded : cliState[n] \in {"Running", "Failed"}
    BY <2>1, <2>2, SettledBetweenLevels
  <2>4. \A n \in loaded :
           cliState[n] = IF spawned[n] = "up" THEN "Running" ELSE "Failed"
    BY <2>2, <2>3 DEF CliInv, CauseOK
  <2>5. \A n \in loaded :
           spawned[n] = "no" => \E m \in wants[n] : spawned[m] # "up"
    BY <2>2, <2>4 DEF CliInv, CliTypeOK, CauseOK
  <2>6. cliPc = "ok" <=> \A n \in loaded : spawned[n] = "up"
    BY <1>2, <2>2, <2>3, <2>4 DEF CliInv, EndOK
  <2> QED
    BY <2>4, <2>5, <2>6
<1> QED
  BY <1>1, <1>2 DEF BootsWhatItCan, AllAccounted

-----------------------------------------------------------------------------
\* boot_sequence_for_cli forks no service before all it requires is Running,
\* leaves none out that could be started, and its exit code says so.
THEOREM StartsWhatItCan == CliSpec => []BootsWhatItCan
<1>1. CliInit => CliInv
  BY CliInitInv
<1>2. CliInv /\ [CliNext]_cliVars => CliInv'
  BY CliNextInv
<1>3. CliInv => BootsWhatItCan
  BY InvGivesAccount
<1> QED
  BY <1>1, <1>2, <1>3, PTL DEF CliSpec
=============================================================================
