------------------------------ MODULE CliBoot ------------------------------
(***************************************************************************)
(* csr without a command, when it is not PID 1: boot_sequence_for_cli      *)
(* loads the units and starts them level by level from a table of its own, *)
(* and ends after the last level.  It waits for no process, so that one    *)
(* that dies at once is Running in this table; and it does not ask whether *)
(* there is a PID 1 that runs them already.                                *)
(***************************************************************************)
EXTENDS DependencyGraph

VARIABLES
    wants,      \* wants[n]: what the unit of n requires
    loaded,     \* the services that have a unit
    cliPc,      \* load, level, start, join, then refused, ok or failed
    scheduled,  \* the services of the levels begun so far
    toVisit,    \* those of the level that the loop has not come to
    toSpawn,    \* handles: the spawn tasks that have not run
    toJoin,     \* handles: the tasks that have, each with its result
    cliState,   \* the state in the table
    spawned     \* history: how the fork of each service went

cliVars ==
    <<wants, loaded, cliPc, scheduled, toVisit, toSpawn, toJoin, cliState, spawned>>

CliInit ==
    /\ loaded \in SUBSET Node
    /\ wants \in [Node -> SUBSET Node]
    /\ \A n \in Node \ loaded : wants[n] = {}
    /\ cliPc = "load"
    /\ scheduled = {} /\ toVisit = {} /\ toSpawn = {} /\ toJoin = {}
    /\ cliState = [n \in Node |-> "Stopped"]
    /\ spawned = [n \in Node |-> "no"]

\* build_dependency_graph: what is required must exist, without cycles.
RequiredBy == [n \in Node |-> {m \in loaded : n \in wants[m]}]
GraphBuilds ==
    /\ \A n \in loaded : wants[n] \subseteq loaded
    /\ Acyclic(loaded, RequiredBy)

\* If it does not build, nothing is started (and the exit code is 0).
LoadUnits ==
    /\ cliPc = "load"
    /\ cliPc' = IF GraphBuilds THEN "level" ELSE "refused"
    /\ UNCHANGED <<wants, loaded, scheduled, toVisit, toSpawn, toJoin, cliState,
                   spawned>>

\* A level of get_boot_order: all that is required is in the levels before.
NextLevel == {n \in loaded \ scheduled : wants[n] \subseteq scheduled}

BeginLevel ==
    /\ cliPc = "level" /\ NextLevel # {}
    /\ cliPc' = "start"
    /\ toVisit' = NextLevel
    /\ scheduled' = scheduled \union NextLevel
    /\ UNCHANGED <<wants, loaded, toSpawn, toJoin, cliState, spawned>>

\* The exit code: 1 if a service failed.
EndBoot ==
    /\ cliPc = "level" /\ NextLevel = {}
    /\ cliPc' = IF \E n \in scheduled : cliState[n] = "Failed" THEN "failed" ELSE "ok"
    /\ UNCHANGED <<wants, loaded, scheduled, toVisit, toSpawn, toJoin, cliState,
                   spawned>>

\* Mutant: what was scheduled before is taken to run.
DepsUp(n) == wants[n] \subseteq scheduled

\* all_deps_satisfied
DepsRun(n) == \A m \in wants[n] : cliState[m] = "Running"

Visit(n) ==
    /\ cliPc = "start" /\ n \in toVisit
    /\ toVisit' = toVisit \ {n}
    /\ IF DepsRun(n)
       THEN /\ cliState' = [cliState EXCEPT ![n] = "Starting"]
            /\ toSpawn' = toSpawn \union {n}
       ELSE /\ cliState' = [cliState EXCEPT ![n] = "Failed"]
            /\ UNCHANGED toSpawn
    /\ UNCHANGED <<wants, loaded, cliPc, scheduled, toJoin, spawned>>

Await ==
    /\ cliPc = "start" /\ toVisit = {}
    /\ cliPc' = "join"
    /\ UNCHANGED <<wants, loaded, scheduled, toVisit, toSpawn, toJoin, cliState,
                   spawned>>

\* A task runs, to its end, while boot_sequence_for_cli awaits one of them.
RunTask(n) ==
    /\ cliPc = "join" /\ n \in toSpawn
    /\ toSpawn' = toSpawn \ {n}
    /\ \E result \in {"up", "error"} :
         /\ spawned' = [spawned EXCEPT ![n] = result]
         /\ toJoin' = toJoin \union {<<n, result>>}
    /\ UNCHANGED <<wants, loaded, cliPc, scheduled, toVisit, cliState>>

JoinTask(n, result) ==
    /\ cliPc = "join" /\ <<n, result>> \in toJoin
    /\ toJoin' = toJoin \ {<<n, result>>}
    /\ cliState' = [cliState EXCEPT ![n] =
                        IF result = "up" THEN "Running" ELSE "Failed"]
    /\ UNCHANGED <<wants, loaded, cliPc, scheduled, toVisit, toSpawn, spawned>>

LevelDone ==
    /\ cliPc = "join" /\ toSpawn = {} /\ toJoin = {}
    /\ cliPc' = "level"
    /\ UNCHANGED <<wants, loaded, scheduled, toVisit, toSpawn, toJoin, cliState,
                   spawned>>

CliNext ==
    \/ LoadUnits \/ BeginLevel \/ EndBoot \/ Await \/ LevelDone
    \/ \E n \in Node :
         Visit(n) \/ RunTask(n) \/ \E r \in {"up", "error"} : JoinTask(n, r)

CliSpec == CliInit /\ [][CliNext]_cliVars

-----------------------------------------------------------------------------
\* No service is forked before all it requires is Running.
RequiredFirst ==
    \A n \in Node : spawned[n] # "no" =>
        \A m \in wants[n] : cliState[m] = "Running"

Ended == cliPc \in {"ok", "failed"}

\* In the end only what failed, and what is above it, is down: nothing is
\* left out of every level, the table says how each fork went, and the exit
\* code tells whether all of them did.
AllAccounted ==
    Ended =>
      /\ \A n \in loaded :
            spawned[n] = "no" => \E m \in wants[n] : spawned[m] # "up"
      /\ \A n \in loaded :
            cliState[n] = IF spawned[n] = "up" THEN "Running" ELSE "Failed"
      /\ cliPc = "ok" <=> \A n \in loaded : spawned[n] = "up"

\* boot_sequence_for_cli starts whatever can be started, and nothing else.
BootsWhatItCan == RequiredFirst /\ AllAccounted
=============================================================================
