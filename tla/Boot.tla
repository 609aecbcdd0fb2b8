-------------------------------- MODULE Boot --------------------------------
(***************************************************************************)
(* PID 1 from power-on: boot_sequence_silent, then start_control_server,   *)
(* then everything module Cesar describes.                                 *)
(*                                                                         *)
(* Boot awaits its spawn tasks and sleeps between the levels: restart      *)
(* tasks run then.  It calls process_reaped_children before and after each *)
(* level.  Nobody else touches the dag, so that the several short locks of *)
(* one service are one step.                                               *)
(***************************************************************************)
EXTENDS Cesar, Sequences

CONSTANT Level  \* the boot order; <<>> if nothing is loaded or nothing builds

\* What BootOrder ensures of the order.
ASSUME LevelAssumption ==
    /\ Level \in Seq(SUBSET Service)
    /\ \A i, j \in DOMAIN Level : i # j => Level[i] \intersect Level[j] = {}
    /\ \A i \in DOMAIN Level : \A n \in Level[i] : \A d \in Requires[n] :
         \E j \in 1..(i - 1) : d \in Level[j]

VARIABLES
    bpc,        \* where boot_sequence_silent is
    level,      \* the index of the level it is at
    names,      \* the services of the level it has not come to
    handles,    \* the spawn tasks that have not run
    results     \* what the other ones returned, NoPid for an error

bootVars == <<bpc, level, names, handles, results>>
bootLocals == <<level, names, handles, results>>

BootInit ==
    /\ AfterBoot({}, <<>>)
    /\ sigchld = FALSE
    /\ known = Service
    /\ dagHeld = FALSE
    /\ reapNeeded = FALSE
    /\ reloadNeeded = FALSE
    /\ shutdownRequested = FALSE
    /\ rebootCmd = "poweroff"
    /\ mpc = "await"
    /\ snapshot = {}
    /\ reaped = {}
    /\ cur = Nothing
    /\ tasks = [n \in Service |-> 0]
    /\ halting = FALSE
    /\ disk = Service
    /\ incoming = {}
    /\ listening = FALSE
    /\ conn = [w \in Worker |-> Closed]
    /\ bpc = "reapFirst"
    /\ level = 1
    /\ names = {}
    /\ handles = {}
    /\ results = {}

-----------------------------------------------------------------------------
\* process_reaped_children, twice per level.
Reap ==
    /\ bpc \in {"reapFirst", "reapLast"}
    /\ level <= Len(Level)
    /\ mpc # "counters"
    /\ ProcessReapedChildren
    /\ UNCHANGED <<controlVars, bootVars>>

Reaped ==
    /\ bpc \in {"reapFirst", "reapLast"}
    /\ mpc = "counters"
    /\ Goto("await")
    /\ bpc' = IF bpc = "reapFirst" THEN "start" ELSE "sleep"
    /\ names' = IF bpc = "reapFirst" THEN Level[level] ELSE {}
    /\ UNCHANGED <<kernelVars, dagVars, children, flagVars, mainLocals, tasks,
                   disk, controlVars, level, handles, results>>

\* mark_starting, the check of the dependencies, and either mark_failed or
\* tokio::spawn.
\* Mutants: the dependencies are not checked; boot waits for them instead.
StartUnchecked(n) ==
    /\ bpc = "start"
    /\ n \in names
    /\ names' = names \ {n}
    /\ svc' = MarkStarting(n)
    /\ handles' = handles \union {n}
    /\ UNCHANGED <<kernelVars, known, dagHeld, children, flagVars, mainVars,
                   controlVars, bpc, level, results>>
StartWhenReady(n) ==
    /\ bpc = "start"
    /\ n \in names
    /\ AllDepsSatisfied(n)
    /\ names' = names \ {n}
    /\ svc' = MarkStarting(n)
    /\ handles' = handles \union {n}
    /\ UNCHANGED <<kernelVars, known, dagHeld, children, flagVars, mainVars,
                   controlVars, bpc, level, results>>
Start(n) ==
    /\ bpc = "start"
    /\ n \in names
    /\ names' = names \ {n}
    /\ IF Requires[n] = {} \/ AllDepsSatisfied(n)
       THEN svc' = MarkStarting(n) /\ handles' = handles \union {n}
       ELSE svc' = MarkFailed(n) /\ UNCHANGED handles
    /\ UNCHANGED <<kernelVars, known, dagHeld, children, flagVars, mainVars,
                   controlVars, bpc, level, results>>

AwaitHandles ==
    /\ bpc = "start"
    /\ names = {}
    /\ bpc' = "join"
    /\ UNCHANGED <<vars, bootLocals>>

\* A spawn task runs to its end while boot awaits it or another one.
SpawnTask(n) ==
    /\ bpc = "join" /\ mpc = "await"
    /\ n \in handles
    /\ handles' = handles \ {n}
    /\ \/ \E p \in Pid :
            /\ Fork(n, p)
            /\ children' = children \union {<<n, p>>}
            /\ results' = results \union {<<n, p>>}
       \/ /\ results' = results \union {<<n, NoPid>>}
          /\ UNCHANGED <<kernelVars, children>>
    /\ UNCHANGED <<dagVars, flagVars, mainVars, controlVars, bpc, level, names>>

\* Mutant: an error is only logged.
JoinSilent(n) ==
    /\ bpc = "join" /\ mpc = "await"
    /\ \E r \in results :
         /\ r[1] = n
         /\ results' = results \ {r}
         /\ svc' = IF r[2] = NoPid THEN svc ELSE MarkRunning(n, r[2])
    /\ UNCHANGED <<kernelVars, known, dagHeld, children, flagVars, mainVars,
                   controlVars, bpc, level, names, handles>>
Join(n) ==
    /\ bpc = "join" /\ mpc = "await"
    /\ \E r \in results :
         /\ r[1] = n
         /\ results' = results \ {r}
         /\ svc' = IF r[2] = NoPid THEN MarkFailed(n) ELSE MarkRunning(n, r[2])
    /\ UNCHANGED <<kernelVars, known, dagHeld, children, flagVars, mainVars,
                   controlVars, bpc, level, names, handles>>

\* Mutant: the spawn tasks are not awaited.
JoinedEarly ==
    /\ bpc = "join" /\ mpc = "await"
    /\ bpc' = "reapLast"
    /\ UNCHANGED <<vars, bootLocals>>
Joined ==
    /\ bpc = "join" /\ mpc = "await"
    /\ handles = {} /\ results = {}
    /\ bpc' = "reapLast"
    /\ UNCHANGED <<vars, bootLocals>>

\* The 50 ms after a level.
Slept ==
    /\ bpc = "sleep" /\ mpc = "await"
    /\ level' = level + 1
    /\ bpc' = "reapFirst"
    /\ UNCHANGED <<vars, names, handles, results>>

\* boot_sequence_silent returns, and the control server begins: unless its socket
\* cannot be bound, which is only logged.
StartControlServer ==
    /\ bpc = "reapFirst"
    /\ level > Len(Level)
    /\ bpc' = "done"
    /\ listening' \in BOOLEAN
    /\ UNCHANGED <<kernelVars, dagVars, children, flagVars, mainVars, conn,
                   bootLocals>>

\* Restart tasks that were scheduled meanwhile.
RestartDuringBoot ==
    /\ bpc \in {"join", "sleep"}
    /\ RestartTasks
    /\ UNCHANGED <<controlVars, bootVars>>

BootSteps ==
    \/ Reap \/ Reaped \/ AwaitHandles \/ Joined \/ Slept \/ StartControlServer
    \/ \E n \in Service : Start(n) \/ SpawnTask(n) \/ Join(n)
    \/ RestartDuringBoot

Environment ==
    /\ Children \/ HandleSigchld \/ HandleSighup \/ HandleSigterm
    /\ UNCHANGED bootVars

BootNext ==
    \/ bpc # "done" /\ (BootSteps \/ Environment)
    \/ bpc = "done" /\ Next /\ UNCHANGED bootVars

bootSpecVars == <<vars, bootVars>>

BootSpec == BootInit /\ [][BootNext]_bootSpecVars

(***************************************************************************)
(* The thread of PID 1 is scheduled and its timers fire.  Nothing is asked *)
(* of the children: each may die at any time, or never.                    *)
(***************************************************************************)
BootFairSpec == BootSpec /\ WF_bootSpecVars(bpc # "done" /\ BootSteps)

-----------------------------------------------------------------------------
\* Between the check of its dependencies and the fork of a service, which are
\* in different tasks, no dependency is found to have died.
CheckedStaysSatisfied ==
    \A n \in handles : Requires[n] = {} \/ AllDepsSatisfied(n)

\* A process of boot is not waited for before mark_running has recorded it:
\* else the result would find no such pid, and the dead process would stay
\* Running.
RecordedBeforeReaped ==
    \A r \in results : r[2] # NoPid => r \in children /\ proc[r[2]] # "reaped"

\* When clients are let in no service is left in the middle of its start,
\* where Start would refuse it for ever: what is Starting has a thread at it.
NobodyLeftStarting ==
    bpc = "done" => \A n \in Service :
        svc[n].state = "Starting" => \E w \in Worker : Reserved(w, n)

\* Boot comes to its end, whatever its children and their dependents do.
BootCompletes == <>(bpc = "done")
=============================================================================
