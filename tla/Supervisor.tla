----------------------------- MODULE Supervisor -----------------------------
(***************************************************************************)
(* The main thread of PID 1 after boot: the 100 ms loop that reaps dead    *)
(* children, schedules and runs automatic restarts, applies reloads and    *)
(* finally shuts the system down.                                          *)
(*                                                                         *)
(* The runtime is single-threaded (tokio current_thread), so the restart   *)
(* tasks run only while the loop sleeps; the threads of the control server *)
(* (module ControlServer) and the kernel interleave with every step.       *)
(***************************************************************************)
EXTENDS ServiceTable

CONSTANT MaxRestarts    \* RESTART_MAX_ATTEMPTS

ASSUME MaxRestartsAssumption == MaxRestarts \in Nat

VARIABLES
    mpc,        \* where the main thread is
    snapshot,   \* its local clone of children
    reaped,     \* the results of reap_zombies not handled yet
    cur,        \* the result, the restart task or the victim in hand, if any
    tasks,      \* tasks[n]: restart tasks of n sleeping out their backoff
    halting,    \* shutdown_graceful has been entered
    disk,       \* the services load_all_services would return
    incoming    \* what it returned to the reload in progress

mainLocals == <<snapshot, reaped, cur, halting, incoming>>
mainVars == <<mpc, mainLocals, tasks, disk>>

\* "await" is the sleep at the end of the loop, "drain" that of the shutdown
\* drain: process_reaped_children follows both.
MainPC ==
    {"await", "snapshot", "waitpid", "handle", "untrack", "policy",
     "counters", "reloadCheck", "reloadNext", "reloadTerm", "reloadWait",
     "reloadUntrack", "shutdownCheck", "taskFork", "taskPush", "taskMark",
     "stopBegin", "stopSnapshot", "stopSignal", "drain", "killSnapshot",
     "killEach", "halted"}

Outcome == {"exited", "crashed"}
Result == [name : Service, pid : Pid \union {NoPid}, status : Outcome \union {"-"}]
Nothing == {}

MainTypeOK ==
    /\ mpc \in MainPC
    /\ snapshot \subseteq (Service \X Pid)
    /\ reaped \subseteq Result
    /\ cur \in SUBSET Result /\ \A q, r \in cur : q = r
    /\ tasks \in [Service -> Nat]
    /\ halting \in BOOLEAN
    /\ disk \subseteq Service
    /\ incoming \subseteq Service

Goto(label) == mpc' = label

-----------------------------------------------------------------------------
(***************************************************************************)
(* process_reaped_children, called by the loop and by the shutdown drain.  *)
(***************************************************************************)
AfterReaping == IF halting THEN "drain" ELSE "counters"

\* The swap comes before the waitpid loop: a death after it sets the flag
\* again.
ReapCheck ==
    /\ mpc \in {"await", "drain"}
    /\ reapNeeded' = FALSE
    /\ Goto(IF reapNeeded THEN "snapshot" ELSE AfterReaping)
    /\ UNCHANGED <<kernelVars, dagVars, children, reloadNeeded,
                   shutdownRequested, rebootCmd, mainLocals, tasks, disk>>

ReapSnapshot ==
    /\ mpc = "snapshot"
    /\ snapshot' = children
    /\ Goto("waitpid")
    /\ UNCHANGED <<kernelVars, dagVars, children, flagVars, reaped, cur,
                   halting, incoming, tasks, disk>>

\* One turn of reap_zombies: a pid outside the snapshot is an orphan, which
\* is only logged.
ReapOne ==
    /\ mpc = "waitpid"
    /\ \E p \in Pid :
         /\ WaitPid(p)
         /\ reaped' = reaped \union
              {[name |-> c[1], pid |-> p, status |-> proc[p]] :
                   c \in {e \in snapshot : e[2] = p}}
    /\ UNCHANGED <<dagVars, children, flagVars, mpc, snapshot, cur, halting,
                   incoming, tasks, disk>>

\* Mutant: one waitpid per SIGCHLD.
ReapDoneEarly ==
    /\ mpc = "waitpid"
    /\ reaped # {} \/ \A p \in Pid : ~Zombie(p)
    /\ snapshot' = {}
    /\ Goto("handle")
    /\ UNCHANGED <<kernelVars, dagVars, children, flagVars, reaped, cur,
                   halting, incoming, tasks, disk>>

ReapDone ==
    /\ mpc = "waitpid"
    /\ \A p \in Pid : ~Zombie(p)
    /\ snapshot' = {}
    /\ Goto("handle")
    /\ UNCHANGED <<kernelVars, dagVars, children, flagVars, reaped, cur,
                   halting, incoming, tasks, disk>>

\* Exit code 0: the table keeps saying Running.
HandleExited ==
    /\ mpc = "handle"
    /\ \E r \in reaped :
         /\ r.status = "exited"
         /\ reaped' = reaped \ {r}
         /\ cur' = {r}
         /\ children' = Retained(r.name)
    /\ Goto("policy")
    /\ UNCHANGED <<kernelVars, dagVars, flagVars, snapshot, halting, incoming,
                   tasks, disk>>

\* Mutant: mark_failed is forgotten.
HandleFailedSilent ==
    /\ mpc = "handle"
    /\ \E r \in reaped :
         /\ r.status = "crashed"
         /\ reaped' = reaped \ {r}
         /\ cur' = {r}
    /\ Goto("untrack")
    /\ UNCHANGED <<kernelVars, dagVars, children, flagVars, snapshot, halting,
                   incoming, tasks, disk>>

HandleFailed ==
    /\ mpc = "handle"
    /\ \E r \in reaped :
         /\ r.status = "crashed"
         /\ reaped' = reaped \ {r}
         /\ cur' = {r}
         /\ svc' = MarkFailed(r.name)
    /\ Goto("untrack")
    /\ UNCHANGED <<kernelVars, known, dagHeld, children, flagVars, snapshot,
                   halting, incoming, tasks, disk>>

HandleUntrack ==
    /\ mpc = "untrack"
    /\ \E r \in cur : children' = Retained(r.name)
    /\ Goto("policy")
    /\ UNCHANGED <<kernelVars, dagVars, flagVars, mainLocals, tasks, disk>>

\* Mutant: the flag is cleared when all is handled instead of at first.
HandleDoneClears ==
    /\ mpc = "handle"
    /\ reaped = {}
    /\ reapNeeded' = FALSE
    /\ Goto(AfterReaping)
    /\ UNCHANGED <<kernelVars, dagVars, children, reloadNeeded,
                   shutdownRequested, rebootCmd, mainLocals, tasks, disk>>
HandleDone ==
    /\ mpc = "handle"
    /\ reaped = {}
    /\ Goto(AfterReaping)
    /\ UNCHANGED <<kernelVars, dagVars, children, flagVars, mainLocals, tasks,
                   disk>>

(***************************************************************************)
(* maybe_restart_service.  It takes the dag lock twice, to read the policy *)
(* and the counter and to increment the counter; only the main thread ever *)
(* writes a counter or the configurations, so one step does both.          *)
(***************************************************************************)
ShouldRestart(n, status) ==
    \/ Policy[n] = "Always"
    \/ Policy[n] = "OnFailure" /\ status # "exited"

BudgetLeft(n) == svc[n].restarts < MaxRestarts

MaybeRestart ==
    /\ mpc = "policy"
    /\ \E r \in cur :
         IF /\ ~shutdownRequested
            /\ r.name \in known
            /\ ShouldRestart(r.name, r.status)
            /\ BudgetLeft(r.name)
         THEN /\ svc' = Updated(r.name, [svc[r.name] EXCEPT !.restarts = @ + 1])
              /\ tasks' = [tasks EXCEPT ![r.name] = @ + 1]
         ELSE UNCHANGED <<svc, tasks>>
    /\ cur' = Nothing
    /\ Goto("handle")
    /\ UNCHANGED <<kernelVars, known, dagHeld, children, flagVars, snapshot,
                   reaped, halting, incoming, disk>>

(***************************************************************************)
(* reset_idle_restart_counters.  Whether a service has been Running for    *)
(* RESTART_RESET_AFTER_SECS is a free choice: the model has no clock.      *)
(***************************************************************************)
ResetCounters ==
    /\ mpc = "counters"
    /\ \E stable \in SUBSET {n \in known : svc[n].state = "Running"} :
         svc' = [n \in Service |->
                   IF n \in stable THEN [svc[n] EXCEPT !.restarts = 0]
                                   ELSE svc[n]]
    /\ Goto("reloadCheck")
    /\ UNCHANGED <<kernelVars, known, dagHeld, children, flagVars, mainLocals,
                   tasks, disk>>

-----------------------------------------------------------------------------
(***************************************************************************)
(* reload_services.  From the swap to the end of the function nothing but  *)
(* the wait for a victim's death takes time, and the dag lock is held over *)
(* that wait.                                                              *)
(***************************************************************************)
ReloadCheck ==
    /\ mpc = "reloadCheck"
    /\ reloadNeeded' = FALSE
    /\ IF reloadNeeded
       THEN incoming' = disk /\ dagHeld' = TRUE /\ Goto("reloadNext")
       ELSE UNCHANGED <<incoming, dagHeld>> /\ Goto("shutdownCheck")
    /\ UNCHANGED <<kernelVars, known, svc, children, reapNeeded,
                   shutdownRequested, rebootCmd, snapshot, reaped, cur,
                   halting, tasks, disk>>

\* A removed service is stopped only if the table holds a pid for it.
ReloadRemove ==
    /\ mpc = "reloadNext"
    /\ \E n \in known \ incoming :
         IF svc[n].pid = NoPid
         THEN /\ known' = known \ {n}
              /\ svc' = [svc EXCEPT ![n] = FromConfig]
              /\ UNCHANGED <<cur, mpc>>
         ELSE /\ cur' = {[name |-> n, pid |-> svc[n].pid, status |-> "-"]}
              /\ Goto("reloadTerm")
              /\ UNCHANGED <<known, svc>>
    /\ UNCHANGED <<kernelVars, dagHeld, children, flagVars, snapshot, reaped,
                   halting, incoming, tasks, disk>>

\* terminate_group(pid, 5 s): a vanished pid ends it at once, with an error
\* that is ignored.
ReloadTerm ==
    /\ mpc = "reloadTerm"
    /\ \E r \in cur :
         IF proc[r.pid] = "reaped"
         THEN UNCHANGED flagVars /\ Goto("reloadUntrack")
         ELSE TermGroup(r.pid) /\ Goto("reloadWait")
    /\ UNCHANGED <<kernelVars, dagVars, children, mainLocals, tasks, disk>>

\* Mutants: the end of the grace period counts as death; no SIGKILL, the
\* wait has no end.
ReloadWaitTimeout ==
    /\ mpc = "reloadWait"
    /\ Goto("reloadUntrack")
    /\ UNCHANGED <<kernelVars, dagVars, children, flagVars, mainLocals, tasks,
                   disk>>

ReloadWaitOnly ==
    /\ mpc = "reloadWait"
    /\ \A r \in cur : ~Alive(r.pid)
    /\ Goto("reloadUntrack")
    /\ UNCHANGED <<kernelVars, dagVars, children, flagVars, mainLocals, tasks,
                   disk>>

\* wait_for_death, and SIGKILL when the grace period is over.
ReloadWait ==
    /\ mpc = "reloadWait"
    /\ \E r \in cur :
         IF Alive(r.pid) THEN KillNow(r.pid) /\ UNCHANGED mpc
                         ELSE UNCHANGED kernelVars /\ Goto("reloadUntrack")
    /\ UNCHANGED <<dagVars, children, flagVars, mainLocals, tasks, disk>>

ReloadUntrack ==
    /\ mpc = "reloadUntrack"
    /\ \E r \in cur :
         /\ children' = Retained(r.name)
         /\ known' = known \ {r.name}
         /\ svc' = [svc EXCEPT ![r.name] = FromConfig]
    /\ cur' = Nothing
    /\ Goto("reloadNext")
    /\ UNCHANGED <<kernelVars, dagHeld, flagVars, snapshot, reaped, halting,
                   incoming, tasks, disk>>

\* Existing entries keep their state; new ones start Stopped.
ReloadFinish ==
    /\ mpc = "reloadNext"
    /\ known \subseteq incoming
    /\ known' = incoming
    /\ dagHeld' = FALSE
    /\ incoming' = {}
    /\ Goto("shutdownCheck")
    /\ UNCHANGED <<kernelVars, svc, children, flagVars, snapshot, reaped, cur,
                   halting, tasks, disk>>

-----------------------------------------------------------------------------
(***************************************************************************)
(* The restart tasks, which run while the loop sleeps.  A task wakes when  *)
(* its backoff is over, which the model lets be any time, and gives up if  *)
(* a shutdown has been requested meanwhile.                                *)
(***************************************************************************)
TaskWake(n) ==
    /\ mpc = "await"
    /\ tasks[n] > 0
    /\ tasks' = [tasks EXCEPT ![n] = @ - 1]
    /\ IF shutdownRequested
       THEN UNCHANGED <<cur, mpc>>
       ELSE /\ cur' = {[name |-> n, pid |-> NoPid, status |-> "-"]}
            /\ Goto("taskFork")
    /\ UNCHANGED <<kernelVars, dagVars, children, flagVars, snapshot, reaped,
                   halting, incoming, disk>>

\* A failed spawn is only logged: the service keeps the state it has.
TaskFork ==
    /\ mpc = "taskFork"
    /\ \/ \E r \in cur, p \in Pid :
            /\ Fork(r.name, p)
            /\ cur' = {[r EXCEPT !.pid = p]}
            /\ Goto("taskPush")
       \/ /\ cur' = Nothing
          /\ Goto("await")
          /\ UNCHANGED kernelVars
    /\ UNCHANGED <<dagVars, children, flagVars, snapshot, reaped, halting,
                   incoming, tasks, disk>>

\* Mutant: the restarted process is not added to the children.
TaskPushNothing ==
    /\ mpc = "taskPush"
    /\ Goto("taskMark")
    /\ UNCHANGED <<kernelVars, dagVars, children, flagVars, mainLocals, tasks,
                   disk>>

TaskPush ==
    /\ mpc = "taskPush"
    /\ \E r \in cur : children' = children \union {<<r.name, r.pid>>}
    /\ Goto("taskMark")
    /\ UNCHANGED <<kernelVars, dagVars, flagVars, mainLocals, tasks, disk>>

TaskMark ==
    /\ mpc = "taskMark"
    /\ \E r \in cur : svc' = MarkRunning(r.name, r.pid)
    /\ cur' = Nothing
    /\ Goto("await")
    /\ UNCHANGED <<kernelVars, known, dagHeld, children, flagVars, snapshot,
                   reaped, halting, incoming, tasks, disk>>

-----------------------------------------------------------------------------
(***************************************************************************)
(* shutdown_graceful                                                       *)
(***************************************************************************)
ShutdownCheck ==
    /\ mpc = "shutdownCheck"
    /\ shutdownRequested' = FALSE
    /\ Goto(IF shutdownRequested THEN "stopBegin" ELSE "await")
    /\ UNCHANGED <<kernelVars, dagVars, children, reapNeeded, reloadNeeded,
                   rebootCmd, mainLocals, tasks, disk>>

\* Until here the flag is FALSE, although a shutdown has been requested.
StopBegin ==
    /\ mpc = "stopBegin"
    /\ shutdownRequested' = TRUE
    /\ halting' = TRUE
    /\ Goto("stopSnapshot")
    /\ UNCHANGED <<kernelVars, dagVars, children, reapNeeded, reloadNeeded,
                   rebootCmd, snapshot, reaped, cur, incoming, tasks, disk>>

\* pid_by_name keeps one pid of a name of the graph; of the other names every
\* entry is signalled.
StopSnapshot ==
    /\ mpc = "stopSnapshot"
    /\ \E targets \in SUBSET children :
         /\ \A c \in children :
              IF c[1] \in known
              THEN \E t \in targets : t[1] = c[1]
              ELSE c \in targets
         /\ \A t, u \in targets : t[1] \in known /\ t[1] = u[1] => t = u
         /\ snapshot' = targets
    /\ Goto("stopSignal")
    /\ UNCHANGED <<kernelVars, dagVars, children, flagVars, reaped, cur,
                   halting, incoming, tasks, disk>>

(***************************************************************************)
(* The stop order is the boot order reversed: a service comes after the    *)
(* services that require it, and what is not in the graph comes last.      *)
(* While a requirement is missing no graph can be built: the one in use is *)
(* older and may have fewer edges.                                         *)
(***************************************************************************)
GraphIsCurrent == \A n \in known : Requires[n] \subseteq known

NextToStop(c) ==
    /\ c \in snapshot
    /\ IF c[1] \in known
       THEN \A d \in snapshot :
              GraphIsCurrent /\ d[1] \in known => c[1] \notin Requires[d[1]]
       ELSE \A d \in snapshot : d[1] \notin known

StopSignal ==
    /\ mpc = "stopSignal"
    /\ \E c \in snapshot :
         /\ NextToStop(c)
         /\ svc' = MarkStopping(c[1])
         /\ IF proc[c[2]] = "reaped" THEN UNCHANGED flagVars
                                     ELSE TermGroup(c[2])
         /\ snapshot' = snapshot \ {c}
    /\ UNCHANGED <<kernelVars, known, dagHeld, children, mpc, reaped, cur,
                   halting, incoming, tasks, disk>>

StopSignalled ==
    /\ mpc = "stopSignal"
    /\ snapshot = {}
    /\ Goto("drain")
    /\ UNCHANGED <<kernelVars, dagVars, children, flagVars, mainLocals, tasks,
                   disk>>

\* For five seconds, process_reaped_children every 50 ms.
\* Mutant: the drain waits for every child instead of for a deadline.
DrainAll ==
    /\ mpc = "drain"
    /\ \A c \in children : ~Alive(c[2])
    /\ Goto("killSnapshot")
    /\ UNCHANGED <<kernelVars, dagVars, children, flagVars, mainLocals, tasks,
                   disk>>

DrainDeadline ==
    /\ mpc = "drain"
    /\ Goto("killSnapshot")
    /\ UNCHANGED <<kernelVars, dagVars, children, flagVars, mainLocals, tasks,
                   disk>>

\* Mutant: nothing is killed after the drain.
KillNobody ==
    /\ mpc = "killSnapshot"
    /\ Goto("killEach")
    /\ UNCHANGED <<kernelVars, dagVars, children, flagVars, mainLocals, tasks,
                   disk>>

KillSnapshot ==
    /\ mpc = "killSnapshot"
    /\ snapshot' = children
    /\ Goto("killEach")
    /\ UNCHANGED <<kernelVars, dagVars, children, flagVars, reaped, cur,
                   halting, incoming, tasks, disk>>

KillEach ==
    /\ mpc = "killEach"
    /\ \E c \in snapshot :
         /\ IF Alive(c[2]) THEN KillNow(c[2]) ELSE UNCHANGED kernelVars
         /\ svc' = MarkStopped(c[1])
         /\ snapshot' = snapshot \ {c}
    /\ UNCHANGED <<known, dagHeld, children, flagVars, mpc, reaped, cur,
                   halting, incoming, tasks, disk>>

\* sync, unmount and reboot(REBOOT_CMD): nothing runs after it.
Reboot ==
    /\ mpc = "killEach"
    /\ snapshot = {}
    /\ Goto("halted")
    /\ UNCHANGED <<kernelVars, dagVars, children, flagVars, mainLocals, tasks,
                   disk>>

-----------------------------------------------------------------------------
ProcessReapedChildren ==
    \/ ReapCheck \/ ReapSnapshot \/ ReapOne \/ ReapDone
    \/ HandleExited \/ HandleFailed \/ HandleUntrack \/ MaybeRestart
    \/ HandleDone

ReloadServices ==
    \/ ReloadCheck \/ ReloadRemove \/ ReloadTerm \/ ReloadWait
    \/ ReloadUntrack \/ ReloadFinish

RestartTasks ==
    \/ \E n \in Service : TaskWake(n)
    \/ TaskFork \/ TaskPush \/ TaskMark

ShutdownGraceful ==
    \/ ShutdownCheck \/ StopBegin \/ StopSnapshot \/ StopSignal
    \/ StopSignalled \/ DrainDeadline \/ KillSnapshot \/ KillEach
    \/ Reboot

MainNext ==
    \/ ProcessReapedChildren \/ ResetCounters \/ ReloadServices
    \/ RestartTasks \/ ShutdownGraceful
=============================================================================
