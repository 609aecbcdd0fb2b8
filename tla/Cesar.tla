------------------------------- MODULE Cesar -------------------------------
(***************************************************************************)
(* Cesar as PID 1: the main thread (Supervisor), the control server and    *)
(* its clients (ControlServer), the kernel, the signals PID 1 receives and *)
(* the administrator who edits the service files, in any interleaving.     *)
(***************************************************************************)
EXTENDS Supervisor, ControlServer, FiniteSets, Functions

CONSTANTS
    BootOutcome,    \* bound: the sets of services boot may leave running
    Reloadable,     \* bound: the services whose files come and go
    Signals         \* the signals PID 1 receives: SIGHUP, SIGTERM

ASSUME BootOutcomeAssumption == BootOutcome \subseteq SUBSET Service
ASSUME ReloadableAssumption == Reloadable \subseteq Service
ASSUME SignalsAssumption == Signals \subseteq {"SIGHUP", "SIGTERM"}

vars == <<kernelVars, dagVars, children, flagVars, mainVars, controlVars>>

-----------------------------------------------------------------------------
(***************************************************************************)
(* The state boot_sequence_silent leaves behind when the loop begins.  The *)
(* services that were started are Running and tracked.  The others failed  *)
(* to start or were skipped, unless nothing was started at all (a graph    *)
(* that does not build): then they are as they were loaded.                *)
(***************************************************************************)
AfterBoot(up, pidOf) ==
    /\ proc = [p \in Pid |->
                IF \E n \in up : pidOf[n] = p THEN "running" ELSE "unused"]
    /\ forkedFor = [p \in Pid |-> {n \in up : pidOf[n] = p}]
    /\ svc = [n \in Service |->
                IF n \in up
                THEN [FromConfig EXCEPT !.state = "Running", !.pid = pidOf[n]]
                ELSE IF up = {} THEN FromConfig
                                ELSE [FromConfig EXCEPT !.state = "Failed"]]
    /\ children = {<<n, pidOf[n]>> : n \in up}

Init ==
    /\ \E up \in BootOutcome :
         \E pidOf \in Injection(up, {p \in Pid : p <= Cardinality(up)}) :
            AfterBoot(up, pidOf)
    /\ sigchld = FALSE
    /\ known = Service
    /\ dagHeld = FALSE
    /\ reapNeeded = FALSE
    /\ reloadNeeded = FALSE
    /\ shutdownRequested = FALSE
    /\ rebootCmd = "poweroff"
    /\ mpc = "await"
    /\ snapshot = {}
    /\ reaped = {}
    /\ cur = Nothing
    /\ tasks = [n \in Service |-> 0]
    /\ halting = FALSE
    /\ disk = Service
    /\ incoming = {}
    /\ listening \in BOOLEAN
    /\ conn = [w \in Worker |-> Closed]

-----------------------------------------------------------------------------
(***************************************************************************)
(* Signal handlers: each only sets its flag.                               *)
(***************************************************************************)
HandleSigchld ==
    /\ sigchld
    /\ sigchld' = FALSE
    /\ reapNeeded' = TRUE
    /\ UNCHANGED <<proc, forkedFor, dagVars, children, reloadNeeded,
                   shutdownRequested, rebootCmd, mainVars, controlVars>>

HandleSighup ==
    /\ "SIGHUP" \in Signals
    /\ reloadNeeded' = TRUE
    /\ UNCHANGED <<kernelVars, dagVars, children, reapNeeded,
                   shutdownRequested, rebootCmd, mainVars, controlVars>>

HandleSigterm ==
    /\ "SIGTERM" \in Signals
    /\ shutdownRequested' = TRUE
    /\ UNCHANGED <<kernelVars, dagVars, children, reapNeeded, reloadNeeded,
                   rebootCmd, mainVars, controlVars>>

\* The administrator removes the file of a service or puts it back.
EditFiles ==
    /\ \E n \in Reloadable :
         disk' = IF n \in disk THEN disk \ {n} ELSE disk \union {n}
    /\ UNCHANGED <<kernelVars, dagVars, children, flagVars, mpc, mainLocals,
                   tasks, controlVars>>

Children ==
    /\ \E p \in Pid : EnterSession(p) \/ Exit(p)
    /\ UNCHANGED <<dagVars, children, flagVars, mainVars, controlVars>>

Main == MainNext /\ UNCHANGED controlVars

Clients ==
    /\ \E w \in Worker : Accept(w) \/ ReadRequest(w)
    /\ UNCHANGED mainVars

Server(w) == Serve(w) /\ UNCHANGED mainVars

On ==
    \/ Children
    \/ HandleSigchld \/ HandleSighup \/ HandleSigterm
    \/ EditFiles
    \/ Main
    \/ Clients
    \/ \E w \in Worker : Server(w)

\* After reboot(2) nothing runs any more.
Off == mpc = "halted" /\ UNCHANGED vars

Next == (mpc # "halted" /\ On) \/ Off

Spec == Init /\ [][Next]_vars

(***************************************************************************)
(* Fairness.  The main loop keeps running, its timers fire and its drain   *)
(* ends after five seconds; threads are scheduled, and since the main      *)
(* thread sleeps at least 100 ms between two reloads, a thread waiting for *)
(* the dag lock gets it; a forked child reaches setsid(); a pending        *)
(* SIGCHLD is delivered.  No process has to die and no client to ask.      *)
(***************************************************************************)
Fairness ==
    /\ WF_vars(mpc # "halted" /\ Main)
    /\ \A n \in Service : SF_vars(mpc # "halted" /\ TaskWake(n) /\ Main)
    /\ SF_vars(mpc # "halted" /\ DrainDeadline /\ Main)
    /\ \A w \in Worker : SF_vars(mpc # "halted" /\ Server(w))
    /\ \A p \in Pid : WF_vars(mpc # "halted" /\ EnterSession(p) /\ Children)
    /\ WF_vars(mpc # "halted" /\ HandleSigchld)

FairSpec == Spec /\ Fairness

-----------------------------------------------------------------------------
(***************************************************************************)
(* Invariants                                                              *)
(***************************************************************************)
\* Every variable has its type; a service that is not in the table has no
\* record (svc then holds that of a fresh one), and the dag lock is held over
\* several steps by a reload only.
TypeOK ==
    /\ KernelTypeOK /\ TableTypeOK /\ MainTypeOK /\ ControlTypeOK
    /\ \A n \in Service \ known : svc[n] = FromConfig
    /\ dagHeld <=>
         mpc \in {"reloadNext", "reloadTerm", "reloadWait", "reloadUntrack"}

\* process_reaped_children returns at once unless REAP_NEEDED is set, and
\* any number of deaths make one SIGCHLD.  Still no zombie is forgotten: as
\* long as one is left, a signal is pending, the flag is set, or the main
\* thread is between the swap of the flag and the end of its waitpid loop.
NoLostReap ==
    (\E p \in Pid : Zombie(p)) =>
        sigchld \/ reapNeeded \/ mpc \in {"snapshot", "waitpid"}

\* Nobody confuses two services: a pid that the table, RUNNING_CHILDREN or a
\* copy of it has for a service, and the one a thread holds between its steps,
\* was forked for that very service; and a Running service has a pid.
IsOf(p, n) == p \in Pid /\ forkedFor[p] = {n}
TableOwned ==
    \A n \in Service :
        /\ svc[n].state = "Running" => svc[n].pid # NoPid
        /\ svc[n].pid # NoPid => IsOf(svc[n].pid, n)
ChildrenOwned == \A c \in children \union snapshot : IsOf(c[2], c[1])
MainHoldsPid ==
    mpc \in {"reloadTerm", "reloadWait", "reloadUntrack", "taskPush", "taskMark"}
MainOwned == MainHoldsPid => \A r \in cur : IsOf(r.pid, r.name)
HoldsPid(w) ==
    conn[w].pc \in {"startMark", "startPush", "stopTerm", "stopWait",
                    "stopUntrack", "stopMark"}
ConnectionOwned(w) ==
    HoldsPid(w) => \E n \in conn[w].name : IsOf(conn[w].pid, n)
ConnectionsOwned == \A w \in Worker : ConnectionOwned(w)
PidIsItsOwn ==
    TableOwned /\ ChildrenOwned /\ MainOwned /\ ConnectionsOwned

\* However many clients start services that are not restarted automatically, PID 1
\* knows the pid of every process it has not waited for: it is in the record of
\* its service, or the connection that forked it is about to enter it there.  The
\* entry in RUNNING_CHILDREN may be gone meanwhile, with the retain for a
\* predecessor, so that LiveIsTracked does not hold then.
Unwaited(n) == {p \in Pid : IsOf(p, n) /\ proc[p] # "reaped"}
EveryPidIsKnown ==
    \A n \in Service : \A p \in Unwaited(n) :
        \/ svc[n].pid = p
        \/ \E w \in Worker : At(w, "startMark") /\ conn[w].pid = p

\* Whoever goes on after terminate_group succeeded, the Stop of a client or a
\* reload, does so with the process dead.
TerminatedIsDead ==
    /\ \A w \in Worker :
         At(w, "stopUntrack") \/ At(w, "stopMark") => ~Alive(conn[w].pid)
    /\ mpc = "reloadUntrack" => \A r \in cur : ~Alive(r.pid)

\* No process of a service is ever forked before one of each service it
\* requires: the check of the dependencies is of states that their processes may
\* have left meanwhile, and the restart of a service does not check at all.
DependenciesFirst ==
    \A p \in Pid : \A n \in forkedFor[p] : \A d \in Requires[n] :
        \E q \in Pid : forkedFor[q] = {d}

\* At most one process of a service is alive.
AliveInstances(n) == {p \in Pid : Alive(p) /\ forkedFor[p] = {n}}
OneInstance == \A n \in Service : Cardinality(AliveInstances(n)) <= 1

\* "Reserve the slot inside the critical section so two concurrent Starts
\* cannot both pass the state check": at most one connection is between the
\* check of Start and its mark_running or mark_failed.
Reserved(w, n) ==
    /\ conn[w].name = {n}
    /\ conn[w].pc \in {"startFork", "startMark", "startFailed"}
OneStarter ==
    \A n \in Service : Cardinality({w \in Worker : Reserved(w, n)}) <= 1

\* PID 1 knows every process of a service that is alive: it is in
\* RUNNING_CHILDREN, or the thread that forked it is about to enter it.
InTransit(p) ==
    \/ mpc = "taskPush" /\ \E r \in cur : r.pid = p
    \/ \E w \in Worker :
         conn[w].pc \in {"startMark", "startPush"} /\ conn[w].pid = p
LiveIsTracked ==
    \A p \in Pid : Alive(p) => InTransit(p) \/ \E c \in children : c[2] = p

\* When shutdown_graceful reaches reboot(2), no service is alive.
HaltLeavesNothingAlive == mpc = "halted" => \A p \in Pid : ~Alive(p)

-----------------------------------------------------------------------------
(***************************************************************************)
(* Liveness, and the contract of an init process                           *)
(***************************************************************************)
Stage(p) ==
    CASE proc[p] = "unused" -> "unborn"
      [] Alive(p) -> "live"
      [] Zombie(p) -> "dead"
      [] OTHER -> "collected"

Contract == INSTANCE ChildContract WITH
    Child <- Pid,
    stage <- [p \in Pid |-> Stage(p)],
    down <- mpc = "halted"

\* Every child that dies is waited for exactly once, and eventually.
ImplementsContract == Contract!Spec

\* Every request that was read gets its answer: neither a process that
\* ignores SIGTERM nor a reload that holds the dag lock blocks it for ever.
Answered ==
    \A w \in Worker :
        conn[w].pc \notin {"closed", "reading"} ~>
            (At(w, "closed") \/ mpc = "halted")

\* A shutdown that was requested, by a client or SIGTERM, takes place.
ShutdownCompletes == shutdownRequested ~> mpc = "halted"

\* A service whose process crashed does not stay Running with its pid.
CrashReported ==
    \A n \in Service, p \in Pid :
        (svc[n].pid = p /\ proc[p] = "crashed") ~> (svc[n].pid # p \/ halting)

-----------------------------------------------------------------------------
(***************************************************************************)
(* What comments say, and the code does not do                             *)
(***************************************************************************)
\* "stop running ones first so no orphaned child keeps running untracked":
\* a service that a reload removed has no process.
RemovedIsStopped == \A p \in Pid : Alive(p) => forkedFor[p] \subseteq known
=============================================================================
