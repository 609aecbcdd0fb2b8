------------------------------- MODULE Kernel -------------------------------
(***************************************************************************)
(* The part of the kernel PID 1 relies on: the process table, the zombie   *)
(* that a dead child stays until it is waited for, and the one pending bit *)
(* of SIGCHLD, which coalesces any number of deaths.                       *)
(*                                                                         *)
(* A pid is used once (MaxPid bounds the forks of a behaviour): the kernel *)
(* hands out pids in increasing order and wraps only after many thousands. *)
(***************************************************************************)
EXTENDS Naturals

CONSTANTS
    Service,    \* the names of the services
    MaxPid,     \* bound: the number of forks of a behaviour, boot included
    SlowChild   \* bound: whether a child can be seen before its setsid()

ASSUME MaxPidAssumption == MaxPid \in Nat
ASSUME SlowChildAssumption == SlowChild \in BOOLEAN

Pid == 1..MaxPid
NoPid == 0

VARIABLES
    proc,       \* the state of each pid
    forkedFor,  \* the service a pid was forked for, {} before the fork
    sigchld     \* TRUE while a SIGCHLD is pending and not yet handled

kernelVars == <<proc, forkedFor, sigchld>>

(***************************************************************************)
(* "forked"  : between fork() and setsid(): still in PID 1's process group *)
(* "running" : leads its own session and group; execvp may still fail      *)
(* "exited"  : a zombie with exit code 0                                   *)
(* "crashed" : a zombie with another code (127 for a failed execvp) or a   *)
(*             signal: every caller treats the two alike                   *)
(* "reaped"  : waited for, the pid no longer exists                        *)
(***************************************************************************)
ProcState == {"unused", "forked", "running", "exited", "crashed", "reaped"}

KernelTypeOK ==
    /\ proc \in [Pid -> ProcState]
    /\ forkedFor \in [Pid -> SUBSET Service]
    /\ sigchld \in BOOLEAN
    /\ \A p \in Pid : proc[p] = "unused" <=> forkedFor[p] = {}

\* process::check_process: a zombie answers kill(pid, 0) but counts as dead.
Alive(p) == proc[p] \in {"forked", "running"}
Zombie(p) == proc[p] \in {"exited", "crashed"}

\* The parent's side of spawn_service_env when fork() succeeds.  Every error
\* of spawn_service_env comes before or from fork(): it creates no process.
Fork(n, p) ==
    /\ proc[p] = "unused"
    /\ \A q \in Pid : q < p => proc[q] # "unused"
    /\ proc' = [proc EXCEPT ![p] = IF SlowChild THEN "forked" ELSE "running"]
    /\ forkedFor' = [forkedFor EXCEPT ![p] = {n}]
    /\ UNCHANGED sigchld

\* The child's side: setsid() and setpgid(), then execvp.
EnterSession(p) ==
    /\ proc[p] = "forked"
    /\ proc' = [proc EXCEPT ![p] = "running"]
    /\ UNCHANGED <<forkedFor, sigchld>>

\* A child ends, of itself, by _exit(127), or by a signal it does not handle.
Exit(p) ==
    /\ proc[p] = "running"
    /\ \E how \in {"exited", "crashed"} : proc' = [proc EXCEPT ![p] = how]
    /\ sigchld' = TRUE
    /\ UNCHANGED forkedFor

\* kill_service_group(p, SIGKILL).  A child that has not reached setsid() is in
\* PID 1's group: all of its like die, or everyone but PID 1 if that group is
\* 1, since kill(-1) addresses all.  PID 1 itself is immune.
KillNow(p) ==
    /\ Alive(p)
    /\ \E victims \in
          IF proc[p] = "running" THEN {{p}}
          ELSE {{q \in Pid : proc[q] = "forked"}, {q \in Pid : Alive(q)}} :
         proc' = [q \in Pid |-> IF q \in victims THEN "crashed" ELSE proc[q]]
    /\ sigchld' = TRUE
    /\ UNCHANGED forkedFor

\* One successful waitpid(-1, WNOHANG).
WaitPid(p) ==
    /\ Zombie(p)
    /\ proc' = [proc EXCEPT ![p] = "reaped"]
    /\ UNCHANGED <<forkedFor, sigchld>>
=============================================================================
