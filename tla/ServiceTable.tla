---------------------------- MODULE ServiceTable ----------------------------
(***************************************************************************)
(* The memory the threads of PID 1 share: the service table (CESAR_DAG),   *)
(* the list of tracked children (RUNNING_CHILDREN) and the atomic flags.   *)
(*                                                                         *)
(* Each mutex protects single critical sections, which are single steps of *)
(* the model, with one exception: reload_services keeps the dag lock while *)
(* it waits for processes to die.  dagHeld is TRUE meanwhile.              *)
(***************************************************************************)
EXTENDS Kernel

CONSTANTS
    Requires,       \* Requires[n]: the services n requires
    Policy          \* Policy[n]: the restart policy of n

ASSUME RequiresAssumption == Requires \in [Service -> SUBSET Service]
ASSUME PolicyAssumption ==
    Policy \in [Service -> {"Never", "OnFailure", "Always"}]

VARIABLES
    known,              \* the names in dag.services
    svc,                \* the Service records of the dag
    children,           \* RUNNING_CHILDREN
    dagHeld,            \* the dag lock is held across steps, by a reload
    reapNeeded,         \* REAP_NEEDED
    reloadNeeded,       \* RELOAD_NEEDED
    shutdownRequested,  \* SHUTDOWN_REQUESTED
    rebootCmd           \* REBOOT_CMD

dagVars == <<known, svc, dagHeld>>
flagVars == <<reapNeeded, reloadNeeded, shutdownRequested, rebootCmd>>

\* service::ServiceState; no action of PID 1 enters "Reloading".
State == {"Stopped", "Starting", "Running", "Failed", "Reloading", "Stopping"}

(***************************************************************************)
(* started_at is Some exactly when pid is Some: the two are always         *)
(* assigned together.  restarts is restart_count.                          *)
(***************************************************************************)
ServiceRecord == [state : State, pid : Pid \union {NoPid}, restarts : Nat]

\* Service::from_config
FromConfig == [state |-> "Stopped", pid |-> NoPid, restarts |-> 0]

(***************************************************************************)
(* children is the set of the (name, pid) pairs of the vector.  Its order  *)
(* tells only which of two entries of one name `find` returns; the model   *)
(* lets it return either.                                                  *)
(***************************************************************************)
TableTypeOK ==
    /\ known \subseteq Service
    /\ svc \in [Service -> ServiceRecord]
    /\ children \subseteq (Service \X Pid)
    /\ dagHeld \in BOOLEAN
    /\ reapNeeded \in BOOLEAN
    /\ reloadNeeded \in BOOLEAN
    /\ shutdownRequested \in BOOLEAN
    /\ rebootCmd \in {"poweroff", "autoboot"}

-----------------------------------------------------------------------------
\* What `services.get_mut(name)` followed by assignments leaves in the table:
\* nothing happens to a service that is not in it.
\* Mutant: the assignment enters a removed service again.
UpdatedOrInserted(n, rec) == [svc EXCEPT ![n] = rec]
Updated(n, rec) == IF n \in known THEN [svc EXCEPT ![n] = rec] ELSE svc

MarkStarting(n) == Updated(n, [svc[n] EXCEPT !.state = "Starting"])
MarkStopping(n) == Updated(n, [svc[n] EXCEPT !.state = "Stopping"])
MarkRunning(n, p) ==
    Updated(n, [svc[n] EXCEPT !.state = "Running", !.pid = p])
MarkFailed(n) ==
    Updated(n, [svc[n] EXCEPT !.state = "Failed", !.pid = NoPid])
MarkStopped(n) ==
    Updated(n, [svc[n] EXCEPT !.state = "Stopped", !.pid = NoPid])

AllDepsSatisfied(n) ==
    /\ n \in known
    /\ \A d \in Requires[n] : d \in known /\ svc[d].state = "Running"

\* get_children().retain(|(n, _)| n != name): every entry of the name goes.
Retained(n) == {c \in children : c[1] # n}

(***************************************************************************)
(* kill_service_group(p, SIGTERM) when getpgid(p) succeeds.  The receiver  *)
(* may die of it or ignore it: that is Exit(p), possible at any time.  A   *)
(* child that has not called setsid() yet is in PID 1's own group, so the  *)
(* signal goes there: PID 1's SIGTERM handler runs if that group is its    *)
(* own (pgid 0), and it is spared if kill(-1) addresses everyone else.     *)
(***************************************************************************)
TermGroup(p) ==
    /\ shutdownRequested' \in
           IF proc[p] = "forked" THEN {TRUE, shutdownRequested}
                                 ELSE {shutdownRequested}
    /\ UNCHANGED <<reapNeeded, reloadNeeded, rebootCmd>>
=============================================================================
