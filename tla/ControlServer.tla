--------------------------- MODULE ControlServer ---------------------------
(***************************************************************************)
(* The control socket of PID 1: the accept loop, and a thread per          *)
(* connection that reads one request and executes it                       *)
(* (execute_control_action).  List, Status and Ping change no state.       *)
(***************************************************************************)
EXTENDS ServiceTable

CONSTANTS
    Worker,     \* bound: the connections served at a time
    Operation   \* what the clients ask for, a subset of AllOperations

AllOperations == {"Start", "Stop", "Restart", "Shutdown", "Reboot"}

ASSUME OperationAssumption == Operation \subseteq AllOperations

VARIABLES
    listening,  \* the accept loop runs
    conn        \* the connection threads

controlVars == <<listening, conn>>

ConnPC ==
    {"closed", "reading", "startReserve", "startFork", "startMark",
     "startPush", "startFailed", "stopFind", "stopTerm", "stopWait",
     "stopUntrack", "stopMark", "rebootCmd", "requestShutdown"}

\* op and name: the request in hand, and the service it names, if it does;
\* pid: the process forked or being stopped.
Connection ==
    [pc : ConnPC, op : AllOperations \union {"-"}, name : SUBSET Service,
     pid : Pid \union {NoPid}]

Closed == [pc |-> "closed", op |-> "-", name |-> {}, pid |-> NoPid]

ControlTypeOK ==
    /\ listening \in BOOLEAN
    /\ conn \in [Worker -> Connection]
    /\ \A w \in Worker : \A m, n \in conn[w].name : m = n

At(w, label) == conn[w].pc = label
To(w, label) == conn' = [conn EXCEPT ![w].pc = label]
ToWith(w, label, p) == conn' = [conn EXCEPT ![w].pc = label, ![w].pid = p]
\* The reply is written and the thread ends.
Reply(w) == conn' = [conn EXCEPT ![w] = Closed]

-----------------------------------------------------------------------------
\* The accept loop looks at the flag only after a connection came in.
Accept(w) ==
    /\ listening
    /\ At(w, "closed")
    /\ IF shutdownRequested
       THEN listening' = FALSE /\ UNCHANGED conn
       ELSE To(w, "reading") /\ UNCHANGED listening
    /\ UNCHANGED <<kernelVars, dagVars, children, flagVars>>

\* The server does not limit the time a client takes to send its line, nor
\* looks at the flag again.
FirstStep(op) ==
    CASE op = "Start" -> "startReserve"
      [] op \in {"Stop", "Restart"} -> "stopFind"
      [] OTHER -> "rebootCmd"

\* An empty or unknown request, and one that needs root and does not come from
\* it, ends the connection.
ReadRequest(w) ==
    /\ At(w, "reading")
    /\ \/ \E op \in Operation, n \in Service :
            conn' = [conn EXCEPT ![w] =
                       [pc |-> FirstStep(op), op |-> op, pid |-> NoPid,
                        name |-> IF op \in {"Shutdown", "Reboot"} THEN {}
                                                                  ELSE {n}]]
       \/ Reply(w)
    /\ UNCHANGED <<kernelVars, dagVars, children, flagVars, listening>>

-----------------------------------------------------------------------------
(***************************************************************************)
(* Start                                                                   *)
(***************************************************************************)
\* Mutant: the reservation of another Start is not seen.
MayStartAgain(n) ==
    /\ n \in known
    /\ svc[n].state # "Running"
    /\ Requires[n] = {} \/ AllDepsSatisfied(n)
MayStart(n) ==
    /\ n \in known
    /\ svc[n].state \notin {"Running", "Starting"}
    /\ Requires[n] = {} \/ AllDepsSatisfied(n)

\* Check and reservation are one critical section of the dag lock.
StartReserve(w) ==
    /\ At(w, "startReserve")
    /\ ~dagHeld
    /\ \E n \in conn[w].name :
         IF MayStart(n)
         THEN svc' = MarkStarting(n) /\ To(w, "startFork")
         ELSE UNCHANGED svc /\ Reply(w)
    /\ UNCHANGED <<kernelVars, known, dagHeld, children, flagVars, listening>>

\* Mutant: a failure after the fork is answered as one of the fork.
StartForkLost(w) ==
    /\ At(w, "startFork")
    /\ \/ \E n \in conn[w].name, p \in Pid :
            /\ Fork(n, p)
            /\ \/ ToWith(w, "startMark", p)
               \/ To(w, "startFailed")
       \/ To(w, "startFailed") /\ UNCHANGED kernelVars
    /\ UNCHANGED <<dagVars, children, flagVars, listening>>

StartFork(w) ==
    /\ At(w, "startFork")
    /\ \/ \E n \in conn[w].name, p \in Pid :
            Fork(n, p) /\ ToWith(w, "startMark", p)
       \/ To(w, "startFailed") /\ UNCHANGED kernelVars
    /\ UNCHANGED <<dagVars, children, flagVars, listening>>

StartMark(w) ==
    /\ At(w, "startMark")
    /\ ~dagHeld
    /\ \E n \in conn[w].name : svc' = MarkRunning(n, conn[w].pid)
    /\ To(w, "startPush")
    /\ UNCHANGED <<kernelVars, known, dagHeld, children, flagVars, listening>>

StartPush(w) ==
    /\ At(w, "startPush")
    /\ \E n \in conn[w].name :
         children' = children \union {<<n, conn[w].pid>>}
    /\ Reply(w)
    /\ UNCHANGED <<kernelVars, dagVars, flagVars, listening>>

StartFailed(w) ==
    /\ At(w, "startFailed")
    /\ ~dagHeld
    /\ \E n \in conn[w].name : svc' = MarkFailed(n)
    /\ Reply(w)
    /\ UNCHANGED <<kernelVars, known, dagHeld, children, flagVars, listening>>

-----------------------------------------------------------------------------
(***************************************************************************)
(* Stop, also the first half of Restart.  Restart goes on to Start when    *)
(* the service was stopped or not running, and not after another error.    *)
(***************************************************************************)
StopFind(w) ==
    /\ At(w, "stopFind")
    /\ LET entries == {c \in children : c[1] \in conn[w].name}
       IN  IF entries # {}
           THEN \E c \in entries : ToWith(w, "stopTerm", c[2])
           ELSE IF conn[w].op = "Restart" THEN To(w, "startReserve")
                                          ELSE Reply(w)
    /\ UNCHANGED <<kernelVars, dagVars, children, flagVars, listening>>

\* terminate_group(pid, 10 s): getpgid fails for a pid already waited for.
StopTerm(w) ==
    /\ At(w, "stopTerm")
    /\ IF proc[conn[w].pid] = "reaped"
       THEN UNCHANGED flagVars /\ Reply(w)
       ELSE TermGroup(conn[w].pid) /\ To(w, "stopWait")
    /\ UNCHANGED <<kernelVars, dagVars, children, listening>>

\* wait_for_death, and SIGKILL when the grace period is over.  A process
\* that outlives SIGKILL by two seconds is stuck in the kernel: not modelled.
\* Mutant: the end of the grace period counts as death.
StopWaitTimeout(w) ==
    /\ At(w, "stopWait")
    /\ To(w, "stopUntrack")
    /\ UNCHANGED <<kernelVars, dagVars, children, flagVars, listening>>

StopWait(w) ==
    /\ At(w, "stopWait")
    /\ IF Alive(conn[w].pid)
       THEN KillNow(conn[w].pid) /\ UNCHANGED conn
       ELSE UNCHANGED kernelVars /\ To(w, "stopUntrack")
    /\ UNCHANGED <<dagVars, children, flagVars, listening>>

StopUntrack(w) ==
    /\ At(w, "stopUntrack")
    /\ \E n \in conn[w].name : children' = Retained(n)
    /\ To(w, "stopMark")
    /\ UNCHANGED <<kernelVars, dagVars, flagVars, listening>>

StopMark(w) ==
    /\ At(w, "stopMark")
    /\ ~dagHeld
    /\ \E n \in conn[w].name : svc' = MarkStopped(n)
    /\ IF conn[w].op = "Restart" THEN ToWith(w, "startReserve", NoPid)
                                 ELSE Reply(w)
    /\ UNCHANGED <<kernelVars, known, dagHeld, children, flagVars, listening>>

-----------------------------------------------------------------------------
(***************************************************************************)
(* Shutdown, Poweroff (the same two stores) and Reboot                     *)
(***************************************************************************)
StoreRebootCmd(w) ==
    /\ At(w, "rebootCmd")
    /\ rebootCmd' = IF conn[w].op = "Reboot" THEN "autoboot" ELSE "poweroff"
    /\ To(w, "requestShutdown")
    /\ UNCHANGED <<kernelVars, dagVars, children, reapNeeded, reloadNeeded,
                   shutdownRequested, listening>>

RequestShutdown(w) ==
    /\ At(w, "requestShutdown")
    /\ shutdownRequested' = TRUE
    /\ Reply(w)
    /\ UNCHANGED <<kernelVars, dagVars, children, reapNeeded, reloadNeeded,
                   rebootCmd, listening>>

-----------------------------------------------------------------------------
Serve(w) ==
    \/ StartReserve(w) \/ StartFork(w) \/ StartMark(w) \/ StartPush(w)
    \/ StartFailed(w)
    \/ StopFind(w) \/ StopTerm(w) \/ StopWait(w) \/ StopUntrack(w)
    \/ StopMark(w)
    \/ StoreRebootCmd(w) \/ RequestShutdown(w)
=============================================================================
