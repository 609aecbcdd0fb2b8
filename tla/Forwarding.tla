----------------------------- MODULE Forwarding -----------------------------
(***************************************************************************)
(* csr service start, stop, restart, list, status and csr system shutdown, *)
(* reboot, poweroff: each invocation first forwards its request to PID 1   *)
(* over the control socket (try_forward), and executes it by itself, with  *)
(* a table of its own read from disk, if it could not.  csr daemon start   *)
(* and restart never ask PID 1.  PID 1 starts the server after the boot,   *)
(* and the accept loop ends with the first connection that comes in after  *)
(* a shutdown was requested.                                               *)
(***************************************************************************)

CONSTANTS
    Invocation,     \* the csr processes
    Request         \* what they are called for, a subset of AllRequests

Forwarded == {"query", "start", "stop", "halt"}
AllRequests == Forwarded \union {"daemon"}

ASSUME RequestAssumption == Request \subseteq AllRequests

VARIABLES
    phase,      \* PID 1: boot, serving, draining (shutdown_graceful), off;
                \* cut is a reboot(2) by another process
    shutdown,   \* SHUTDOWN_REQUESTED
    accepting,  \* the accept loop: none, open, broken, removed, closed
    sockFile,   \* the file CONTROL_SOCKET exists
    request,    \* what each invocation is for
    cpc,        \* where it is
    conn,       \* its connection: none, queued, thread, ok, err, eof
    ranBy       \* history: who has acted for it, pid1 or csr

forwardVars ==
    <<phase, shutdown, accepting, sockFile, request, cpc, conn, ranBy>>
initVars == <<phase, shutdown, accepting, sockFile>>
clientVars == <<request, cpc, conn, ranBy>>

ForwardInit ==
    /\ phase = "boot" /\ shutdown = FALSE
    /\ accepting = "none" /\ sockFile = FALSE
    /\ request \in [Invocation -> Request]
    /\ cpc = [i \in Invocation |-> "idle"]
    /\ conn = [i \in Invocation |-> "none"]
    /\ ranBy = [i \in Invocation |-> {}]

Up == phase \notin {"off", "cut"}
Step(i, from, to) == cpc[i] = from /\ cpc' = [cpc EXCEPT ![i] = to]
Becomes(i, state) == conn' = [conn EXCEPT ![i] = state]
RanBy(i, who) == ranBy' = [ranBy EXCEPT ![i] = @ \union {who}]

-----------------------------------------------------------------------------
\* PID 1.  If the bind fails there is no server in this boot.
StartServer ==
    /\ phase = "boot"
    /\ phase' = "serving"
    /\ \/ accepting' = "open" /\ sockFile' = TRUE
       \/ UNCHANGED <<accepting, sockFile>>
    /\ UNCHANGED <<shutdown, clientVars>>

Sigterm ==
    /\ Up /\ ~shutdown
    /\ shutdown' = TRUE
    /\ UNCHANGED <<phase, accepting, sockFile, clientVars>>

BeginShutdown ==
    /\ phase = "serving" /\ shutdown
    /\ phase' = "draining"
    /\ UNCHANGED <<shutdown, accepting, sockFile, clientVars>>

\* The five seconds of grace, SIGKILL, reboot(2).
ShutdownEnds ==
    /\ phase = "draining"
    /\ phase' = "off"
    /\ UNCHANGED <<shutdown, accepting, sockFile, clientVars>>

\* The flag is looked at after accept: this connection is closed at once.
AcceptConn(i) ==
    /\ Up /\ accepting = "open" /\ conn[i] = "queued"
    /\ IF shutdown THEN accepting' = "broken" /\ Becomes(i, "eof")
                   ELSE Becomes(i, "thread") /\ UNCHANGED accepting
    /\ UNCHANGED <<phase, shutdown, sockFile, request, cpc, ranBy>>

RemoveSocket ==
    /\ Up /\ accepting = "broken"
    /\ accepting' = "removed" /\ sockFile' = FALSE
    /\ UNCHANGED <<phase, shutdown, clientVars>>

\* The listener goes with the closure, and the backlog with it.
DropListener ==
    /\ Up /\ accepting = "removed"
    /\ accepting' = "closed"
    /\ conn' = [i \in Invocation |-> IF conn[i] = "queued" THEN "eof" ELSE conn[i]]
    /\ UNCHANGED <<phase, shutdown, sockFile, request, cpc, ranBy>>

\* The thread of a connection executes the request or refuses it.  A stop or a
\* restart that is refused may have sent its signals.
Execute(i) ==
    /\ Up /\ conn[i] = "thread"
    /\ \/ Becomes(i, "ok") /\ RanBy(i, "pid1")
          /\ shutdown' = (shutdown \/ request[i] = "halt")
       \/ Becomes(i, "err") /\ UNCHANGED shutdown
          /\ (UNCHANGED ranBy \/ (request[i] # "halt" /\ RanBy(i, "pid1")))
    /\ UNCHANGED <<phase, accepting, sockFile, request, cpc>>

-----------------------------------------------------------------------------
\* An invocation (cli_control_action).
Call(i) ==
    /\ Up
    /\ Step(i, "idle", IF request[i] \in Forwarded THEN "connect" ELSE "offline")
    /\ UNCHANGED <<initVars, request, conn, ranBy>>

Connect(i) ==
    /\ Up
    /\ IF sockFile
       THEN Step(i, "connect", "read") /\ Becomes(i, "queued")
       ELSE Step(i, "connect", "failed") /\ UNCHANGED conn
    /\ UNCHANGED <<initVars, request, ranBy>>

\* A reply of OK ends the invocation; ERR is an error like the end of file
\* before a reply.
ReadReply(i) ==
    /\ Up
    /\ \/ conn[i] = "ok" /\ Step(i, "read", "ended")
       \/ conn[i] \in {"err", "eof"} /\ Step(i, "read", "failed")
    /\ UNCHANGED <<initVars, request, conn, ranBy>>

\* Mutant: a read without a timeout.
ReadForever(i) == FALSE /\ UNCHANGED forwardVars
\* The read timeout of 30 seconds.
ReadTimeout(i) ==
    /\ Up
    /\ conn[i] \in {"queued", "thread"} /\ Step(i, "read", "failed")
    /\ UNCHANGED <<initVars, request, conn, ranBy>>

\* Mutant: whatever fails is executed here.
AlwaysFallBack(i) ==
    /\ Up
    /\ Step(i, "failed", "offline")
    /\ UNCHANGED <<initVars, request, conn, ranBy>>

\* socket_present
TryForwardFailed(i) ==
    /\ Up
    /\ Step(i, "failed", IF sockFile THEN "ended" ELSE "offline")
    /\ UNCHANGED <<initVars, request, conn, ranBy>>

\* The table is read from disk: no service has a pid in it, so that there is
\* nothing to stop, and start and restart fork (unless something that is
\* required does not run, which is so of everything in this table).
ForkHere(i) == request[i] = "start" /\ RanBy(i, "csr") /\ UNCHANGED phase

\* daemon start and restart do not even look at what is required.
ForkDaemon(i) == request[i] = "daemon" /\ RanBy(i, "csr") /\ UNCHANGED phase

\* sync and reboot(2), which only root may call.
RebootHere(i) == request[i] = "halt" /\ RanBy(i, "csr") /\ phase' = "cut"

ExecuteOffline(i) ==
    /\ Up
    /\ Step(i, "offline", "ended")
    /\ \/ ForkHere(i) \/ ForkDaemon(i) \/ RebootHere(i)
       \/ UNCHANGED <<phase, ranBy>>
    /\ UNCHANGED <<shutdown, accepting, sockFile, request, conn>>

Client(i) ==
    \/ Connect(i) \/ ReadReply(i) \/ ReadTimeout(i) \/ TryForwardFailed(i)
    \/ ExecuteOffline(i)

Pid1 ==
    \/ StartServer \/ Sigterm \/ BeginShutdown \/ ShutdownEnds
    \/ RemoveSocket \/ DropListener
    \/ \E i \in Invocation : AcceptConn(i) \/ Execute(i)

ForwardNext == Pid1 \/ \E i \in Invocation : Call(i) \/ Client(i)

ForwardSpec == ForwardInit /\ [][ForwardNext]_forwardVars

-----------------------------------------------------------------------------
\* An invocation that has reached PID 1 is executed by PID 1 or not at all, as
\* long as nobody has asked for a shutdown: a late answer, a refusal or a lost
\* connection does not make it act by itself.
OfflineOnlyAlone ==
    \A i \in Invocation :
        "csr" \in ranBy[i] /\ conn[i] # "none" => shutdown

\* shutdown_graceful gives every service its grace: no invocation takes the
\* absence of the socket, which PID 1 itself has removed, for that of a PID 1
\* and calls reboot(2) while the grace period runs.
GraceIsKept ==
    [][phase = "draining" /\ accepting \in {"removed", "closed"}
         => phase' # "cut"]_forwardVars
=============================================================================
