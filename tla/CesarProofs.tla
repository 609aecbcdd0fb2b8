---------------------------- MODULE CesarProofs ----------------------------
(***************************************************************************)
(* Theorems of module Cesar, for any services, connections and bounds.     *)
(***************************************************************************)
EXTENDS Cesar, TLAPS

-----------------------------------------------------------------------------
(***************************************************************************)
(* The table stays well typed under the dag's mark_* operations, whether   *)
(* or not the service is in it.                                            *)
(***************************************************************************)
TableRecords ==
    /\ svc \in [Service -> ServiceRecord]
    /\ \A n \in Service \ known : svc[n] = FromConfig

\* An assignment through services.get_mut leaves a table of records, and a
\* service that is not in the table without one.
LEMMA UpdatedType ==
    ASSUME TableRecords, NEW n \in Service, NEW rec \in ServiceRecord
    PROVE  /\ Updated(n, rec) \in [Service -> ServiceRecord]
           /\ \A m \in Service \ known : Updated(n, rec)[m] = FromConfig
  BY DEF TableRecords, Updated

\* So do the mark_* operations of the dag.
LEMMA MarkType ==
    ASSUME TableRecords, NEW n \in Service, NEW p \in Pid \union {NoPid},
           NEW new, new \in {MarkStarting(n), MarkStopping(n), MarkFailed(n),
                             MarkStopped(n), MarkRunning(n, p)}
    PROVE  /\ new \in [Service -> ServiceRecord]
           /\ \A m \in Service \ known : new[m] = FromConfig
  <1>1. svc[n] \in ServiceRecord
    BY DEF TableRecords
  <1>2. /\ [svc[n] EXCEPT !.state = "Starting"] \in ServiceRecord
        /\ [svc[n] EXCEPT !.state = "Stopping"] \in ServiceRecord
        /\ [svc[n] EXCEPT !.state = "Failed", !.pid = NoPid] \in ServiceRecord
        /\ [svc[n] EXCEPT !.state = "Stopped", !.pid = NoPid] \in ServiceRecord
        /\ [svc[n] EXCEPT !.state = "Running", !.pid = p] \in ServiceRecord
    BY <1>1 DEF ServiceRecord, State
  <1>. QED
    BY <1>2, UpdatedType DEF MarkStarting, MarkStopping, MarkFailed,
       MarkStopped, MarkRunning
-----------------------------------------------------------------------------
(***************************************************************************)
(* Type correctness.                                                       *)
(***************************************************************************)
USE MaxPidAssumption DEF Pid, NoPid

\* A fork, and what happens to a process, keep the process table typed.
LEMMA ForkType ==
    ASSUME KernelTypeOK, NEW n \in Service, NEW p \in Pid, Fork(n, p)
    PROVE  KernelTypeOK'
  BY DEF KernelTypeOK, ProcState, Fork

\* So do the steps of a process and waitpid.
LEMMA ProcessType ==
    ASSUME KernelTypeOK, NEW p \in Pid,
           EnterSession(p) \/ Exit(p) \/ KillNow(p) \/ WaitPid(p)
    PROVE  KernelTypeOK'
  <1>1. CASE EnterSession(p)
    BY <1>1 DEF EnterSession, KernelTypeOK, ProcState
  <1>2. CASE Exit(p)
    BY <1>2 DEF Exit, KernelTypeOK, ProcState
  <1>3. CASE KillNow(p)
    BY <1>3 DEF KillNow, KernelTypeOK, ProcState, Alive
  <1>4. CASE WaitPid(p)
    BY <1>4 DEF WaitPid, KernelTypeOK, ProcState, Zombie
  <1>. QED
    BY <1>1, <1>2, <1>3, <1>4

\* process_reaped_children keeps every variable typed.
LEMMA ReapingType ==
    ASSUME TypeOK, ProcessReapedChildren, UNCHANGED controlVars
    PROVE  TypeOK'
  <1>. USE DEF TypeOK, TableTypeOK, MainTypeOK, ControlTypeOK, Goto, MainPC,
               kernelVars, dagVars, flagVars, mainLocals, controlVars
  <1>1. CASE ReapCheck
    BY <1>1 DEF ReapCheck, KernelTypeOK, AfterReaping
  <1>2. CASE ReapSnapshot
    BY <1>2 DEF ReapSnapshot, KernelTypeOK
  <1>3. CASE ReapOne
    <2>1. PICK p \in Pid :
            /\ WaitPid(p)
            /\ reaped' = reaped \union
                 {[name |-> c[1], pid |-> p, status |-> proc[p]] :
                      c \in {e \in snapshot : e[2] = p}}
      BY <1>3 DEF ReapOne
    <2>2. KernelTypeOK'
      BY <2>1, ProcessType
    <2>3. proc[p] \in Outcome
      BY <2>1 DEF WaitPid, Zombie, Outcome
    <2>4. reaped' \subseteq Result
      BY <2>1, <2>3 DEF Result
    <2>. QED
      BY <1>3, <2>2, <2>4 DEF ReapOne
  <1>4. CASE ReapDone
    BY <1>4 DEF ReapDone, KernelTypeOK
  <1>5. CASE HandleExited
    BY <1>5 DEF HandleExited, KernelTypeOK, Retained
  <1>6. CASE HandleFailed
    <2>1. PICK r \in reaped :
            reaped' = reaped \ {r} /\ cur' = {r} /\ svc' = MarkFailed(r.name)
      BY <1>6 DEF HandleFailed
    <2>2. r.name \in Service
      BY DEF Result
    <2>3. /\ svc' \in [Service -> ServiceRecord]
          /\ \A m \in Service \ known : svc'[m] = FromConfig
      BY <2>1, <2>2, MarkType DEF TableRecords
    <2>. QED
      BY <1>6, <2>1, <2>3 DEF HandleFailed, KernelTypeOK
  <1>7. CASE HandleUntrack
    BY <1>7 DEF HandleUntrack, KernelTypeOK, Retained
  <1>8. CASE MaybeRestart
    <2>. DEFINE counted(n) == [svc[n] EXCEPT !.restarts = @ + 1]
    <2>1. PICK r \in cur :
            \/ /\ svc' = Updated(r.name, counted(r.name))
               /\ tasks' = [tasks EXCEPT ![r.name] = @ + 1]
            \/ UNCHANGED <<svc, tasks>>
      BY <1>8 DEF MaybeRestart
    <2>2. r.name \in Service
      BY DEF Result
    <2>3. counted(r.name) \in ServiceRecord
      BY <2>2 DEF ServiceRecord
    <2>. HIDE DEF counted
    <2>. DEFINE new == Updated(r.name, counted(r.name))
    <2>4. /\ new \in [Service -> ServiceRecord]
          /\ \A m \in Service \ known : new[m] = FromConfig
      BY <2>2, <2>3, UpdatedType DEF TableRecords
    <2>. HIDE DEF new
    <2>5. /\ svc' \in [Service -> ServiceRecord]
          /\ \A m \in Service \ known : svc'[m] = FromConfig
      BY <2>1, <2>4 DEF new
    <2>6. tasks' \in [Service -> Nat]
      BY <2>1, <2>2
    <2>. QED
      BY <1>8, <2>5, <2>6 DEF MaybeRestart, KernelTypeOK, Nothing
  <1>9. CASE HandleDone
    BY <1>9 DEF HandleDone, KernelTypeOK, AfterReaping
  <1>. QED
    BY <1>1, <1>2, <1>3, <1>4, <1>5, <1>6, <1>7, <1>8, <1>9
       DEF ProcessReapedChildren

\* So do the reset of the counters and the reload.
LEMMA ReloadType ==
    ASSUME TypeOK, PidIsItsOwn, ResetCounters \/ ReloadServices,
           UNCHANGED controlVars
    PROVE  TypeOK'
  <1>. USE DEF TypeOK, TableTypeOK, MainTypeOK, ControlTypeOK, Goto, MainPC,
               kernelVars, dagVars, flagVars, mainLocals, controlVars
  <1>1. CASE ResetCounters
    <2>1. PICK stable \in SUBSET {n \in known : svc[n].state = "Running"} :
            svc' = [n \in Service |->
                      IF n \in stable THEN [svc[n] EXCEPT !.restarts = 0]
                                      ELSE svc[n]]
      BY <1>1 DEF ResetCounters
    <2>2. ASSUME NEW n \in Service
          PROVE  [svc[n] EXCEPT !.restarts = 0] \in ServiceRecord
      BY DEF ServiceRecord
    <2>3. /\ svc' \in [Service -> ServiceRecord]
          /\ \A m \in Service \ known : svc'[m] = FromConfig
      BY <2>1, <2>2
    <2>. QED
      BY <1>1, <2>3 DEF ResetCounters, KernelTypeOK
  <1>2. CASE ReloadCheck
    BY <1>2 DEF ReloadCheck, KernelTypeOK
  <1>3. CASE ReloadRemove
    <2>1. PICK n \in known \ incoming :
            IF svc[n].pid = NoPid
            THEN /\ known' = known \ {n}
                 /\ svc' = [svc EXCEPT ![n] = FromConfig]
                 /\ UNCHANGED <<cur, mpc>>
            ELSE /\ cur' = {[name |-> n, pid |-> svc[n].pid, status |-> "-"]}
                 /\ mpc' = "reloadTerm"
                 /\ UNCHANGED <<known, svc>>
      BY <1>3 DEF ReloadRemove
    <2>2. FromConfig \in ServiceRecord
      BY DEF FromConfig, ServiceRecord, State
    <2>3. [name |-> n, pid |-> svc[n].pid, status |-> "-"] \in Result
      BY DEF Result, ServiceRecord
    <2>4. CASE svc[n].pid = NoPid
      <3>1. known' = known \ {n} /\ svc' = [svc EXCEPT ![n] = FromConfig]
        BY <2>1, <2>4
      <3>2. svc' \in [Service -> ServiceRecord]
        BY <3>1, <2>2
      <3>3. \A m \in Service \ known' : svc'[m] = FromConfig
        BY <3>1
      <3>. QED
        BY <1>3, <2>1, <2>4, <3>1, <3>2, <3>3 DEF ReloadRemove, KernelTypeOK
    <2>5. CASE svc[n].pid # NoPid
      BY <1>3, <2>1, <2>3, <2>5 DEF ReloadRemove, KernelTypeOK
    <2>. QED
      BY <2>4, <2>5
  <1>4. CASE ReloadTerm
    BY <1>4 DEF ReloadTerm, TermGroup, KernelTypeOK
  <1>5. CASE ReloadWait
    <2>1. PICK r \in cur :
            IF Alive(r.pid) THEN KillNow(r.pid) /\ UNCHANGED mpc
                            ELSE UNCHANGED kernelVars /\ mpc' = "reloadUntrack"
      BY <1>5 DEF ReloadWait
    <2>2. r.pid \in Pid
      BY <1>5 DEF ReloadWait, PidIsItsOwn, MainOwned, MainHoldsPid, IsOf
    <2>3. KernelTypeOK'
      BY <2>1, <2>2, ProcessType DEF KernelTypeOK
    <2>. QED
      BY <1>5, <2>1, <2>3 DEF ReloadWait
  <1>6. CASE ReloadUntrack
    <2>1. FromConfig \in ServiceRecord
      BY DEF FromConfig, ServiceRecord, State
    <2>. QED
      BY <1>6, <2>1 DEF ReloadUntrack, Retained, Nothing, Result, KernelTypeOK
  <1>7. CASE ReloadFinish
    BY <1>7 DEF ReloadFinish, KernelTypeOK
  <1>. QED
    BY <1>1, <1>2, <1>3, <1>4, <1>5, <1>6, <1>7 DEF ReloadServices

\* So do the restart tasks.
LEMMA TasksType ==
    ASSUME TypeOK, PidIsItsOwn, RestartTasks, UNCHANGED controlVars
    PROVE  TypeOK'
  <1>. USE DEF TypeOK, TableTypeOK, MainTypeOK, ControlTypeOK, Goto, MainPC,
               kernelVars, dagVars, flagVars, mainLocals, controlVars, Nothing
  <1>1. ASSUME NEW n \in Service, TaskWake(n)
        PROVE  TypeOK'
    <2>1. [name |-> n, pid |-> NoPid, status |-> "-"] \in Result
      BY DEF Result
    <2>2. tasks' \in [Service -> Nat]
      BY <1>1 DEF TaskWake
    <2>. QED
      BY <1>1, <2>1, <2>2 DEF TaskWake, KernelTypeOK
  <1>2. CASE TaskFork
    <2>1. ASSUME NEW r \in cur, NEW p \in Pid,
                 Fork(r.name, p), cur' = {[r EXCEPT !.pid = p]},
                 mpc' = "taskPush"
          PROVE  TypeOK'
      <3>1. r.name \in Service /\ [r EXCEPT !.pid = p] \in Result
        BY DEF Result
      <3>2. KernelTypeOK'
        BY <2>1, <3>1, ForkType
      <3>. QED
        BY <1>2, <2>1, <3>1, <3>2 DEF TaskFork
    <2>2. CASE cur' = {} /\ mpc' = "await" /\ UNCHANGED kernelVars
      BY <1>2, <2>2 DEF TaskFork, KernelTypeOK
    <2>. QED
      BY <1>2, <2>1, <2>2 DEF TaskFork
  <1>3. CASE TaskPush
    <2>1. \A r \in cur : r.name \in Service /\ r.pid \in Pid
      BY <1>3 DEF TaskPush, PidIsItsOwn, MainOwned, MainHoldsPid, IsOf, Result
    <2>. QED
      BY <1>3, <2>1 DEF TaskPush, KernelTypeOK
  <1>4. CASE TaskMark
    <2>1. PICK r \in cur : svc' = MarkRunning(r.name, r.pid)
      BY <1>4 DEF TaskMark
    <2>2. r.name \in Service /\ r.pid \in Pid \union {NoPid}
      BY DEF Result
    <2>3. /\ svc' \in [Service -> ServiceRecord]
          /\ \A m \in Service \ known : svc'[m] = FromConfig
      BY <2>1, <2>2, MarkType DEF TableRecords
    <2>. QED
      BY <1>4, <2>3 DEF TaskMark, KernelTypeOK
  <1>. QED
    BY <1>1, <1>2, <1>3, <1>4 DEF RestartTasks

\* So does the shutdown.
LEMMA ShutdownType ==
    ASSUME TypeOK, PidIsItsOwn, ShutdownGraceful, UNCHANGED controlVars
    PROVE  TypeOK'
  <1>. USE DEF TypeOK, TableTypeOK, MainTypeOK, ControlTypeOK, Goto, MainPC,
               kernelVars, dagVars, flagVars, mainLocals, controlVars
  <1>1. CASE ShutdownCheck
    BY <1>1 DEF ShutdownCheck, KernelTypeOK
  <1>2. CASE StopBegin
    BY <1>2 DEF StopBegin, KernelTypeOK
  <1>3. CASE StopSnapshot
    BY <1>3 DEF StopSnapshot, KernelTypeOK
  <1>4. CASE StopSignal
    <2>1. PICK c \in snapshot :
            /\ svc' = MarkStopping(c[1])
            /\ UNCHANGED flagVars \/ TermGroup(c[2])
            /\ snapshot' = snapshot \ {c}
      BY <1>4 DEF StopSignal
    <2>2. c[1] \in Service /\ c[2] \in Pid
      OBVIOUS
    <2>3. /\ svc' \in [Service -> ServiceRecord]
          /\ \A m \in Service \ known : svc'[m] = FromConfig
      BY <2>1, <2>2, MarkType DEF TableRecords
    <2>4. /\ shutdownRequested' \in BOOLEAN
          /\ UNCHANGED <<reapNeeded, reloadNeeded, rebootCmd>>
      BY <2>1 DEF TermGroup
    <2>. QED
      BY <1>4, <2>1, <2>3, <2>4 DEF StopSignal, KernelTypeOK
  <1>5. CASE StopSignalled
    BY <1>5 DEF StopSignalled, KernelTypeOK
  <1>6. CASE DrainDeadline
    BY <1>6 DEF DrainDeadline, KernelTypeOK
  <1>7. CASE KillSnapshot
    BY <1>7 DEF KillSnapshot, KernelTypeOK
  <1>8. CASE KillEach
    <2>1. PICK c \in snapshot :
            /\ KillNow(c[2]) \/ UNCHANGED kernelVars
            /\ svc' = MarkStopped(c[1])
            /\ snapshot' = snapshot \ {c}
      BY <1>8 DEF KillEach
    <2>2. c[1] \in Service /\ c[2] \in Pid
      OBVIOUS
    <2>3. /\ svc' \in [Service -> ServiceRecord]
          /\ \A m \in Service \ known : svc'[m] = FromConfig
      BY <2>1, <2>2, MarkType DEF TableRecords
    <2>4. KernelTypeOK'
      BY <2>1, <2>2, ProcessType DEF KernelTypeOK
    <2>. QED
      BY <1>8, <2>1, <2>3, <2>4 DEF KillEach
  <1>9. CASE Reboot
    BY <1>9 DEF Reboot, KernelTypeOK
  <1>. QED
    BY <1>1, <1>2, <1>3, <1>4, <1>5, <1>6, <1>7, <1>8, <1>9
       DEF ShutdownGraceful

\* A thread that ends leaves a closed connection.
LEMMA ReplyType ==
    ASSUME ControlTypeOK, UNCHANGED listening, NEW w \in Worker, Reply(w)
    PROVE  ControlTypeOK'
  <1>1. Closed \in Connection /\ Closed.name = {}
    BY DEF Closed, Connection, ConnPC
  <1>. QED
    BY <1>1 DEF Reply, ControlTypeOK, Connection

\* A thread that goes on or replies keeps the connections typed.
LEMMA ConnectionType ==
    ASSUME ControlTypeOK, UNCHANGED listening,
           NEW w \in Worker, NEW label \in ConnPC, NEW p \in Pid \union {NoPid},
           To(w, label) \/ ToWith(w, label, p) \/ Reply(w)
    PROVE  ControlTypeOK'
  <1>. USE DEF ControlTypeOK, Connection
  <1>1. CASE To(w, label)
    BY <1>1 DEF To
  <1>2. CASE ToWith(w, label, p)
    <2>. DEFINE rec == [conn[w] EXCEPT !.pc = label, !.pid = p]
    <2>1. rec \in Connection /\ rec.name = conn[w].name
      OBVIOUS
    <2>2. conn' = [conn EXCEPT ![w] = rec]
      BY <1>2 DEF ToWith
    <2>. HIDE DEF rec
    <2>. QED
      BY <2>1, <2>2
  <1>3. CASE Reply(w)
    BY <1>3, ReplyType
  <1>. QED
    BY <1>1, <1>2, <1>3

\* So does a connection thread.
LEMMA ServerType ==
    ASSUME TypeOK, PidIsItsOwn, NEW w \in Worker, Server(w)
    PROVE  TypeOK'
  <1>. USE DEF TypeOK, TableTypeOK, kernelVars, dagVars, flagVars
  <1>. DEFINE table ==
         /\ svc' \in [Service -> ServiceRecord]
         /\ \A m \in Service \ known : svc'[m] = FromConfig
  <1>1. MainTypeOK' /\ UNCHANGED mpc
    BY DEF Server, MainTypeOK, mainVars, mainLocals
  <1>2. /\ conn[w].name \subseteq Service
        /\ conn[w].pid \in Pid \union {NoPid}
    BY DEF ControlTypeOK, Connection
  <1>3. CASE StartReserve(w)
    <2>1. PICK n \in conn[w].name :
            \/ svc' = MarkStarting(n) /\ To(w, "startFork")
            \/ UNCHANGED svc /\ Reply(w)
      BY <1>3 DEF StartReserve
    <2>2. table
      BY <1>2, <2>1, MarkType DEF TableRecords
    <2>3. ControlTypeOK'
      BY <1>3, <2>1, ConnectionType DEF StartReserve, ConnPC
    <2>. QED
      BY <1>1, <1>3, <2>2, <2>3 DEF StartReserve, KernelTypeOK
  <1>4. CASE StartFork(w)
    <2>1. KernelTypeOK'
      BY <1>2, <1>4, ForkType DEF StartFork, KernelTypeOK
    <2>2. ControlTypeOK'
      BY <1>4, ConnectionType DEF StartFork, ConnPC
    <2>. QED
      BY <1>1, <1>4, <2>1, <2>2 DEF StartFork
  <1>5. CASE StartMark(w)
    <2>1. table
      <3>1. PICK n \in conn[w].name : svc' = MarkRunning(n, conn[w].pid)
        BY <1>5 DEF StartMark
      <3>. QED
        BY <1>2, <3>1, MarkType DEF TableRecords
    <2>2. ControlTypeOK'
      BY <1>5, ConnectionType DEF StartMark, ConnPC
    <2>. QED
      BY <1>1, <1>5, <2>1, <2>2 DEF StartMark, KernelTypeOK
  <1>6. CASE StartPush(w)
    <2>1. conn[w].pid \in Pid
      BY <1>6 DEF StartPush, At, PidIsItsOwn, ConnectionsOwned, ConnectionOwned, HoldsPid, IsOf
    <2>2. ControlTypeOK'
      BY <1>6, ConnectionType DEF StartPush, ConnPC
    <2>. QED
      BY <1>1, <1>2, <1>6, <2>1, <2>2 DEF StartPush, KernelTypeOK
  <1>7. CASE StartFailed(w)
    <2>1. table
      BY <1>2, <1>7, MarkType DEF StartFailed, TableRecords
    <2>2. ControlTypeOK'
      BY <1>7, ConnectionType DEF StartFailed, ConnPC
    <2>. QED
      BY <1>1, <1>7, <2>1, <2>2 DEF StartFailed, KernelTypeOK
  <1>8. CASE StopFind(w)
    <2>1. ControlTypeOK'
      BY <1>8, ConnectionType DEF StopFind, ConnPC
    <2>. QED
      BY <1>1, <1>8, <2>1 DEF StopFind, KernelTypeOK
  <1>9. CASE StopTerm(w)
    <2>1. ControlTypeOK'
      BY <1>9, ConnectionType DEF StopTerm, ConnPC
    <2>. QED
      BY <1>1, <1>9, <2>1 DEF StopTerm, TermGroup, KernelTypeOK
  <1>10. CASE StopWait(w)
    <2>1. conn[w].pid \in Pid
      BY <1>10 DEF StopWait, At, PidIsItsOwn, ConnectionsOwned, ConnectionOwned, HoldsPid, IsOf
    <2>2. KernelTypeOK'
      BY <1>10, <2>1, ProcessType DEF StopWait, KernelTypeOK
    <2>3. ControlTypeOK'
      BY <1>10, ConnectionType DEF StopWait, ConnPC, ControlTypeOK
    <2>. QED
      BY <1>1, <1>10, <2>2, <2>3 DEF StopWait
  <1>11. CASE StopUntrack(w)
    <2>1. ControlTypeOK'
      BY <1>11, ConnectionType DEF StopUntrack, ConnPC
    <2>. QED
      BY <1>1, <1>11, <2>1 DEF StopUntrack, Retained, KernelTypeOK
  <1>12. CASE StopMark(w)
    <2>1. table
      BY <1>2, <1>12, MarkType DEF StopMark, TableRecords
    <2>2. ControlTypeOK'
      BY <1>12, ConnectionType DEF StopMark, ConnPC
    <2>. QED
      BY <1>1, <1>12, <2>1, <2>2 DEF StopMark, KernelTypeOK
  <1>13. CASE StoreRebootCmd(w)
    <2>1. ControlTypeOK'
      BY <1>13, ConnectionType DEF StoreRebootCmd, ConnPC
    <2>. QED
      BY <1>1, <1>13, <2>1 DEF StoreRebootCmd, KernelTypeOK
  <1>14. CASE RequestShutdown(w)
    <2>1. ControlTypeOK'
      BY <1>14, ConnectionType DEF RequestShutdown, ConnPC
    <2>. QED
      BY <1>1, <1>14, <2>1 DEF RequestShutdown, KernelTypeOK
  <1>. QED
    BY <1>3, <1>4, <1>5, <1>6, <1>7, <1>8, <1>9, <1>10, <1>11, <1>12, <1>13,
       <1>14
       DEF Server, Serve

\* So do the environment, the signal handlers and the accept loop.
LEMMA EnvironmentType ==
    ASSUME TypeOK,
           \/ Children \/ HandleSigchld \/ HandleSighup \/ HandleSigterm
           \/ EditFiles \/ Clients
    PROVE  TypeOK'
  <1>. USE DEF TypeOK, TableTypeOK, MainTypeOK, dagVars, flagVars, mainVars,
               mainLocals, controlVars
  <1>1. CASE Children
    <2>1. KernelTypeOK'
      BY <1>1, ProcessType DEF Children
    <2>. QED
      BY <1>1, <2>1 DEF Children, ControlTypeOK
  <1>2. CASE EditFiles
    BY <1>2, ReloadableAssumption
       DEF EditFiles, KernelTypeOK, kernelVars, ControlTypeOK
  <1>3. CASE HandleSigchld
    BY <1>3 DEF HandleSigchld, KernelTypeOK, ControlTypeOK
  <1>4. CASE HandleSighup
    BY <1>4 DEF HandleSighup, KernelTypeOK, kernelVars, ControlTypeOK
  <1>5. CASE HandleSigterm
    BY <1>5 DEF HandleSigterm, KernelTypeOK, kernelVars, ControlTypeOK
  <1>6. CASE Clients
    <2>1. PICK w \in Worker : Accept(w) \/ ReadRequest(w)
      BY <1>6 DEF Clients
    <2>2. CASE Accept(w)
      <3>1. ControlTypeOK'
        BY <2>2, ConnectionType DEF Accept, ConnPC, ControlTypeOK
      <3>. QED
        BY <1>6, <2>2, <3>1 DEF Clients, Accept, KernelTypeOK, kernelVars
    <2>3. CASE ReadRequest(w)
      <3>1. ASSUME NEW op \in Operation, NEW n \in Service,
                   conn' = [conn EXCEPT ![w] =
                     [pc |-> FirstStep(op), op |-> op, pid |-> NoPid,
                      name |-> IF op \in {"Shutdown", "Reboot"}
                               THEN {} ELSE {n}]]
            PROVE  ControlTypeOK'
        <4>1. FirstStep(op) \in ConnPC /\ op \in AllOperations
          BY OperationAssumption DEF FirstStep, ConnPC, AllOperations
        <4>. QED
          BY <2>3, <3>1, <4>1 DEF ReadRequest, ControlTypeOK, Connection
      <3>2. ASSUME Reply(w) PROVE ControlTypeOK'
        BY <2>3, <3>2, ReplyType DEF ReadRequest
      <3>3. ControlTypeOK'
        BY <2>3, <3>1, <3>2 DEF ReadRequest
      <3>. QED
        BY <1>6, <2>3, <3>3 DEF Clients, ReadRequest, KernelTypeOK, kernelVars
    <2>. QED
      BY <2>1, <2>2, <2>3
  <1>. QED
    BY <1>1, <1>2, <1>3, <1>4, <1>5, <1>6

\* Every step of the system keeps every variable typed.
LEMMA StepType ==
    ASSUME TypeOK, PidIsItsOwn, [Next]_vars
    PROVE  TypeOK'
  <1>1. CASE UNCHANGED vars
    BY <1>1 DEF TypeOK, KernelTypeOK, TableTypeOK, MainTypeOK, ControlTypeOK,
       vars, kernelVars, dagVars, flagVars, mainVars, mainLocals, controlVars
  <1>2. CASE Main
    BY <1>2, ReapingType, ReloadType, TasksType, ShutdownType
       DEF Main, MainNext
  <1>3. ASSUME NEW w \in Worker, Server(w)
        PROVE  TypeOK'
    BY <1>3, ServerType
  <1>4. CASE Children \/ HandleSigchld \/ HandleSighup \/ HandleSigterm
             \/ EditFiles \/ Clients
    BY <1>4, EnvironmentType
  <1>. QED
    BY <1>1, <1>2, <1>3, <1>4 DEF Next, On, Off
-----------------------------------------------------------------------------
(***************************************************************************)
(* A pid is its own service's.                                             *)
(***************************************************************************)
\* The service a process was forked for never changes.
Remembered ==
    \A q \in Pid : forkedFor[q] # {} => forkedFor'[q] = forkedFor[q]

\* Nothing a pid was recorded for is forgotten when forkedFor does not change,
\* or when one more process is forked.
LEMMA ForkRemembers ==
    ASSUME KernelTypeOK, NEW n \in Service, NEW p \in Pid, Fork(n, p)
    PROVE  Remembered /\ IsOf(p, n)'
  BY DEF Remembered, Fork, KernelTypeOK, IsOf

\* What is owned stays owned as long as no pid is forgotten.
LEMMA OwnedRemains ==
    ASSUME TypeOK, PidIsItsOwn, Remembered
    PROVE  /\ UNCHANGED svc => TableOwned'
           /\ \A c \in children \union snapshot : IsOf(c[2], c[1])'
           /\ UNCHANGED <<mpc, cur>> => MainOwned'
           /\ UNCHANGED conn => ConnectionsOwned'
  <1>1. \A p, n : IsOf(p, n) => IsOf(p, n)'
    BY DEF IsOf, Remembered
  <1>2. UNCHANGED svc => TableOwned'
    BY <1>1 DEF PidIsItsOwn, TableOwned
  <1>3. \A c \in children \union snapshot : IsOf(c[2], c[1])'
    BY <1>1 DEF PidIsItsOwn, ChildrenOwned
  <1>4. UNCHANGED <<mpc, cur>> => MainOwned'
    BY <1>1 DEF PidIsItsOwn, MainOwned, MainHoldsPid
  <1>5. UNCHANGED conn => ConnectionsOwned'
    BY <1>1 DEF PidIsItsOwn, ConnectionsOwned, ConnectionOwned, HoldsPid
  <1>. QED
    BY <1>2, <1>3, <1>4, <1>5

\* The dag's mark_* operations keep a table of owned pids owned.
LEMMA MarkOwned ==
    ASSUME TableRecords, TableOwned, UNCHANGED forkedFor,
           NEW n \in Service, NEW p \in Pid \union {NoPid},
           \/ svc' \in {MarkStarting(n), MarkStopping(n), MarkFailed(n),
                        MarkStopped(n)}
           \/ svc' = MarkRunning(n, p) /\ IsOf(p, n)
    PROVE  TableOwned'
  <1>. DEFINE Changed(rec) ==
         /\ rec.state = "Running" => rec.pid # NoPid
         /\ rec.pid # NoPid => IsOf(rec.pid, n)
  <1>1. ASSUME NEW rec, svc' = Updated(n, rec), Changed(rec)
        PROVE  TableOwned'
    BY <1>1 DEF TableOwned, TableRecords, Updated, IsOf
  <1>2. Changed(svc[n]) /\ svc[n] \in ServiceRecord
    BY DEF TableOwned, TableRecords
  <1>3. /\ Changed([svc[n] EXCEPT !.state = "Starting"])
        /\ Changed([svc[n] EXCEPT !.state = "Stopping"])
        /\ Changed([svc[n] EXCEPT !.state = "Failed", !.pid = NoPid])
        /\ Changed([svc[n] EXCEPT !.state = "Stopped", !.pid = NoPid])
        /\ IsOf(p, n) =>
             Changed([svc[n] EXCEPT !.state = "Running", !.pid = p])
    BY <1>2 DEF ServiceRecord, IsOf
  <1>. HIDE DEF Changed
  <1>. QED
    BY <1>1, <1>3 DEF MarkStarting, MarkStopping, MarkFailed, MarkStopped,
       MarkRunning

\* process_reaped_children confuses no two services.
LEMMA ReapingOwned ==
    ASSUME TypeOK, PidIsItsOwn, ProcessReapedChildren, UNCHANGED controlVars
    PROVE  PidIsItsOwn'
  <1>. USE DEF PidIsItsOwn, Goto, kernelVars, dagVars, flagVars, mainLocals,
               controlVars
  <1>1. Remembered /\ UNCHANGED forkedFor
    BY DEF ProcessReapedChildren, ReapCheck, ReapSnapshot, ReapOne, WaitPid,
       ReapDone, HandleExited, HandleFailed, HandleUntrack, MaybeRestart,
       HandleDone, Remembered
  <1>2. ConnectionsOwned'
    BY <1>1, OwnedRemains
  <1>3. MainOwned'
    BY DEF ProcessReapedChildren, ReapCheck, ReapSnapshot, ReapOne,
       ReapDone, HandleExited, HandleFailed, HandleUntrack, MaybeRestart,
       HandleDone, AfterReaping, MainOwned, MainHoldsPid
  <1>4. ChildrenOwned'
    BY <1>1, OwnedRemains
       DEF ProcessReapedChildren, ReapCheck, ReapSnapshot, ReapOne,
       ReapDone, HandleExited, HandleFailed, HandleUntrack, MaybeRestart,
       HandleDone, ChildrenOwned, Retained
  <1>5. TableOwned'
    <2>1. CASE HandleFailed
      <3>1. PICK r \in reaped : svc' = MarkFailed(r.name)
        BY <2>1 DEF HandleFailed
      <3>2. r.name \in Service
        BY DEF TypeOK, MainTypeOK, Result
      <3>. QED
        BY <1>1, <3>1, <3>2, MarkOwned DEF TypeOK, TableTypeOK, TableRecords
    <2>2. CASE MaybeRestart
      <3>1. \A n \in Service : /\ svc'[n].state = svc[n].state
                               /\ svc'[n].pid = svc[n].pid
        BY <2>2 DEF MaybeRestart, Updated, TypeOK, TableTypeOK, ServiceRecord
      <3>. QED
        BY <1>1, <3>1 DEF TableOwned, IsOf
    <2>3. CASE UNCHANGED svc
      BY <1>1, <2>3, OwnedRemains
    <2>. QED
      BY <2>1, <2>2, <2>3
         DEF ProcessReapedChildren, ReapCheck, ReapSnapshot, ReapOne,
         ReapDone, HandleExited, HandleUntrack, HandleDone
  <1>. QED
    BY <1>2, <1>3, <1>4, <1>5

\* So do the reset of the counters and the reload.
LEMMA ReloadOwned ==
    ASSUME TypeOK, PidIsItsOwn, ResetCounters \/ ReloadServices,
           UNCHANGED controlVars
    PROVE  PidIsItsOwn'
  <1>. USE DEF PidIsItsOwn, Goto, kernelVars, dagVars, flagVars, mainLocals,
               controlVars
  <1>1. Remembered /\ UNCHANGED forkedFor
    BY DEF ReloadServices, ResetCounters, ReloadCheck, ReloadRemove,
       ReloadTerm, ReloadWait, KillNow, ReloadUntrack, ReloadFinish, Remembered
  <1>2. ConnectionsOwned'
    BY <1>1, OwnedRemains
  <1>3. ChildrenOwned'
    BY <1>1, OwnedRemains
       DEF ReloadServices, ResetCounters, ReloadCheck, ReloadRemove,
       ReloadTerm, ReloadWait, ReloadUntrack, ReloadFinish, ChildrenOwned,
       Retained
  <1>4. MainOwned'
    <2>1. CASE ReloadRemove
      <3>1. PICK n \in known \ incoming :
              \/ UNCHANGED <<cur, mpc>>
              \/ /\ cur' = {[name |-> n, pid |-> svc[n].pid, status |-> "-"]}
                 /\ svc[n].pid # NoPid
        BY <2>1 DEF ReloadRemove
      <3>2. svc[n].pid # NoPid => IsOf(svc[n].pid, n)
        BY DEF TableOwned, TypeOK, TableTypeOK
      <3>. QED
        BY <1>1, <3>1, <3>2, OwnedRemains DEF MainOwned, IsOf
    <2>2. CASE ReloadTerm \/ ReloadWait
      BY <1>1, <2>2 DEF ReloadTerm, ReloadWait, MainOwned, MainHoldsPid, IsOf
    <2>3. CASE ResetCounters \/ ReloadCheck \/ ReloadUntrack \/ ReloadFinish
      BY <2>3 DEF ResetCounters, ReloadCheck, ReloadUntrack, ReloadFinish,
         MainOwned, MainHoldsPid
    <2>. QED
      BY <2>1, <2>2, <2>3 DEF ReloadServices
  <1>5. TableOwned'
    <2>1. CASE ResetCounters
      <3>1. \A n \in Service : /\ svc'[n].state = svc[n].state
                               /\ svc'[n].pid = svc[n].pid
        BY <2>1 DEF ResetCounters, TypeOK, TableTypeOK, ServiceRecord
      <3>. QED
        BY <1>1, <3>1 DEF TableOwned, IsOf
    <2>2. CASE \E n : svc' = [svc EXCEPT ![n] = FromConfig]
      BY <1>1, <2>2 DEF TableOwned, FromConfig, TypeOK, TableTypeOK, IsOf
    <2>3. CASE UNCHANGED svc
      BY <1>1, <2>3, OwnedRemains
    <2>. QED
      BY <2>1, <2>2, <2>3
         DEF ReloadServices, ReloadCheck, ReloadRemove, ReloadTerm,
         ReloadWait, ReloadUntrack, ReloadFinish
  <1>. QED
    BY <1>2, <1>3, <1>4, <1>5

\* So do the restart tasks.
LEMMA TasksOwned ==
    ASSUME TypeOK, PidIsItsOwn, RestartTasks, UNCHANGED controlVars
    PROVE  PidIsItsOwn'
  <1>. USE DEF PidIsItsOwn, Goto, kernelVars, dagVars, flagVars, mainLocals,
               controlVars
  <1>1. CASE \E n \in Service : TaskWake(n)
    BY <1>1, OwnedRemains
       DEF TaskWake, Remembered, ChildrenOwned, MainOwned, MainHoldsPid
  <1>2. CASE TaskFork
    <2>1. ASSUME NEW r \in cur, NEW p \in Pid, Fork(r.name, p),
                 cur' = {[r EXCEPT !.pid = p]}
          PROVE  Remembered /\ MainOwned'
      <3>1. r.name \in Service /\ [r EXCEPT !.pid = p].name = r.name
            /\ [r EXCEPT !.pid = p].pid = p
        BY DEF TypeOK, MainTypeOK, Result
      <3>. QED
        BY <2>1, <3>1, ForkRemembers DEF TypeOK, MainOwned, IsOf
    <2>2. ASSUME UNCHANGED kernelVars, mpc' = "await"
          PROVE  Remembered /\ MainOwned'
      <3>1. ~MainHoldsPid'
        BY <2>2 DEF MainHoldsPid
      <3>. QED
        BY <2>2, <3>1 DEF Remembered, MainOwned
    <2>3. Remembered /\ MainOwned'
      <3>1. \/ \E r \in cur, p \in Pid :
                 Fork(r.name, p) /\ cur' = {[r EXCEPT !.pid = p]}
            \/ UNCHANGED kernelVars /\ mpc' = "await"
        BY <1>2 DEF TaskFork
      <3>. QED
        BY <2>1, <2>2, <3>1
    <2>. QED
      BY <1>2, <2>3, OwnedRemains DEF TaskFork, ChildrenOwned
  <1>3. CASE TaskPush
    BY <1>3, OwnedRemains
       DEF TaskPush, Remembered, ChildrenOwned, MainOwned, MainHoldsPid, IsOf
  <1>4. CASE TaskMark
    <2>1. PICK r \in cur : svc' = MarkRunning(r.name, r.pid)
      BY <1>4 DEF TaskMark
    <2>2. r.name \in Service /\ IsOf(r.pid, r.name)
      BY <1>4 DEF TaskMark, MainOwned, MainHoldsPid, TypeOK, MainTypeOK, Result
    <2>3. TableOwned'
      BY <1>4, <2>1, <2>2, MarkOwned
         DEF TaskMark, TypeOK, TableTypeOK, TableRecords, IsOf
    <2>. QED
      BY <1>4, <2>3, OwnedRemains
         DEF TaskMark, Remembered, ChildrenOwned, MainOwned, MainHoldsPid
  <1>. QED
    BY <1>1, <1>2, <1>3, <1>4 DEF RestartTasks

\* So does the shutdown.
LEMMA ShutdownOwned ==
    ASSUME TypeOK, PidIsItsOwn, ShutdownGraceful, UNCHANGED controlVars
    PROVE  PidIsItsOwn'
  <1>. USE DEF PidIsItsOwn, Goto, kernelVars, dagVars, flagVars, mainLocals,
               controlVars
  <1>1. Remembered /\ UNCHANGED forkedFor
    BY DEF ShutdownGraceful, ShutdownCheck, StopBegin, StopSnapshot,
       StopSignal, StopSignalled, DrainDeadline, KillSnapshot, KillEach,
       KillNow, Reboot, Remembered
  <1>2. ConnectionsOwned'
    BY <1>1, OwnedRemains
  <1>3. ChildrenOwned'
    BY <1>1, OwnedRemains
       DEF ShutdownGraceful, ShutdownCheck, StopBegin, StopSnapshot,
       StopSignal, StopSignalled, DrainDeadline, KillSnapshot, KillEach,
       Reboot, ChildrenOwned
  <1>4. MainOwned'
    BY DEF ShutdownGraceful, ShutdownCheck, StopBegin, StopSnapshot,
       StopSignal, StopSignalled, DrainDeadline, KillSnapshot, KillEach,
       Reboot, MainOwned, MainHoldsPid
  <1>5. TableOwned'
    <2>1. CASE \E c \in snapshot : svc' \in {MarkStopping(c[1]), MarkStopped(c[1])}
      BY <1>1, <2>1, MarkOwned
         DEF TypeOK, TableTypeOK, MainTypeOK, TableRecords
    <2>2. CASE UNCHANGED svc
      BY <1>1, <2>2, OwnedRemains
    <2>. QED
      BY <2>1, <2>2
         DEF ShutdownGraceful, ShutdownCheck, StopBegin, StopSnapshot,
         StopSignal, StopSignalled, DrainDeadline, KillSnapshot, KillEach,
         Reboot
  <1>. QED
    BY <1>2, <1>3, <1>4, <1>5

\* What a thread of the control server does to its connection, when it leaves
\* the others alone and the pid it goes on with is its service's.
LEMMA OtherConnectionsOwned ==
    ASSUME TypeOK, PidIsItsOwn, Remembered, NEW w \in Worker,
           \A v \in Worker \ {w} : conn'[v] = conn[v], ConnectionOwned(w)'
    PROVE  ConnectionsOwned'
  <1>1. ASSUME NEW v \in Worker \ {w}
        PROVE  ConnectionOwned(v)'
    BY <1>1 DEF PidIsItsOwn, ConnectionsOwned, ConnectionOwned, HoldsPid, IsOf,
       Remembered
  <1>. QED
    BY <1>1 DEF ConnectionsOwned

\* So do the connection threads.
LEMMA ServerOwned ==
    ASSUME TypeOK, PidIsItsOwn, TypeOK', NEW w \in Worker, Server(w)
    PROVE  PidIsItsOwn'
  <1>. USE DEF PidIsItsOwn, kernelVars, dagVars, flagVars, mainVars, mainLocals
  <1>1. \A n \in conn[w].name : n \in Service
    BY DEF TypeOK, ControlTypeOK, Connection
  <1>2. HoldsPid(w) => \E n \in conn[w].name : IsOf(conn[w].pid, n)
    BY DEF ConnectionsOwned, ConnectionOwned
  <1>3. TableRecords
    BY DEF TypeOK, TableTypeOK, TableRecords
  <1>4. UNCHANGED <<mpc, cur, snapshot>>
    BY DEF Server
  <1>5. \A v \in Worker \ {w} : conn'[v] = conn[v]
    BY DEF Server, Serve, TypeOK, ControlTypeOK, StartReserve, StartFork,
       StartMark, StartPush, StartFailed, StopFind, StopTerm, StopWait,
       StopUntrack, StopMark, StoreRebootCmd, RequestShutdown, To, ToWith,
       Reply
  <1>6. CASE StartFork(w)
    <2>1. Remembered
      BY <1>1, <1>6, ForkRemembers DEF StartFork, TypeOK, Remembered
    <2>2. ConnectionOwned(w)'
      <3>1. CASE \E n \in conn[w].name, p \in Pid :
                   Fork(n, p) /\ ToWith(w, "startMark", p)
        <4>1. PICK n \in conn[w].name, p \in Pid :
                     Fork(n, p) /\ ToWith(w, "startMark", p)
          BY <3>1
        <4>2. IsOf(p, n)'
          BY <1>1, <4>1, ForkRemembers DEF TypeOK
        <4>3. conn'[w].name = conn[w].name /\ conn'[w].pid = p
          BY <4>1 DEF ToWith, TypeOK, ControlTypeOK, Connection
        <4>. QED
          BY <4>2, <4>3 DEF ConnectionOwned, IsOf
      <3>2. CASE To(w, "startFailed")
        BY <3>2 DEF To, ConnectionOwned, HoldsPid, TypeOK, ControlTypeOK, Connection
      <3>. QED
        BY <1>6, <3>1, <3>2 DEF StartFork
    <2>3. ConnectionsOwned'
      BY <1>5, <2>1, <2>2, OtherConnectionsOwned
    <2>. QED
      BY <1>4, <1>6, <2>1, <2>3, OwnedRemains DEF StartFork, ChildrenOwned
  <1>7. CASE ~StartFork(w)
    <2>1. Remembered /\ UNCHANGED forkedFor
      BY <1>7 DEF Server, Serve, StartReserve, StartMark, StartPush,
         StartFailed, StopFind, StopTerm, StopWait, KillNow, StopUntrack,
         StopMark, StoreRebootCmd, RequestShutdown, Remembered
    <2>2. TableOwned'
      <3>1. CASE StartMark(w)
        <4>1. PICK n \in conn[w].name : svc' = MarkRunning(n, conn[w].pid)
          BY <3>1 DEF StartMark
        <4>2. IsOf(conn[w].pid, n)
          BY <1>2, <3>1 DEF StartMark, At, HoldsPid, TypeOK, ControlTypeOK
        <4>. QED
          BY <1>1, <1>3, <2>1, <4>1, <4>2, MarkOwned DEF IsOf
      <3>2. CASE \E n \in conn[w].name :
                   svc' \in {MarkStarting(n), MarkFailed(n), MarkStopped(n)}
        BY <1>1, <1>3, <2>1, <3>2, MarkOwned
      <3>3. CASE UNCHANGED svc
        BY <2>1, <3>3, OwnedRemains
      <3>. QED
        BY <1>7, <3>1, <3>2, <3>3
           DEF Server, Serve, StartReserve, StartPush, StartFailed, StopFind,
           StopTerm, StopWait, StopUntrack, StopMark, StoreRebootCmd,
           RequestShutdown
    <2>3. ChildrenOwned'
      <3>1. CASE StartPush(w)
        <4>1. PICK n \in conn[w].name :
                children' = children \union {<<n, conn[w].pid>>}
          BY <3>1 DEF StartPush
        <4>2. IsOf(conn[w].pid, n)
          BY <1>2, <3>1 DEF StartPush, At, HoldsPid, TypeOK, ControlTypeOK
        <4>3. \A c \in {<<n, conn[w].pid>>} : IsOf(c[2], c[1])'
          BY <2>1, <4>2 DEF IsOf
        <4>. QED
          BY <1>4, <2>1, <4>1, <4>3, OwnedRemains DEF ChildrenOwned
      <3>2. CASE children' \subseteq children
        BY <1>4, <2>1, <3>2, OwnedRemains DEF ChildrenOwned
      <3>. QED
        BY <1>7, <3>1, <3>2
           DEF Server, Serve, StartReserve, StartMark, StartFailed, StopFind,
           StopTerm, StopWait, StopUntrack, StopMark, StoreRebootCmd,
           RequestShutdown, Retained
    <2>4. ConnectionOwned(w)'
      <3>. USE DEF TypeOK, ControlTypeOK, Connection
      <3>1. CASE StartMark(w) \/ StopTerm(w) \/ StopWait(w) \/ StopUntrack(w)
        <4>1. \/ /\ conn'[w].pid = conn[w].pid
                 /\ conn'[w].name = conn[w].name
              \/ conn'[w] = Closed
          BY <3>1 DEF StartMark, StopTerm, StopWait, StopUntrack, To, Reply
        <4>2. HoldsPid(w)
          BY <3>1 DEF StartMark, StopTerm, StopWait, StopUntrack, At, HoldsPid
        <4>. QED
          BY <1>2, <2>1, <4>1, <4>2
             DEF ConnectionOwned, HoldsPid, IsOf, Closed
      <3>2. CASE \E c \in children : /\ c[1] \in conn[w].name
                                     /\ ToWith(w, "stopTerm", c[2])
        <4>1. PICK c \in children : /\ c[1] \in conn[w].name
                                    /\ ToWith(w, "stopTerm", c[2])
          BY <3>2
        <4>2. conn'[w].name = conn[w].name /\ conn'[w].pid = c[2]
          BY <4>1 DEF ToWith
        <4>3. IsOf(c[2], c[1])
          BY DEF ChildrenOwned
        <4>. QED
          BY <2>1, <4>1, <4>2, <4>3 DEF ConnectionOwned, IsOf
      <3>3. CASE \/ Reply(w) \/ ToWith(w, "startReserve", NoPid)
                 \/ \E label \in {"startReserve", "startFork", "requestShutdown"} :
                      To(w, label)
        BY <3>3 DEF Reply, To, ToWith, ConnectionOwned, HoldsPid, Closed
      <3>. QED
        BY <1>7, <3>1, <3>2, <3>3
           DEF Server, Serve, StartReserve, StartPush, StartFailed, StopFind,
           StopMark, StoreRebootCmd, RequestShutdown
    <2>5. ConnectionsOwned'
      BY <1>5, <2>1, <2>4, OtherConnectionsOwned
    <2>. QED
      BY <1>4, <2>1, <2>2, <2>3, <2>5, OwnedRemains
  <1>. QED
    BY <1>6, <1>7

\* So do the environment, the signal handlers and the accept loop.
LEMMA EnvironmentOwned ==
    ASSUME TypeOK, PidIsItsOwn,
           \/ Children \/ HandleSigchld \/ HandleSighup \/ HandleSigterm
           \/ EditFiles \/ Clients
    PROVE  PidIsItsOwn'
  <1>. USE DEF PidIsItsOwn, dagVars, flagVars, mainVars, mainLocals,
               controlVars, kernelVars
  <1>1. UNCHANGED <<forkedFor, svc, children, snapshot, mpc, cur>>
    BY DEF Children, EnterSession, Exit, HandleSigchld, HandleSighup,
       HandleSigterm, EditFiles, Clients, Accept, ReadRequest
  <1>2. Remembered
    BY <1>1 DEF Remembered
  <1>3. ConnectionsOwned'
    <2>1. ASSUME NEW w \in Worker, Accept(w) \/ ReadRequest(w)
          PROVE  ConnectionsOwned'
      <3>. USE DEF TypeOK, ControlTypeOK, Connection
      <3>1. \A v \in Worker \ {w} : conn'[v] = conn[v]
        BY <2>1 DEF Accept, ReadRequest, To, Reply
      <3>2. conn'[w] = conn[w] \/ ~HoldsPid(w)'
        BY <2>1 DEF Accept, ReadRequest, To, Reply, Closed, HoldsPid, FirstStep
      <3>3. ConnectionOwned(w)'
        BY <1>1, <3>2 DEF ConnectionsOwned, ConnectionOwned, HoldsPid, IsOf
      <3>. QED
        BY <1>2, <3>1, <3>3, OtherConnectionsOwned
    <2>2. CASE UNCHANGED conn
      BY <1>2, <2>2, OwnedRemains
    <2>. QED
      BY <2>1, <2>2 DEF Children, HandleSigchld, HandleSighup, HandleSigterm,
         EditFiles, Clients
  <1>. QED
    BY <1>1, <1>2, <1>3, OwnedRemains DEF ChildrenOwned

\* Every step of the system leaves every pid to its own service.
LEMMA StepOwned ==
    ASSUME TypeOK, PidIsItsOwn, [Next]_vars
    PROVE  PidIsItsOwn'
  <1>1. CASE UNCHANGED vars
    BY <1>1 DEF PidIsItsOwn, TableOwned, ChildrenOwned, MainOwned,
       MainHoldsPid, ConnectionsOwned, ConnectionOwned, HoldsPid, IsOf, vars,
       kernelVars, dagVars, mainVars, mainLocals, controlVars
  <1>2. CASE Main
    BY <1>2, ReapingOwned, ReloadOwned, TasksOwned, ShutdownOwned
       DEF Main, MainNext
  <1>3. ASSUME NEW w \in Worker, Server(w)
        PROVE  PidIsItsOwn'
    BY <1>3, ServerOwned, ServerType
  <1>4. CASE Children \/ HandleSigchld \/ HandleSighup \/ HandleSigterm
             \/ EditFiles \/ Clients
    BY <1>4, EnvironmentOwned
  <1>. QED
    BY <1>1, <1>2, <1>3, <1>4 DEF Next, On, Off

-----------------------------------------------------------------------------
(***************************************************************************)
(* Both hold from the start, and so for ever.  Neither is inductive alone: *)
(* a thread that kills or tracks the pid it holds needs it to be a pid,    *)
(* and which process a pid is can only be said of well-typed variables.    *)
(***************************************************************************)
LEMMA InitOwned ==
    Init => TypeOK /\ PidIsItsOwn
  <1>. SUFFICES ASSUME Init PROVE TypeOK /\ PidIsItsOwn
    OBVIOUS
  <1>1. PICK up \in BootOutcome :
          \E pidOf \in Injection(up, {p \in Pid : p <= Cardinality(up)}) :
             AfterBoot(up, pidOf)
    BY DEF Init
  <1>2. PICK pidOf \in Injection(up, {p \in Pid : p <= Cardinality(up)}) :
          AfterBoot(up, pidOf)
    BY <1>1
  <1>3. /\ up \subseteq Service
        /\ pidOf \in [up -> Pid]
        /\ \A m, n \in up : pidOf[m] = pidOf[n] => m = n
    BY BootOutcomeAssumption DEF Injection, IsInjective
  <1>4. KernelTypeOK
    BY <1>2, <1>3 DEF AfterBoot, Init, KernelTypeOK, ProcState
  <1>5. \A n \in Service :
          /\ svc[n] \in ServiceRecord
          /\ n \in up => svc[n].state = "Running" /\ svc[n].pid = pidOf[n]
          /\ n \notin up => svc[n].state # "Running" /\ svc[n].pid = NoPid
    BY <1>2, <1>3 DEF AfterBoot, ServiceRecord, State, FromConfig
  <1>6. /\ svc \in [Service -> ServiceRecord]
        /\ children \subseteq (Service \X Pid)
    <2>1. DOMAIN svc = Service /\ svc = [n \in DOMAIN svc |-> svc[n]]
      BY <1>2 DEF AfterBoot
    <2>2. svc \in [Service -> ServiceRecord]
      BY <1>5, <2>1
    <2>3. children = {<<n, pidOf[n]>> : n \in up}
      BY <1>2 DEF AfterBoot
    <2>. QED
      BY <1>3, <2>2, <2>3
  <1>7. TableTypeOK /\ Service \ known = {}
    BY <1>6 DEF Init, TableTypeOK
  <1>8. MainTypeOK /\ ControlTypeOK
    BY DEF Init, MainTypeOK, MainPC, Nothing, ControlTypeOK, Connection,
       ConnPC, Closed
  <1>9. TypeOK
    BY <1>4, <1>7, <1>8 DEF TypeOK, Init
  <1>10. \A n \in up : IsOf(pidOf[n], n)
    BY <1>2, <1>3 DEF AfterBoot, IsOf
  <1>11. TableOwned
    <2>1. ASSUME NEW n \in up
          PROVE  svc[n].pid # NoPid /\ IsOf(svc[n].pid, n)
      <3>1. svc[n].pid = pidOf[n] /\ pidOf[n] \in Pid
        BY <1>3, <1>5
      <3>. QED
        BY <1>10, <3>1
    <2>. QED
      BY <1>5, <2>1 DEF TableOwned
  <1>12. ChildrenOwned
    <2>1. ASSUME NEW c \in children
          PROVE  IsOf(c[2], c[1])
      <3>1. PICK n \in up : c = <<n, pidOf[n]>>
        BY <1>2 DEF AfterBoot
      <3>2. c[1] = n /\ c[2] = pidOf[n]
        BY <3>1
      <3>. QED
        BY <1>10, <3>2
    <2>. QED
      BY <2>1 DEF Init, ChildrenOwned
  <1>13. MainOwned /\ ConnectionsOwned
    BY DEF Init, MainOwned, MainHoldsPid, ConnectionsOwned, ConnectionOwned,
       HoldsPid, Closed
  <1>. QED
    BY <1>9, <1>11, <1>12, <1>13 DEF PidIsItsOwn

\* Every variable always has its type (invariant TypeOK), whatever the
\* services, the connections and the bounds.
THEOREM TypeCorrect == Spec => []TypeOK
  <1>1. Init => TypeOK /\ PidIsItsOwn
    BY InitOwned
  <1>2. TypeOK /\ PidIsItsOwn /\ [Next]_vars => (TypeOK /\ PidIsItsOwn)'
    BY StepType, StepOwned
  <1>. QED
    BY <1>1, <1>2, PTL DEF Spec

\* A pid kept for a service is always that of a process forked for it
\* (invariant PidIsItsOwn): no interleaving of Start, Stop, Restart, reload,
\* automatic restart and shutdown makes PID 1 act on another one's process.
THEOREM PidsOwned == Spec => []PidIsItsOwn
  <1>1. Init => TypeOK /\ PidIsItsOwn
    BY InitOwned
  <1>2. TypeOK /\ PidIsItsOwn /\ [Next]_vars => (TypeOK /\ PidIsItsOwn)'
    BY StepType, StepOwned
  <1>. QED
    BY <1>1, <1>2, PTL DEF Spec

-----------------------------------------------------------------------------
(***************************************************************************)
(* The dead.                                                               *)
(***************************************************************************)
\* What one step does to the process table: it makes a process that was never
\* used, or a live one a zombie with a SIGCHLD, or waits for a zombie.
ProcessStep ==
    \/ UNCHANGED proc
    \/ \E n \in Service, p \in Pid : Fork(n, p)
    \/ \E p \in Pid : EnterSession(p) \/ Exit(p) \/ KillNow(p) \/ WaitPid(p)

\* Whatever step is taken, the processes change by one of these at most.
LEMMA StepProcess ==
    ASSUME TypeOK, PidIsItsOwn, [Next]_vars
    PROVE  ProcessStep
  <1>. USE DEF ProcessStep, kernelVars
  <1>1. CASE UNCHANGED vars
    BY <1>1 DEF vars
  <1>2. CASE Main
    <2>1. CASE ReapOne
      BY <2>1 DEF ReapOne
    <2>2. CASE ReloadWait
      BY <2>2 DEF ReloadWait, PidIsItsOwn, MainOwned, MainHoldsPid, IsOf
    <2>3. CASE TaskFork
      BY <2>3 DEF TaskFork, TypeOK, MainTypeOK, Result
    <2>4. CASE KillEach
      BY <2>4 DEF KillEach, TypeOK, MainTypeOK
    <2>. QED
      BY <1>2, <2>1, <2>2, <2>3, <2>4
         DEF Main, MainNext, ProcessReapedChildren, ReapCheck, ReapSnapshot,
         ReapDone, HandleExited, HandleFailed, HandleUntrack, MaybeRestart,
         HandleDone, ResetCounters, ReloadServices, ReloadCheck, ReloadRemove,
         ReloadTerm, ReloadUntrack, ReloadFinish, RestartTasks, TaskWake,
         TaskPush, TaskMark, ShutdownGraceful, ShutdownCheck, StopBegin,
         StopSnapshot, StopSignal, StopSignalled, DrainDeadline, KillSnapshot,
         Reboot
  <1>3. ASSUME NEW w \in Worker, Server(w)
        PROVE  ProcessStep
    <2>1. CASE StartFork(w)
      BY <2>1 DEF StartFork, TypeOK, ControlTypeOK, Connection
    <2>2. CASE StopWait(w)
      BY <2>2 DEF StopWait, At, PidIsItsOwn, ConnectionsOwned,
         ConnectionOwned, HoldsPid, IsOf
    <2>. QED
      BY <1>3, <2>1, <2>2
         DEF Server, Serve, StartReserve, StartMark, StartPush, StartFailed,
         StopFind, StopTerm, StopUntrack, StopMark, StoreRebootCmd,
         RequestShutdown
  <1>4. CASE Children
    BY <1>4 DEF Children
  <1>5. CASE HandleSigchld \/ HandleSighup \/ HandleSigterm \/ EditFiles
             \/ Clients
    BY <1>5 DEF HandleSigchld, HandleSighup, HandleSigterm, EditFiles,
       Clients, Accept, ReadRequest
  <1>. QED
    BY <1>1, <1>2, <1>3, <1>4, <1>5 DEF Next, On, Off

\* The service a process was forked for never changes.
LEMMA StepRemembers ==
    ASSUME TypeOK, PidIsItsOwn, [Next]_vars
    PROVE  Remembered
  <1>. USE DEF Remembered, kernelVars
  <1>1. CASE UNCHANGED forkedFor
    BY <1>1
  <1>2. ASSUME NEW n \in Service, NEW p \in Pid, Fork(n, p)
        PROVE  Remembered
    BY <1>2, ForkRemembers DEF TypeOK
  <1>3. CASE Main
    <2>1. CASE TaskFork
      BY <1>1, <1>2, <2>1 DEF TaskFork, TypeOK, MainTypeOK, Result
    <2>. QED
      BY <1>1, <1>3, <2>1
         DEF Main, MainNext, ProcessReapedChildren, ReapCheck, ReapSnapshot,
         ReapOne, WaitPid, ReapDone, HandleExited, HandleFailed,
         HandleUntrack, MaybeRestart, HandleDone, ResetCounters,
         ReloadServices, ReloadCheck, ReloadRemove, ReloadTerm, ReloadWait,
         KillNow, ReloadUntrack, ReloadFinish, RestartTasks, TaskWake,
         TaskPush, TaskMark, ShutdownGraceful, ShutdownCheck, StopBegin,
         StopSnapshot, StopSignal, StopSignalled, DrainDeadline,
         KillSnapshot, KillEach, Reboot
  <1>4. ASSUME NEW w \in Worker, Server(w)
        PROVE  Remembered
    <2>1. CASE StartFork(w)
      BY <1>1, <1>2, <2>1 DEF StartFork, TypeOK, ControlTypeOK, Connection
    <2>. QED
      BY <1>1, <1>4, <2>1
         DEF Server, Serve, StartReserve, StartMark, StartPush, StartFailed,
         StopFind, StopTerm, StopWait, KillNow, StopUntrack, StopMark,
         StoreRebootCmd, RequestShutdown
  <1>5. CASE Children \/ HandleSigchld \/ HandleSighup \/ HandleSigterm
             \/ EditFiles \/ Clients
    BY <1>1, <1>5 DEF Children, EnterSession, Exit, HandleSigchld,
       HandleSighup, HandleSigterm, EditFiles, Clients, Accept, ReadRequest
  <1>. QED
    BY <1>1, <1>3, <1>4, <1>5 DEF Next, On, Off, vars

\* A process that has died is dead for good, and every death is signalled.
LEMMA DeathIsFinal ==
    ASSUME TypeOK, ProcessStep
    PROVE  /\ \A p \in Pid : proc[p] # "unused" /\ ~Alive(p) => ~Alive(p)'
           /\ \A p \in Pid : Zombie(p)' => Zombie(p) \/ sigchld'
  <1>. USE DEF TypeOK, KernelTypeOK, Alive, Zombie
  <1>1. CASE UNCHANGED proc
    BY <1>1
  <1>2. CASE \E n \in Service, p \in Pid : Fork(n, p)
    BY <1>2 DEF Fork
  <1>3. ASSUME NEW p \in Pid,
               EnterSession(p) \/ Exit(p) \/ KillNow(p) \/ WaitPid(p)
        PROVE  /\ \A q \in Pid : proc[q] # "unused" /\ ~Alive(q) => ~Alive(q)'
               /\ \A q \in Pid : Zombie(q)' => Zombie(q) \/ sigchld'
    BY <1>3 DEF EnterSession, Exit, KillNow, WaitPid
  <1>. QED
    BY <1>1, <1>2, <1>3 DEF ProcessStep

\* What makes the main thread wait for children is lost only by the end of a
\* waitpid loop that left no zombie.
ReapPending == sigchld \/ reapNeeded \/ mpc \in {"snapshot", "waitpid"}

\* As long as there is a zombie, the pending reap is not forgotten.
LEMMA ReapPendingStays ==
    ASSUME TypeOK, [Next]_vars, ReapPending
    PROVE  ReapPending' \/ \A p \in Pid : ~Zombie(p)'
  <1>. USE DEF ReapPending, kernelVars, flagVars
  <1>1. CASE UNCHANGED vars
    BY <1>1 DEF vars, mainVars
  <1>2. CASE Main
    <2>1. CASE ReapCheck
      BY <2>1 DEF ReapCheck, Goto
    <2>2. CASE ReapSnapshot
      BY <2>2 DEF ReapSnapshot, Goto
    <2>3. CASE ReapOne
      BY <2>3 DEF ReapOne
    <2>4. CASE ReapDone
      BY <2>4 DEF ReapDone, Zombie
    <2>5. CASE ReloadWait
      BY <2>5 DEF ReloadWait, KillNow
    <2>6. CASE TaskFork
      BY <2>6 DEF TaskFork, Fork
    <2>7. CASE KillEach
      BY <2>7 DEF KillEach, KillNow
    <2>8. CASE ReloadTerm \/ StopSignal
      BY <2>8 DEF ReloadTerm, StopSignal, TermGroup
    <2>. QED
      BY <1>2, <2>1, <2>2, <2>3, <2>4, <2>5, <2>6, <2>7, <2>8
         DEF Main, MainNext, ProcessReapedChildren, HandleExited,
         HandleFailed, HandleUntrack, MaybeRestart, HandleDone, ResetCounters,
         ReloadServices, ReloadCheck, ReloadRemove, ReloadUntrack,
         ReloadFinish, RestartTasks, TaskWake, TaskPush, TaskMark,
         ShutdownGraceful, ShutdownCheck, StopBegin, StopSnapshot,
         StopSignalled, DrainDeadline, KillSnapshot, Reboot
  <1>3. ASSUME NEW w \in Worker, Server(w)
        PROVE  ReapPending'
    BY <1>3 DEF Server, mainVars, Serve, StartReserve, StartFork, Fork,
       StartMark, StartPush, StartFailed, StopFind, StopTerm, TermGroup,
       StopWait, KillNow, StopUntrack, StopMark, StoreRebootCmd,
       RequestShutdown
  <1>4. CASE Children \/ HandleSigchld \/ HandleSighup \/ HandleSigterm
             \/ EditFiles \/ Clients
    BY <1>4 DEF Children, EnterSession, Exit, HandleSigchld, HandleSighup,
       HandleSigterm, EditFiles, Clients, Accept, ReadRequest, mainVars
  <1>. QED
    BY <1>1, <1>2, <1>3, <1>4 DEF Next, On, Off

\* No step leaves a zombie behind that nothing will find.
LEMMA StepReaps ==
    TypeOK /\ PidIsItsOwn /\ NoLostReap /\ [Next]_vars => NoLostReap'
  <1>. SUFFICES ASSUME TypeOK, PidIsItsOwn, NoLostReap, [Next]_vars,
                       NEW p \in Pid, Zombie(p)'
                PROVE  ReapPending'
    BY DEF NoLostReap, ReapPending
  <1>1. Zombie(p) \/ sigchld'
    BY StepProcess, DeathIsFinal
  <1>2. Zombie(p) => ReapPending
    BY DEF NoLostReap, ReapPending
  <1>. QED
    BY <1>1, <1>2, ReapPendingStays DEF ReapPending

\* No zombie is forgotten (invariant NoLostReap): however deaths, SIGCHLDs,
\* the swap of REAP_NEEDED and the waitpid loop fall together, a zombie is
\* always one that a pending signal, the flag or the loop will still find.
THEOREM ReapsAll == Spec => []NoLostReap
  <1>1. Init => TypeOK /\ PidIsItsOwn
    BY InitOwned
  <1>2. Init => NoLostReap
    BY DEF Init, AfterBoot, NoLostReap, Zombie
  <1>3. TypeOK /\ PidIsItsOwn /\ [Next]_vars => (TypeOK /\ PidIsItsOwn)'
    BY StepType, StepOwned
  <1>. QED
    BY <1>1, <1>2, <1>3, StepReaps, PTL DEF Spec

\* No step revives what a Stop or a reload has seen die.
LEMMA StepTerminated ==
    TypeOK /\ PidIsItsOwn /\ TerminatedIsDead /\ [Next]_vars
        => TerminatedIsDead'
  <1>. SUFFICES ASSUME TypeOK, PidIsItsOwn, TerminatedIsDead, [Next]_vars
                PROVE  TerminatedIsDead'
    OBVIOUS
  <1>1. \A p \in Pid : proc[p] # "unused" /\ ~Alive(p) => ~Alive(p)'
    BY StepProcess, DeathIsFinal
  <1>2. \A p, n : IsOf(p, n) => p \in Pid /\ proc[p] # "unused"
    BY DEF IsOf, TypeOK, KernelTypeOK
  <1>3. ASSUME NEW w \in Worker, At(w, "stopUntrack")' \/ At(w, "stopMark")'
        PROVE  ~Alive(conn[w].pid)'
    <2>. USE DEF TypeOK, ControlTypeOK, Connection, At
    <2>1. conn'[w] = conn[w] \/ Server(w)
      <3>1. CASE Clients
        BY <1>3, <3>1
           DEF Clients, Accept, ReadRequest, To, Reply, Closed, FirstStep
      <3>2. ASSUME NEW v \in Worker, Server(v), v # w
            PROVE  conn'[w] = conn[w]
        BY <3>2 DEF Server, Serve, StartReserve, StartFork, StartMark,
           StartPush, StartFailed, StopFind, StopTerm, StopWait,
           StopUntrack, StopMark, StoreRebootCmd, RequestShutdown, To,
           ToWith, Reply
      <3>. QED
        BY <3>1, <3>2 DEF Next, On, Off, vars, controlVars, Children,
           HandleSigchld, HandleSighup, HandleSigterm, EditFiles, Main
    <2>2. CASE conn'[w] = conn[w]
      <3>1. ~Alive(conn[w].pid) /\ HoldsPid(w)
        BY <1>3, <2>2 DEF TerminatedIsDead, HoldsPid
      <3>. QED
        BY <1>1, <1>2, <2>2, <3>1
           DEF PidIsItsOwn, ConnectionsOwned, ConnectionOwned, Alive
    <2>3. CASE Server(w)
      <3>1. CASE StopWait(w) \/ StopUntrack(w)
        BY <1>3, <3>1 DEF StopWait, StopUntrack, To, TerminatedIsDead,
           kernelVars, Alive
      <3>. QED
        BY <1>3, <2>3, <3>1
           DEF Server, Serve, StartReserve, StartFork, StartMark, StartPush,
           StartFailed, StopFind, StopTerm, StopMark, StoreRebootCmd,
           RequestShutdown, To, ToWith, Reply, Closed
    <2>. QED
      BY <2>1, <2>2, <2>3
  <1>4. ASSUME mpc' = "reloadUntrack", NEW r \in cur'
        PROVE  ~Alive(r.pid)'
    <2>1. CASE UNCHANGED <<mpc, cur>>
      <3>1. ~Alive(r.pid) /\ IsOf(r.pid, r.name)
        BY <1>4, <2>1 DEF TerminatedIsDead, PidIsItsOwn, MainOwned, MainHoldsPid
      <3>. QED
        BY <1>1, <1>2, <3>1 DEF Alive
    <2>2. CASE Main
      <3>1. CASE ReloadTerm \/ ReloadWait
        BY <1>4, <3>1
           DEF ReloadTerm, ReloadWait, Goto, kernelVars, mainLocals, Alive,
           TypeOK, MainTypeOK
      <3>. QED
        BY <1>4, <2>2, <3>1
           DEF Main, MainNext, ProcessReapedChildren, ReapCheck,
           ReapSnapshot, ReapOne, ReapDone, HandleExited, HandleFailed,
           HandleUntrack, MaybeRestart, HandleDone, AfterReaping,
           ResetCounters, ReloadServices, ReloadCheck, ReloadRemove,
           ReloadUntrack, ReloadFinish, RestartTasks, TaskWake, TaskFork,
           TaskPush, TaskMark, ShutdownGraceful, ShutdownCheck, StopBegin,
           StopSnapshot, StopSignal, StopSignalled, DrainDeadline,
           KillSnapshot, KillEach, Reboot, Goto
    <2>. QED
      BY <2>1, <2>2
         DEF Next, On, Off, vars, mainVars, mainLocals, Children,
         HandleSigchld, HandleSighup, HandleSigterm, EditFiles, Clients,
         Server
  <1>. QED
    BY <1>3, <1>4 DEF TerminatedIsDead

\* What terminate_group reported stopped is stopped (invariant
\* TerminatedIsDead): no interleaved step revives a process between the
\* wait for its death and what the client or the reload does next.
THEOREM TerminatedStayDead == Spec => []TerminatedIsDead
  <1>1. Init => TypeOK /\ PidIsItsOwn
    BY InitOwned
  <1>2. Init => TerminatedIsDead
    BY DEF Init, TerminatedIsDead, At, Closed
  <1>3. TypeOK /\ PidIsItsOwn /\ [Next]_vars => (TypeOK /\ PidIsItsOwn)'
    BY StepType, StepOwned
  <1>. QED
    BY <1>1, <1>2, <1>3, StepTerminated, PTL DEF Spec

-----------------------------------------------------------------------------
(***************************************************************************)
(* The order of the forks.  DependenciesFirst is not inductive: it takes   *)
(* that who forks without looking at the dependencies, an automatic        *)
(* restart, does so for a service that had a process before, and that a    *)
(* Start keeps what it found between its check and its fork.               *)
(***************************************************************************)
WasForked(n) == \E p \in Pid : IsOf(p, n)

\* Whoever is on the way to a restart had a process before.
RestartsWereForked ==
    /\ \A n \in Service : tasks[n] > 0 => WasForked(n)
    /\ \A r \in reaped : WasForked(r.name)
    /\ mpc \in {"untrack", "policy", "taskFork"} =>
         \A r \in cur : WasForked(r.name)

\* Between the check and the fork of a Start the requirements of its service
\* are forked, whatever has become of them since.
StartsAreChecked ==
    \A w \in Worker : conn[w].pc = "startFork" =>
        \A n \in conn[w].name : \A d \in Requires[n] : WasForked(d)

ForkOrder == RestartsWereForked /\ StartsAreChecked /\ DependenciesFirst

\* A satisfied dependency is Running, hence has a pid, hence was forked.
LEMMA SatisfiedWasForked ==
    ASSUME TableOwned, NEW n \in Service,
           Requires[n] = {} \/ AllDepsSatisfied(n), NEW d \in Requires[n]
    PROVE  WasForked(d)
  BY RequiresAssumption DEF AllDepsSatisfied, TableOwned, IsOf, WasForked

\* The order stays when nothing new is forked, or when the requirements of
\* what is forked were.
LEMMA OrderStays ==
    ASSUME KernelTypeOK, DependenciesFirst,
           \/ UNCHANGED forkedFor
           \/ \E n \in Service, p \in Pid :
                Fork(n, p) /\ \A d \in Requires[n] : WasForked(d)
    PROVE  DependenciesFirst' /\ \A n : WasForked(n) => WasForked(n)'
  <1>1. CASE UNCHANGED forkedFor
    BY <1>1 DEF DependenciesFirst, WasForked, IsOf
  <1>2. ASSUME NEW n \in Service, NEW p \in Pid,
               Fork(n, p), \A d \in Requires[n] : WasForked(d)
        PROVE  DependenciesFirst' /\ \A m : WasForked(m) => WasForked(m)'
    <2>1. Remembered /\ IsOf(p, n)'
      BY <1>2, ForkRemembers
    <2>2. ASSUME NEW m, WasForked(m)
          PROVE  WasForked(m)'
      BY <2>1, <2>2 DEF WasForked, IsOf, Remembered
    <2>3. ASSUME NEW q \in Pid, NEW m \in forkedFor'[q], NEW d \in Requires[m]
          PROVE  WasForked(d)'
      <3>1. CASE q = p
        BY <1>2, <2>1, <2>2, <3>1 DEF IsOf
      <3>2. CASE q # p
        <4>1. m \in forkedFor[q]
          BY <1>2, <3>2 DEF Fork, KernelTypeOK
        <4>. QED
          BY <2>2, <4>1 DEF DependenciesFirst, WasForked, IsOf
      <3>. QED
        BY <3>1, <3>2
    <2>. QED
      BY <2>2, <2>3 DEF DependenciesFirst, WasForked, IsOf
  <1>. QED
    BY <1>1, <1>2

\* The main thread: what it restarts had a process.
LEMMA MainForkOrder ==
    ASSUME TypeOK, PidIsItsOwn, ForkOrder, Main
    PROVE  ForkOrder'
  <1>. USE DEF ForkOrder, kernelVars, mainLocals
  <1>1. \/ UNCHANGED forkedFor
        \/ \E n \in Service, p \in Pid :
             Fork(n, p) /\ \A d \in Requires[n] : WasForked(d)
    <2>1. CASE TaskFork
      <3>1. ASSUME NEW r \in cur, NEW p \in Pid, Fork(r.name, p)
            PROVE  r.name \in Service /\ \A d \in Requires[r.name] : WasForked(d)
        BY <2>1, <3>1 DEF TaskFork, RestartsWereForked, DependenciesFirst,
           WasForked, IsOf, TypeOK, MainTypeOK, Result
      <3>. QED
        BY <2>1, <3>1 DEF TaskFork
    <2>. QED
      BY <2>1
         DEF Main, MainNext, ProcessReapedChildren, ReapCheck, ReapSnapshot,
         ReapOne, WaitPid, ReapDone, HandleExited, HandleFailed,
         HandleUntrack, MaybeRestart, HandleDone, ResetCounters,
         ReloadServices, ReloadCheck, ReloadRemove, ReloadTerm, ReloadWait,
         KillNow, ReloadUntrack, ReloadFinish, RestartTasks, TaskWake,
         TaskPush, TaskMark, ShutdownGraceful, ShutdownCheck, StopBegin,
         StopSnapshot, StopSignal, StopSignalled, DrainDeadline,
         KillSnapshot, KillEach, Reboot
  <1>2. DependenciesFirst' /\ \A n : WasForked(n) => WasForked(n)'
    BY <1>1, OrderStays DEF TypeOK
  <1>3. StartsAreChecked'
    BY <1>2 DEF Main, controlVars, StartsAreChecked
  <1>4. RestartsWereForked'
    <2>. USE DEF RestartsWereForked, TypeOK, MainTypeOK, Goto
    <2>1. CASE ReapOne
      <3>1. \A c \in snapshot : WasForked(c[1])
        BY DEF PidIsItsOwn, ChildrenOwned, WasForked, IsOf
      <3>2. \A r \in reaped' : r \in reaped \/ \E c \in snapshot : r.name = c[1]
        BY <2>1 DEF ReapOne
      <3>3. \A r \in reaped' : WasForked(r.name)
        BY <3>1, <3>2
      <3>. QED
        BY <1>2, <2>1, <3>3 DEF ReapOne
    <2>2. CASE HandleExited \/ HandleFailed
      BY <1>2, <2>2 DEF HandleExited, HandleFailed
    <2>3. CASE MaybeRestart
      <3>1. \A n \in Service : tasks'[n] > 0 => WasForked(n)
        BY <2>3 DEF MaybeRestart, Result
      <3>. QED
        BY <1>2, <2>3, <3>1 DEF MaybeRestart
    <2>4. ASSUME NEW n \in Service, TaskWake(n)
          PROVE  RestartsWereForked'
      <3>1. \A m \in Service : tasks'[m] > 0 => tasks[m] > 0
        BY <2>4 DEF TaskWake
      <3>2. mpc' = "taskFork" => \A r \in cur' : WasForked(r.name)
        BY <2>4 DEF TaskWake
      <3>. QED
        BY <1>2, <2>4, <3>1, <3>2 DEF TaskWake
    <2>5. CASE /\ UNCHANGED <<reaped, tasks>>
               /\ \/ mpc' \notin {"untrack", "policy", "taskFork"}
                  \/ UNCHANGED cur /\ mpc = "untrack"
      BY <1>2, <2>5
    <2>. QED
      BY <2>1, <2>2, <2>3, <2>4, <2>5
         DEF Main, MainNext, ProcessReapedChildren, ReapCheck, ReapSnapshot,
         ReapDone, HandleUntrack, HandleDone, AfterReaping, ResetCounters,
         ReloadServices, ReloadCheck, ReloadRemove, ReloadTerm, ReloadWait,
         ReloadUntrack, ReloadFinish, RestartTasks, TaskFork,
         TaskPush, TaskMark, ShutdownGraceful, ShutdownCheck, StopBegin,
         StopSnapshot, StopSignal, StopSignalled, DrainDeadline,
         KillSnapshot, KillEach, Reboot
  <1>. QED
    BY <1>2, <1>3, <1>4

\* The connection threads: what they fork was checked.
LEMMA ServerForkOrder ==
    ASSUME TypeOK, PidIsItsOwn, ForkOrder, NEW w \in Worker, Server(w)
    PROVE  ForkOrder'
  <1>. USE DEF ForkOrder, kernelVars, mainVars, mainLocals, TypeOK,
               ControlTypeOK, Connection
  <1>1. \/ UNCHANGED forkedFor
        \/ \E n \in Service, p \in Pid :
             Fork(n, p) /\ \A d \in Requires[n] : WasForked(d)
    <2>1. CASE StartFork(w)
      BY <2>1 DEF StartFork, At, StartsAreChecked
    <2>. QED
      BY <2>1 DEF Server, Serve, StartReserve, StartMark, StartPush,
         StartFailed, StopFind, StopTerm, StopWait, KillNow, StopUntrack,
         StopMark, StoreRebootCmd, RequestShutdown
  <1>2. DependenciesFirst' /\ \A n : WasForked(n) => WasForked(n)'
    BY <1>1, OrderStays
  <1>3. RestartsWereForked'
    BY <1>2 DEF Server, RestartsWereForked
  <1>4. StartsAreChecked'
    <2>1. CASE StartReserve(w)
      <3>1. PICK n \in conn[w].name :
              \/ MayStart(n) /\ To(w, "startFork")
              \/ Reply(w)
        BY <2>1 DEF StartReserve
      <3>2. MayStart(n) => \A d \in Requires[n] : WasForked(d)
        BY SatisfiedWasForked DEF MayStart, PidIsItsOwn
      <3>3. \A m \in conn[w].name : m = n
        OBVIOUS
      <3>. QED
        BY <1>2, <3>1, <3>2, <3>3 DEF To, Reply, Closed, StartsAreChecked
    <2>2. ASSUME NEW v \in Worker, conn'[v].pc = "startFork", ~StartReserve(w)
          PROVE  conn'[v] = conn[v]
      BY <2>2 DEF Server, Serve, StartFork, StartMark, StartPush, StartFailed,
         StopFind, StopTerm, StopWait, StopUntrack, StopMark, StoreRebootCmd,
         RequestShutdown, To, ToWith, Reply, Closed
    <2>. QED
      BY <1>2, <2>1, <2>2 DEF StartsAreChecked
  <1>. QED
    BY <1>2, <1>3, <1>4

\* Nobody else forks, or brings a thread to a fork.
LEMMA StepForkOrder ==
    TypeOK /\ PidIsItsOwn /\ ForkOrder /\ [Next]_vars => ForkOrder'
  <1>. SUFFICES ASSUME TypeOK, PidIsItsOwn, ForkOrder, [Next]_vars
                PROVE  ForkOrder'
    OBVIOUS
  <1>1. CASE UNCHANGED vars
    BY <1>1 DEF vars, kernelVars, mainVars, mainLocals, controlVars, ForkOrder,
       RestartsWereForked, StartsAreChecked, DependenciesFirst, WasForked, IsOf
  <1>2. CASE Children \/ HandleSigchld \/ HandleSighup \/ HandleSigterm
             \/ EditFiles \/ Clients
    <2>1. UNCHANGED <<forkedFor, mpc, reaped, cur, tasks>>
      BY <1>2 DEF Children, EnterSession, Exit, HandleSigchld, HandleSighup,
         HandleSigterm, EditFiles, Clients, Accept, ReadRequest, mainVars,
         mainLocals, kernelVars
    <2>2. ASSUME NEW v \in Worker, conn'[v].pc = "startFork"
          PROVE  conn'[v] = conn[v]
      <3>1. ASSUME NEW w \in Worker, Accept(w) \/ ReadRequest(w)
            PROVE  conn'[v] = conn[v]
        BY <2>2, <3>1 DEF Accept, ReadRequest, To, Reply, Closed, FirstStep,
           TypeOK, ControlTypeOK, Connection
      <3>. QED
        BY <1>2, <3>1 DEF Children, HandleSigchld, HandleSighup,
           HandleSigterm, EditFiles, Clients, controlVars
    <2>. QED
      BY <2>1, <2>2 DEF ForkOrder, RestartsWereForked, StartsAreChecked,
         DependenciesFirst, WasForked, IsOf
  <1>. QED
    BY <1>1, <1>2, MainForkOrder, ServerForkOrder DEF Next, On, Off

\* No service is forked before the services it requires were (invariant
\* DependenciesFirst), provided boot leaves none up whose requirements are
\* not: BootProofs shows that of boot.
THEOREM ForksInOrder ==
    ASSUME \A up \in BootOutcome : \A n \in up : Requires[n] \subseteq up
    PROVE  Spec => []DependenciesFirst
  <1>1. Init => TypeOK /\ PidIsItsOwn
    BY InitOwned
  <1>2. Init => ForkOrder
    <2>. SUFFICES ASSUME Init PROVE ForkOrder
      OBVIOUS
    <2>1. PICK up \in BootOutcome :
            \E pidOf \in Injection(up, {p \in Pid : p <= Cardinality(up)}) :
               AfterBoot(up, pidOf)
      BY DEF Init
    <2>2. PICK pidOf \in Injection(up, {p \in Pid : p <= Cardinality(up)}) :
            AfterBoot(up, pidOf)
      BY <2>1
    <2>3. /\ up \subseteq Service
          /\ pidOf \in [up -> Pid]
          /\ \A m, n \in up : pidOf[m] = pidOf[n] => m = n
      BY BootOutcomeAssumption DEF Injection, IsInjective
    <2>4. \A n \in up : IsOf(pidOf[n], n)
      BY <2>2, <2>3 DEF AfterBoot, IsOf
    <2>5. \A p \in Pid : forkedFor[p] \subseteq up
      BY <2>2 DEF AfterBoot
    <2>6. DependenciesFirst
      BY <2>3, <2>4, <2>5 DEF DependenciesFirst, IsOf
    <2>. QED
      BY <2>6 DEF Init, ForkOrder, RestartsWereForked, StartsAreChecked, Closed
  <1>3. TypeOK /\ PidIsItsOwn /\ [Next]_vars => (TypeOK /\ PidIsItsOwn)'
    BY StepType, StepOwned
  <1>4. ForkOrder => DependenciesFirst
    BY DEF ForkOrder
  <1>. QED
    BY <1>1, <1>2, <1>3, <1>4, StepForkOrder, PTL DEF Spec

-----------------------------------------------------------------------------
(***************************************************************************)
(* Who has a service that is Starting in hand.                             *)
(***************************************************************************)
\* What a mark_* operation makes of the service it is for, and that it leaves
\* the others alone.
LEMMA MarkState ==
    ASSUME TableRecords, NEW n \in Service, NEW p \in Pid \union {NoPid}
    PROVE  /\ \A new \in {MarkStarting(n), MarkStopping(n), MarkFailed(n),
                          MarkStopped(n), MarkRunning(n, p)} :
                \A m \in Service \ {n} : new[m] = svc[m]
           /\ \A new \in {MarkStopping(n), MarkFailed(n), MarkStopped(n),
                          MarkRunning(n, p)} : new[n].state # "Starting"
           /\ n \in known => MarkRunning(n, p)[n].state = "Running"
  <1>1. \A rec : \A m \in Service \ {n} : Updated(n, rec)[m] = svc[m]
    BY DEF TableRecords, Updated
  <1>2. \A rec : Updated(n, rec)[n] = IF n \in known THEN rec ELSE svc[n]
    BY DEF TableRecords, Updated
  <1>3. n \notin known => svc[n].state # "Starting"
    BY DEF TableRecords, FromConfig
  <1>. DEFINE stopping == [svc[n] EXCEPT !.state = "Stopping"]
              failed   == [svc[n] EXCEPT !.state = "Failed", !.pid = NoPid]
              stopped  == [svc[n] EXCEPT !.state = "Stopped", !.pid = NoPid]
              running  == [svc[n] EXCEPT !.state = "Running", !.pid = p]
  <1>4. /\ stopping.state = "Stopping" /\ failed.state = "Failed"
        /\ stopped.state = "Stopped" /\ running.state = "Running"
    BY DEF TableRecords, ServiceRecord
  <1>5. /\ MarkStopping(n) = Updated(n, stopping)
        /\ MarkFailed(n) = Updated(n, failed)
        /\ MarkStopped(n) = Updated(n, stopped)
        /\ MarkRunning(n, p) = Updated(n, running)
    BY DEF MarkStopping, MarkFailed, MarkStopped, MarkRunning
  <1>6. \E rec : MarkStarting(n) = Updated(n, rec)
    BY DEF MarkStarting
  <1>. HIDE DEF stopping, failed, stopped, running
  <1>7. \A new \in {MarkStarting(n), MarkStopping(n), MarkFailed(n),
                    MarkStopped(n), MarkRunning(n, p)} :
          \E rec : new = Updated(n, rec)
    BY <1>5, <1>6
  <1>8. \A new \in {MarkStarting(n), MarkStopping(n), MarkFailed(n),
                    MarkStopped(n), MarkRunning(n, p)} :
          \A m \in Service \ {n} : new[m] = svc[m]
    BY <1>1, <1>7
  <1>9. /\ MarkStopping(n)[n].state # "Starting"
        /\ MarkFailed(n)[n].state # "Starting"
        /\ MarkStopped(n)[n].state # "Starting"
        /\ MarkRunning(n, p)[n].state # "Starting"
        /\ n \in known => MarkRunning(n, p)[n].state = "Running"
    <2>1. CASE n \in known
      BY <1>2, <1>4, <1>5, <2>1
    <2>2. CASE n \notin known
      BY <1>2, <1>3, <1>5, <2>2
    <2>. QED
      BY <2>1, <2>2
  <1>. QED
    BY <1>8, <1>9

\* The main thread makes no service Starting.
LEMMA MainStartsNothing ==
    ASSUME TypeOK, Main, NEW n \in Service, svc'[n].state = "Starting"
    PROVE  svc[n].state = "Starting"
  <1>. USE DEF TypeOK, TableTypeOK, MainTypeOK, Result
  <1>1. TableRecords
    BY DEF TableRecords
  <1>2. ASSUME NEW m \in Service, NEW p \in Pid \union {NoPid},
               svc' \in {MarkStopping(m), MarkFailed(m), MarkStopped(m),
                         MarkRunning(m, p)}
        PROVE  svc[n].state = "Starting"
    BY <1>1, <1>2, MarkState
  <1>3. CASE HandleFailed
    BY <1>2, <1>3 DEF HandleFailed
  <1>4. CASE TaskMark
    BY <1>2, <1>4 DEF TaskMark
  <1>5. CASE StopSignal
    BY <1>2, <1>5 DEF StopSignal
  <1>6. CASE KillEach
    BY <1>2, <1>6 DEF KillEach
  <1>7. CASE MaybeRestart \/ ResetCounters
    <2>1. CASE MaybeRestart
      BY <2>1 DEF MaybeRestart, Updated, ServiceRecord
    <2>2. CASE ResetCounters
      BY <2>2 DEF ResetCounters, ServiceRecord
    <2>. QED
      BY <1>7, <2>1, <2>2
  <1>8. CASE \E m : svc' = [svc EXCEPT ![m] = FromConfig]
    BY <1>8 DEF FromConfig
  <1>9. CASE UNCHANGED svc
    BY <1>9
  <1>. QED
    BY <1>3, <1>4, <1>5, <1>6, <1>7, <1>8, <1>9
       DEF Main, MainNext, dagVars, ProcessReapedChildren, ReapCheck,
       ReapSnapshot, ReapOne, ReapDone, HandleExited, HandleUntrack,
       HandleDone, ReloadServices, ReloadCheck, ReloadRemove, ReloadTerm,
       ReloadWait, ReloadUntrack, ReloadFinish, RestartTasks, TaskWake,
       TaskFork, TaskPush, ShutdownGraceful, ShutdownCheck, StopBegin,
       StopSnapshot, StopSignalled, DrainDeadline, KillSnapshot, Reboot

\* A thread that reserved a service gives it up only for another state.
LEMMA StartingKept ==
    ASSUME TypeOK, [Next]_vars, NEW n \in Service, svc'[n].state = "Starting"
    PROVE  \/ \E w \in Worker : Reserved(w, n)'
           \/ /\ svc[n].state = "Starting"
              /\ \A w \in Worker : ~Reserved(w, n)
  <1>. USE DEF TypeOK, ControlTypeOK, Connection
  <1>1. TableRecords
    BY DEF TableTypeOK, TableRecords
  <1>2. ASSUME NEW w \in Worker, Server(w)
        PROVE  \/ \E v \in Worker : Reserved(v, n)'
               \/ /\ svc[n].state = "Starting"
                  /\ \A v \in Worker : ~Reserved(v, n)
    <2>1. \A v \in Worker \ {w} : Reserved(v, n) => Reserved(v, n)'
      BY <1>2 DEF Server, Serve, StartReserve, StartFork, StartMark,
         StartPush, StartFailed, StopFind, StopTerm, StopWait, StopUntrack,
         StopMark, StoreRebootCmd, RequestShutdown, To, ToWith, Reply, Reserved
    <2>2. conn[w].name \subseteq Service /\ conn[w].pid \in Pid \union {NoPid}
      OBVIOUS
    <2>3. CASE StartReserve(w)
      <3>1. PICK m \in conn[w].name :
              \/ svc' = MarkStarting(m) /\ To(w, "startFork")
              \/ UNCHANGED svc
        BY <2>3 DEF StartReserve
      <3>2. conn[w].name = {m}
        OBVIOUS
      <3>3. ~Reserved(w, n)
        BY <2>3 DEF StartReserve, At, Reserved
      <3>4. CASE svc' = MarkStarting(m) /\ To(w, "startFork") /\ m = n
        BY <3>2, <3>4 DEF To, Reserved
      <3>5. CASE svc'[n] = svc[n]
        BY <2>1, <3>3, <3>5
      <3>. QED
        BY <1>1, <2>2, <3>1, <3>4, <3>5, MarkState
    <2>4. CASE StartFork(w)
      <3>1. Reserved(w, n) => Reserved(w, n)'
        BY <2>4 DEF StartFork, To, ToWith, Reserved
      <3>. QED
        BY <2>1, <2>4, <3>1 DEF StartFork, dagVars
    <2>5. CASE StartMark(w) \/ StartFailed(w)
      <3>1. PICK m \in conn[w].name :
              svc' \in {MarkRunning(m, conn[w].pid), MarkFailed(m)}
        BY <2>5 DEF StartMark, StartFailed
      <3>2. n # m /\ svc'[n] = svc[n]
        BY <1>1, <2>2, <3>1, MarkState
      <3>3. ~Reserved(w, n)
        BY <3>2 DEF Reserved
      <3>. QED
        BY <2>1, <3>2, <3>3
    <2>6. CASE StopMark(w)
      <3>1. PICK m \in conn[w].name : svc' = MarkStopped(m)
        BY <2>6 DEF StopMark
      <3>2. svc'[n] = svc[n]
        BY <1>1, <2>2, <3>1, MarkState
      <3>. QED
        BY <2>1, <2>6, <3>2 DEF StopMark, At, Reserved
    <2>7. CASE UNCHANGED svc /\ ~Reserved(w, n)
      BY <2>1, <2>7
    <2>. QED
      BY <1>2, <2>3, <2>4, <2>5, <2>6, <2>7
         DEF Server, Serve, dagVars, StartPush, StopFind, StopTerm, StopWait,
         StopUntrack, StoreRebootCmd, RequestShutdown, At, Reserved
  <1>3. CASE Main
    BY <1>3, MainStartsNothing DEF Main, controlVars, Reserved
  <1>4. CASE Clients
    <2>1. UNCHANGED svc
      BY <1>4 DEF Clients, Accept, ReadRequest, dagVars
    <2>2. ASSUME NEW w \in Worker, Reserved(w, n)
          PROVE  Reserved(w, n)'
      BY <1>4, <2>2 DEF Clients, Accept, ReadRequest, At, To, Reply, Reserved
    <2>. QED
      BY <2>1, <2>2
  <1>5. CASE UNCHANGED <<svc, conn>>
    BY <1>5 DEF Reserved
  <1>. QED
    BY <1>2, <1>3, <1>4, <1>5
       DEF Next, On, Off, vars, dagVars, controlVars, Children,
       HandleSigchld, HandleSighup, HandleSigterm, EditFiles

-----------------------------------------------------------------------------
(***************************************************************************)
(* PID 1 keeps the contract of an init process (module ChildContract), but *)
(* for its fairness: a process is born, dies and is collected in that      *)
(* order, each once, until the machine goes down.                          *)
(***************************************************************************)
\* What the contract sees of a process.
LEMMA StageIs ==
    ASSUME KernelTypeOK, NEW p \in Pid
    PROVE  /\ proc[p] = "unused" => Stage(p) = "unborn"
           /\ Alive(p) => Stage(p) = "live"
           /\ Zombie(p) => Stage(p) = "dead"
           /\ proc[p] = "reaped" => Stage(p) = "collected"
           /\ Stage(p) = "unborn" => proc[p] = "unused"
           /\ Stage(p) = "live" => Alive(p)
           /\ Stage(p) = "dead" => Zombie(p)
           /\ Stage(p) = "collected" => proc[p] = "reaped"
  <1>1. proc[p] \in ProcState
    BY DEF KernelTypeOK
  <1>. QED
    BY <1>1 DEF ProcState, Stage, Alive, Zombie

\* A process that was just forked lives.
LEMMA NewStage ==
    ASSUME NEW p \in Pid, proc'[p] \in {"forked", "running"}
    PROVE  Stage(p)' = "live"
  <1>1. proc'[p] # "unused" /\ Alive(p)' /\ ~Zombie(p)'
    BY DEF Alive, Zombie
  <1>. QED
    BY <1>1 DEF Stage

\* Nothing is killed, forked or collected by the step that ends it all.
LEMMA LastStepIsAlone ==
    ASSUME [Next]_vars, mpc' = "halted"
    PROVE  UNCHANGED proc
  <1>1. CASE Main
    BY <1>1
       DEF Main, MainNext, ProcessReapedChildren, ReapCheck, ReapSnapshot,
       ReapOne, ReapDone, HandleExited, HandleFailed, HandleUntrack,
       MaybeRestart, HandleDone, AfterReaping, ResetCounters, ReloadServices,
       ReloadCheck, ReloadRemove, ReloadTerm, ReloadWait, ReloadUntrack,
       ReloadFinish, RestartTasks, TaskWake, TaskFork, TaskPush, TaskMark,
       ShutdownGraceful, ShutdownCheck, StopBegin, StopSnapshot, StopSignal,
       StopSignalled, DrainDeadline, KillSnapshot, KillEach, Reboot, Goto,
       kernelVars
  <1>2. CASE mpc # "halted" /\ mpc' = mpc
    BY <1>2
  <1>. QED
    BY <1>1, <1>2
       DEF Next, On, Off, vars, kernelVars, Children, HandleSigchld,
       HandleSighup, HandleSigterm, EditFiles, Clients, Server, mainVars

\* Where a process does not change the contract sees none.
LEMMA SameStage ==
    ASSUME NEW p \in Pid, proc'[p] = proc[p]
    PROVE  Stage(p)' = Stage(p)
  BY DEF Stage, Alive, Zombie

\* A step of the processes is one of the contract, or none.
LEMMA ProcessContract ==
    ASSUME KernelTypeOK, KernelTypeOK', mpc # "halted", mpc' # "halted",
           ProcessStep
    PROVE  [Contract!Next]_Contract!contractVars
  <1>. DEFINE stage == [p \in Pid |-> Stage(p)]
  <1>1. (mpc' = "halted") = (mpc = "halted")
    OBVIOUS
  <1>2. CASE UNCHANGED stage
    BY <1>1, <1>2 DEF Contract!contractVars
  <1>3. ASSUME NEW p \in Pid, NEW from, NEW to,
               \A q \in Pid \ {p} : Stage(q)' = Stage(q),
               Stage(p) = from, Stage(p)' = to
        PROVE  Contract!Move(p, from, to)
    BY <1>1, <1>3 DEF Contract!Move
  <1>4. ASSUME NEW n \in Service, NEW p \in Pid, Fork(n, p)
        PROVE  Contract!Born(p)
    <2>1. \A q \in Pid \ {p} : Stage(q)' = Stage(q)
      BY <1>4, SameStage DEF Fork, KernelTypeOK
    <2>2. Stage(p) = "unborn" /\ Stage(p)' = "live"
      <3>1. proc[p] = "unused" /\ proc'[p] \in {"forked", "running"}
        BY <1>4 DEF Fork, KernelTypeOK
      <3>2. Stage(p) = "unborn"
        BY <3>1, StageIs
      <3>3. Stage(p)' = "live"
        BY <3>1, NewStage
      <3>. QED
        BY <3>2, <3>3
    <2>. QED
      BY <1>3, <2>1, <2>2 DEF Contract!Born
  <1>5. ASSUME NEW p \in Pid, WaitPid(p)
        PROVE  Contract!Collect(p)
    <2>1. \A q \in Pid \ {p} : Stage(q)' = Stage(q)
      BY <1>5, SameStage DEF WaitPid, KernelTypeOK
    <2>2. Stage(p) = "dead" /\ Stage(p)' = "collected"
      <3>1. Zombie(p) /\ proc'[p] = "reaped"
        BY <1>5 DEF WaitPid, KernelTypeOK
      <3>. QED
        BY <3>1, StageIs DEF Stage, Alive, Zombie
    <2>. QED
      BY <1>3, <2>1, <2>2 DEF Contract!Collect
  <1>6. ASSUME NEW p \in Pid, EnterSession(p)
        PROVE  UNCHANGED stage
    <2>1. \A q \in Pid : Stage(q)' = Stage(q)
      BY <1>6 DEF EnterSession, KernelTypeOK, Stage, Alive, Zombie
    <2>. QED
      BY <2>1
  <1>7. ASSUME NEW cs \in SUBSET Pid, \A q \in cs : Alive(q) /\ Zombie(q)',
               \A q \in Pid \ cs : proc'[q] = proc[q]
        PROVE  Contract!Die(cs)
    <2>1. \A q \in cs : Stage(q) = "live" /\ Stage(q)' = "dead"
      BY <1>7 DEF Stage, Alive, Zombie
    <2>2. \A q \in Pid \ cs : Stage(q)' = Stage(q)
      BY <1>7, SameStage
    <2>. QED
      BY <1>1, <2>1, <2>2 DEF Contract!Die
  <1>8. ASSUME NEW p \in Pid, Exit(p)
        PROVE  Contract!Die({p})
    BY <1>7, <1>8 DEF Exit, KernelTypeOK, Alive, Zombie
  <1>9. ASSUME NEW p \in Pid, KillNow(p)
        PROVE  \E cs \in SUBSET Pid : Contract!Die(cs)
    <2>1. PICK cs \in SUBSET Pid :
            /\ \A q \in cs : Alive(q)
            /\ proc' = [q \in Pid |-> IF q \in cs THEN "crashed" ELSE proc[q]]
      BY <1>9 DEF KillNow, Alive
    <2>. QED
      BY <1>7, <2>1 DEF Zombie
  <1>10. CASE UNCHANGED proc
    BY <1>2, <1>10, SameStage
  <1>. QED
    BY <1>2, <1>4, <1>5, <1>6, <1>8, <1>9, <1>10
       DEF ProcessStep, Contract!Next

\* A step of Cesar is a step of the contract, or none: the step that halts
\* changes no process, and the ones before it do not go down.
LEMMA StepImplements ==
    ASSUME TypeOK, PidIsItsOwn, [Next]_vars
    PROVE  [Contract!Next]_Contract!contractVars
  <1>1. CASE mpc' = "halted" \/ UNCHANGED vars
    <2>1. UNCHANGED proc /\ (mpc' = "halted" \/ UNCHANGED mpc)
      BY <1>1, LastStepIsAlone DEF vars, kernelVars, mainVars
    <2>2. [p \in Pid |-> Stage(p)]' = [p \in Pid |-> Stage(p)]
      BY <2>1, SameStage
    <2>. QED
      BY <2>1, <2>2
         DEF Contract!Next, Contract!GoDown, Contract!contractVars
  <1>2. CASE mpc' # "halted" /\ ~UNCHANGED vars
    <2>1. mpc # "halted" /\ TypeOK'
      BY <1>2, StepType DEF Next, Off
    <2>. QED
      BY <1>2, <2>1, StepProcess, ProcessContract DEF TypeOK
  <1>. QED
    BY <1>1, <1>2

\* A zombie is waited for once, and nobody else is: every behaviour of PID 1
\* is one the contract of an init process allows (ImplementsContract without
\* the fairness that makes it wait eventually, which only a run checks).
THEOREM ImplementsContractSafety == Spec => Contract!Safety
  <1>1. Init => TypeOK /\ PidIsItsOwn
    BY InitOwned
  <1>2. Init => Contract!Init
    <2>. SUFFICES ASSUME Init PROVE Contract!Init
      OBVIOUS
    <2>1. \A p \in Pid : proc[p] \in {"unused", "running"}
      BY DEF Init, AfterBoot
    <2>2. KernelTypeOK
      BY <1>1 DEF TypeOK
    <2>3. \A p \in Pid : Stage(p) \in {"unborn", "live"}
      BY <2>1, <2>2, StageIs DEF Alive
    <2>. QED
      BY <2>3 DEF Init, Contract!Init
  <1>3. TypeOK /\ PidIsItsOwn /\ [Next]_vars => (TypeOK /\ PidIsItsOwn)'
    BY StepType, StepOwned
  <1>4. TypeOK /\ PidIsItsOwn /\ [Next]_vars
          => [Contract!Next]_Contract!contractVars
    BY StepImplements
  <1>. QED
    BY <1>1, <1>2, <1>3, <1>4, PTL DEF Spec, Contract!Safety
=============================================================================
