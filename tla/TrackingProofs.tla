--------------------------- MODULE TrackingProofs ---------------------------
(***************************************************************************)
(* PID 1 knows its processes.  Two arguments, for two ways to use it:      *)
(*                                                                         *)
(* - Clients ask for nothing but a shutdown or a reboot; services have any *)
(*   policy, die, are restarted, removed and put back by reloads.  With    *)
(*   Start, Stop and Restart at the same time not all of it holds: they    *)
(*   and the main thread take a process out of RUNNING_CHILDREN by the     *)
(*   name of its service.  The argument is that a service has one life: a  *)
(*   process that was not waited for, or the result of waitpid, or the     *)
(*   result in hand, or the restart task asleep, and at most one of these. *)
(*   So whoever removes the entries of a name removes none of a live       *)
(*   process.                                                              *)
(* - Any number of clients start services.  The argument is that the state *)
(*   Starting is a lock, which is why the main thread may not do anything  *)
(*   that changes the state of a service or forks for it meanwhile.        *)
(*                                                                         *)
(* With the first kind of clients no crash is lost; with the second a      *)
(* process may be missing in RUNNING_CHILDREN, but not in the table.       *)
(***************************************************************************)
EXTENDS CesarProofs, FiniteSetTheorems

\* A set whose elements are all the same has at most one.
LEMMA AtMostOne ==
    ASSUME NEW S, \A p, q \in S : p = q
    PROVE  Cardinality(S) <= 1
  <1>1. CASE S = {}
    BY <1>1, FS_EmptySet
  <1>2. CASE S # {}
    <2>1. PICK p \in S : S = {p}
      BY <1>2
    <2>2. Cardinality(S) = 1
      BY <2>1, FS_Singleton
    <2>. QED
      BY <2>2
  <1>. QED
    BY <1>1, <1>2

HasResult(n) == \E r \in reaped : r.name = n

\* Its result is being handled, or its restart task is about to fork.
InHand(n) ==
    mpc \in {"untrack", "policy", "taskFork"} /\ \E r \in cur : r.name = n

QuietClients ==
    \A w \in Worker :
        conn[w].pc \in {"closed", "reading", "rebootCmd", "requestShutdown"}

LifeOf(n) ==
    /\ \A p, q \in Unwaited(n) : p = q
    /\ \A r, s \in reaped : r.name = n /\ s.name = n => r = s
    /\ tasks[n] <= 1
    /\ Unwaited(n) # {} => ~HasResult(n) /\ ~InHand(n) /\ tasks[n] = 0
    /\ HasResult(n) => ~InHand(n) /\ tasks[n] = 0
    /\ InHand(n) => tasks[n] = 0
OneLife == \A n \in Service : LifeOf(n)

\* A pid in the table is that of the process there is, but for the moment a
\* restart task has forked and not marked; and so is the victim of a reload.
Fresh == mpc \in {"taskPush", "taskMark"}
FreshIsThere == Fresh => \A r \in cur : proc[r.pid] # "reaped"
TableIsCurrent ==
    \A n \in Service : svc[n].pid # NoPid => \A p \in Unwaited(n) :
        p = svc[n].pid \/ (Fresh /\ \E r \in cur : r.pid = p)
VictimIsCurrent ==
    mpc \in {"reloadTerm", "reloadWait", "reloadUntrack"} =>
        \A r \in cur : \A p \in Unwaited(r.name) : p = r.pid
PidIsCurrent == FreshIsThere /\ TableIsCurrent /\ VictimIsCurrent

\* What the last SIGKILLs of a shutdown are for.
VictimsListed ==
    mpc = "killEach" => \A p \in Pid : Alive(p) => \E c \in snapshot : c[2] = p

-----------------------------------------------------------------------------
(***************************************************************************)
(* Who takes a step.                                                       *)
(***************************************************************************)
\* Nobody is waited for or revived, and nobody forks.
NobodyMoves ==
    /\ UNCHANGED forkedFor
    /\ \A p \in Pid : /\ proc'[p] = "reaped" <=> proc[p] = "reaped"
                      /\ Alive(p)' => Alive(p)

\* A step of the kernel, a signal handler, the administrator or a client: it
\* leaves everything alone that the main thread works with.
Aside ==
    /\ NobodyMoves
    /\ UNCHANGED <<known, svc, children, mpc, snapshot, reaped, cur, tasks>>

\* Nobody moves where nothing happens or a process is killed.
LEMMA KillMovesNobody ==
    ASSUME KernelTypeOK, UNCHANGED kernelVars \/ \E p \in Pid : KillNow(p)
    PROVE  NobodyMoves
  BY DEF KernelTypeOK, kernelVars, KillNow, NobodyMoves, Alive

\* Clients that ask for a shutdown or a reboot only touch the flags for it.
LEMMA QuietStep ==
    ASSUME TypeOK, QuietClients, Operation \subseteq {"Shutdown", "Reboot"},
           [Next]_vars
    PROVE  QuietClients' /\ (Aside \/ (Main /\ mpc # "halted"))
  <1>. USE DEF QuietClients, TypeOK, ControlTypeOK, Connection
  <1>1. CASE UNCHANGED vars
    BY <1>1, KillMovesNobody
       DEF vars, dagVars, mainVars, mainLocals, controlVars, Aside
  <1>2. CASE Main /\ mpc # "halted"
    BY <1>2 DEF Main, controlVars
  <1>3. ASSUME NEW w \in Worker, Server(w)
        PROVE  QuietClients' /\ Aside
    <2>1. StoreRebootCmd(w) \/ RequestShutdown(w)
      BY <1>3 DEF Server, Serve, StartReserve, StartFork, StartMark,
         StartPush, StartFailed, StopFind, StopTerm, StopWait, StopUntrack,
         StopMark, At
    <2>2. QuietClients'
      BY <2>1 DEF StoreRebootCmd, RequestShutdown, To, Reply, Closed
    <2>3. UNCHANGED <<kernelVars, known, svc, children, mpc, snapshot, reaped,
                      cur, tasks>>
      BY <1>3, <2>1 DEF Server, mainVars, mainLocals, StoreRebootCmd,
         RequestShutdown, dagVars
    <2>. QED
      BY <2>2, <2>3, KillMovesNobody DEF Aside
  <1>4. ASSUME NEW w \in Worker, Accept(w) \/ ReadRequest(w), UNCHANGED mainVars
        PROVE  QuietClients' /\ Aside
    <2>1. QuietClients'
      BY <1>4 DEF Accept, ReadRequest, To, Reply, Closed, FirstStep
    <2>2. UNCHANGED <<kernelVars, known, svc, children, mpc, snapshot, reaped,
                      cur, tasks>>
      BY <1>4 DEF mainVars, mainLocals, Accept, ReadRequest, dagVars
    <2>. QED
      BY <2>1, <2>2, KillMovesNobody DEF Aside
  <1>5. ASSUME NEW p \in Pid, EnterSession(p) \/ Exit(p)
        PROVE  NobodyMoves
    BY <1>5 DEF EnterSession, Exit, KernelTypeOK, NobodyMoves, Alive
  <1>6. CASE Children \/ HandleSigchld \/ HandleSighup \/ HandleSigterm
             \/ EditFiles
    <2>1. NobodyMoves
      <3>1. CASE Children
        BY <1>5, <3>1 DEF Children
      <3>2. CASE UNCHANGED <<proc, forkedFor>>
        BY <3>2 DEF NobodyMoves, Alive
      <3>. QED
        BY <1>6, <3>1, <3>2
           DEF HandleSigchld, HandleSighup, HandleSigterm, EditFiles, kernelVars
    <2>2. UNCHANGED <<known, svc, children, mpc, snapshot, reaped, cur, tasks,
                      conn>>
      BY <1>6 DEF Children, HandleSigchld, HandleSighup, HandleSigterm,
         EditFiles, dagVars, mainVars, mainLocals, controlVars
    <2>. QED
      BY <2>1, <2>2 DEF Aside
  <1>. QED
    BY <1>1, <1>2, <1>3, <1>4, <1>6 DEF Next, On, Off, Clients

-----------------------------------------------------------------------------
(***************************************************************************)
(* A service has one life.                                                 *)
(***************************************************************************)
\* Where nobody moves the unwaited processes are the same.
LEMMA SameUnwaited ==
    ASSUME NobodyMoves, NEW n
    PROVE  Unwaited(n)' = Unwaited(n)
  BY DEF NobodyMoves, Unwaited, IsOf

\* A fork adds to those of its service, and of no other.
LEMMA ForkUnwaited ==
    ASSUME KernelTypeOK, NEW n \in Service, NEW p \in Pid, Fork(n, p)
    PROVE  /\ Unwaited(n)' = Unwaited(n) \union {p}
           /\ \A m \in Service \ {n} : Unwaited(m)' = Unwaited(m)
           /\ p \notin Unwaited(n) /\ proc'[p] # "reaped"
           /\ \A q \in Pid \ {p} : Alive(q)' => Alive(q)
  BY DEF KernelTypeOK, Fork, Unwaited, IsOf, Alive

\* From waitpid on: the process becomes a result, or an orphan that is
\* forgotten.
LEMMA ReapKeepsLife ==
    ASSUME TypeOK, PidIsItsOwn, OneLife, ReapOne
    PROVE  OneLife'
  <1>. USE DEF TypeOK, KernelTypeOK
  <1>1. PICK p \in Pid :
          /\ WaitPid(p)
          /\ reaped' = reaped \union
               {[name |-> c[1], pid |-> p, status |-> proc[p]] :
                    c \in {e \in snapshot : e[2] = p}}
    BY DEF ReapOne
  <1>2. /\ mpc = "waitpid" /\ mpc' = "waitpid" /\ UNCHANGED tasks
    BY DEF ReapOne
  <1>3. ASSUME NEW n \in Service
        PROVE  LifeOf(n)'
    <2>1. Unwaited(n)' = Unwaited(n) \ {p}
      BY <1>1 DEF WaitPid, Unwaited, IsOf
    <2>2. proc[p] # "reaped"
      BY <1>1 DEF WaitPid, Zombie
    <2>3. LifeOf(n) /\ tasks[n] <= 1
      BY DEF OneLife, LifeOf
    <2>4. CASE \E c \in snapshot : c[2] = p /\ c[1] = n
      <3>1. p \in Unwaited(n)
        BY <2>2, <2>4 DEF PidIsItsOwn, ChildrenOwned, IsOf, Unwaited
      <3>2. Unwaited(n)' = {} /\ ~HasResult(n) /\ tasks[n] = 0
        BY <2>1, <2>3, <3>1 DEF LifeOf
      <3>3. \A r \in reaped' : r.name = n =>
              r = [name |-> n, pid |-> p, status |-> proc[p]]
        BY <1>1, <3>2 DEF HasResult
      <3>. QED
        BY <1>2, <3>2, <3>3 DEF LifeOf, InHand
    <2>5. CASE ~\E c \in snapshot : c[2] = p /\ c[1] = n
      <3>1. \A r \in reaped' : r.name = n => r \in reaped
        BY <1>1, <2>5
      <3>2. HasResult(n)' => HasResult(n)
        BY <3>1 DEF HasResult
      <3>. QED
        BY <1>2, <2>1, <2>3, <3>1, <3>2 DEF LifeOf, InHand
    <2>. QED
      BY <2>4, <2>5
  <1>. QED
    BY <1>3 DEF OneLife

\* The result is taken in hand.
LEMMA HandleKeepsLife ==
    ASSUME TypeOK, OneLife, HandleExited \/ HandleFailed
    PROVE  OneLife'
  <1>1. PICK r \in reaped : reaped' = reaped \ {r} /\ cur' = {r}
    BY DEF HandleExited, HandleFailed
  <1>2. /\ mpc = "handle" /\ UNCHANGED <<kernelVars, tasks>>
    BY DEF HandleExited, HandleFailed
  <1>3. ASSUME NEW n \in Service
        PROVE  LifeOf(n)'
    <2>1. Unwaited(n)' = Unwaited(n)
      BY <1>2 DEF kernelVars, Unwaited, IsOf
    <2>2. InHand(n)' => r.name = n
      BY <1>1 DEF InHand
    <2>3. HasResult(n)' => HasResult(n) /\ r.name # n
      BY <1>1 DEF HasResult, OneLife, LifeOf
    <2>4. r.name = n => HasResult(n)
      BY DEF HasResult
    <2>. QED
      BY <1>1, <1>2, <2>1, <2>2, <2>3, <2>4 DEF OneLife, LifeOf
  <1>. QED
    BY <1>3 DEF OneLife

\* What was in hand ends, or goes to sleep as a restart task.
LEMMA PolicyKeepsLife ==
    ASSUME TypeOK, OneLife, MaybeRestart
    PROVE  OneLife'
  <1>1. PICK r \in cur :
          UNCHANGED tasks \/ tasks' = [tasks EXCEPT ![r.name] = @ + 1]
    BY DEF MaybeRestart
  <1>2. /\ mpc = "policy" /\ mpc' = "handle"
        /\ UNCHANGED <<kernelVars, reaped>>
    BY DEF MaybeRestart, Goto
  <1>3. ASSUME NEW n \in Service
        PROVE  LifeOf(n)'
    <2>1. Unwaited(n)' = Unwaited(n)
      BY <1>2 DEF kernelVars, Unwaited, IsOf
    <2>2. LifeOf(n) /\ ~InHand(n)' /\ (HasResult(n)' <=> HasResult(n))
      BY <1>2 DEF OneLife, InHand, HasResult
    <2>3. tasks'[n] = tasks[n] \/ (InHand(n) /\ tasks'[n] = tasks[n] + 1)
      BY <1>1, <1>2 DEF InHand, TypeOK, MainTypeOK
    <2>. QED
      BY <1>2, <2>1, <2>2, <2>3 DEF LifeOf
  <1>. QED
    BY <1>3 DEF OneLife

\* A restart task wakes up, and ends or is in hand.
LEMMA WakeKeepsLife ==
    ASSUME TypeOK, OneLife, NEW m \in Service, TaskWake(m)
    PROVE  OneLife'
  <1>1. /\ mpc = "await" /\ tasks[m] > 0
        /\ tasks' = [tasks EXCEPT ![m] = @ - 1]
        /\ mpc' = "await" \/ cur' = {[name |-> m, pid |-> NoPid, status |-> "-"]}
        /\ UNCHANGED <<kernelVars, reaped>>
    BY DEF TaskWake, Goto
  <1>2. ASSUME NEW n \in Service
        PROVE  LifeOf(n)'
    <2>1. Unwaited(n)' = Unwaited(n) /\ (HasResult(n)' <=> HasResult(n))
      BY <1>1 DEF kernelVars, Unwaited, IsOf, HasResult
    <2>2. InHand(n)' => n = m
      BY <1>1 DEF InHand
    <2>3. LifeOf(n) /\ tasks \in [Service -> Nat]
      BY DEF OneLife, TypeOK, MainTypeOK
    <2>4. IF n = m THEN tasks[n] = 1 /\ tasks'[n] = 0 ELSE tasks'[n] = tasks[n]
      BY <1>1, <2>3 DEF LifeOf
    <2>. QED
      BY <1>1, <2>1, <2>2, <2>3, <2>4 DEF LifeOf
  <1>. QED
    BY <1>2 DEF OneLife

\* It forks, or gives up.
LEMMA ForkKeepsLife ==
    ASSUME TypeOK, OneLife, TaskFork
    PROVE  OneLife'
  <1>1. /\ mpc = "taskFork" /\ mpc' \in {"taskPush", "await"}
        /\ UNCHANGED <<reaped, tasks>>
    BY DEF TaskFork, Goto
  <1>2. \A n : ~InHand(n)' /\ (HasResult(n)' <=> HasResult(n))
    BY <1>1 DEF InHand, HasResult
  <1>3. CASE UNCHANGED kernelVars
    BY <1>1, <1>2, <1>3 DEF kernelVars, OneLife, LifeOf, Unwaited, IsOf
  <1>4. ASSUME NEW r \in cur, NEW p \in Pid, Fork(r.name, p)
        PROVE  OneLife'
    <2>1. r.name \in Service /\ InHand(r.name)
      BY <1>1 DEF TypeOK, MainTypeOK, Result, InHand
    <2>2. ASSUME NEW n \in Service \ {r.name}
          PROVE  LifeOf(n)'
      <3>1. Unwaited(n)' = Unwaited(n)
        BY <1>4, <2>1, ForkUnwaited DEF TypeOK
      <3>. QED
        BY <1>1, <1>2, <3>1 DEF OneLife, LifeOf
    <2>3. LifeOf(r.name)'
      <3>1. LifeOf(r.name) /\ Unwaited(r.name) = {}
        BY <2>1 DEF OneLife, LifeOf
      <3>2. Unwaited(r.name)' = {p}
        BY <1>4, <2>1, <3>1, ForkUnwaited DEF TypeOK
      <3>. QED
        BY <1>1, <1>2, <2>1, <3>1, <3>2 DEF LifeOf
    <2>. QED
      BY <2>2, <2>3 DEF OneLife
  <1>. QED
    BY <1>3, <1>4 DEF TaskFork

\* Whatever else the main thread does moves nobody, and takes nothing in hand.
MainElsewhere ==
    /\ NobodyMoves
    /\ UNCHANGED <<reaped, tasks>>
    /\ mpc' \notin {"untrack", "policy", "taskFork", "taskPush", "taskMark"}
         \/ (UNCHANGED cur /\ <<mpc, mpc'>> \in
               {<<"untrack", "policy">>, <<"taskPush", "taskMark">>})

\* The steps of the main thread, those that a life goes through apart.
LEMMA MainKinds ==
    ASSUME TypeOK, PidIsItsOwn, Main
    PROVE  \/ ReapOne \/ HandleExited \/ HandleFailed \/ MaybeRestart
           \/ \E n \in Service : TaskWake(n)
           \/ TaskFork \/ MainElsewhere
  <1>. USE DEF Goto, mainLocals, AfterReaping
  <1>1. ASSUME \/ ReapCheck \/ ReapSnapshot \/ ReapDone \/ HandleUntrack
               \/ HandleDone \/ ResetCounters \/ ReloadCheck \/ ReloadRemove
               \/ ReloadTerm \/ ReloadUntrack \/ ReloadFinish \/ TaskPush
               \/ TaskMark \/ ShutdownCheck \/ StopBegin \/ StopSnapshot
               \/ StopSignal \/ StopSignalled \/ DrainDeadline
               \/ KillSnapshot \/ Reboot
        PROVE  MainElsewhere
    <2>1. NobodyMoves
      <3>1. UNCHANGED kernelVars
        BY <1>1 DEF ReapCheck, ReapSnapshot, ReapDone, HandleUntrack,
           HandleDone, ResetCounters, ReloadCheck, ReloadRemove, ReloadTerm,
           ReloadUntrack, ReloadFinish, TaskPush, TaskMark, ShutdownCheck,
           StopBegin, StopSnapshot, StopSignal, StopSignalled,
           DrainDeadline, KillSnapshot, Reboot
      <3>. QED
        BY <3>1, KillMovesNobody DEF TypeOK
    <2>2. UNCHANGED <<reaped, tasks>>
      BY <1>1 DEF ReapCheck, ReapSnapshot, ReapDone, HandleUntrack,
         HandleDone, ResetCounters, ReloadCheck, ReloadRemove, ReloadTerm,
         ReloadUntrack, ReloadFinish, TaskPush, TaskMark, ShutdownCheck,
         StopBegin, StopSnapshot, StopSignal, StopSignalled, DrainDeadline,
         KillSnapshot, Reboot
    <2>3. \/ mpc' \notin {"untrack", "policy", "taskFork", "taskPush", "taskMark"}
          \/ (UNCHANGED cur /\ <<mpc, mpc'>> \in
                {<<"untrack", "policy">>, <<"taskPush", "taskMark">>})
      BY <1>1 DEF ReapCheck, ReapSnapshot, ReapDone, HandleUntrack,
         HandleDone, ResetCounters, ReloadCheck, ReloadRemove, ReloadTerm,
         ReloadUntrack, ReloadFinish, TaskPush, TaskMark, ShutdownCheck,
         StopBegin, StopSnapshot, StopSignal, StopSignalled, DrainDeadline,
         KillSnapshot, Reboot
    <2>. QED
      BY <2>1, <2>2, <2>3 DEF MainElsewhere
  <1>2. CASE ReloadWait
    <2>1. NobodyMoves
      <3>1. UNCHANGED kernelVars \/ \E p \in Pid : KillNow(p)
        BY <1>2 DEF ReloadWait, PidIsItsOwn, MainOwned, MainHoldsPid, IsOf
      <3>. QED
        BY <3>1, KillMovesNobody DEF TypeOK
    <2>. QED
      BY <1>2, <2>1 DEF ReloadWait, MainElsewhere
  <1>3. CASE KillEach
    <2>1. NobodyMoves
      <3>1. UNCHANGED kernelVars \/ \E p \in Pid : KillNow(p)
        BY <1>3 DEF KillEach, TypeOK, MainTypeOK
      <3>. QED
        BY <3>1, KillMovesNobody DEF TypeOK
    <2>. QED
      BY <1>3, <2>1 DEF KillEach, MainElsewhere
  <1>. QED
    BY <1>1, <1>2, <1>3
       DEF Main, MainNext, ProcessReapedChildren, ReloadServices,
           RestartTasks, ShutdownGraceful

\* So a service has one life, whatever is done.
LEMMA StepKeepsLife ==
    ASSUME TypeOK, PidIsItsOwn, OneLife, Aside \/ Main
    PROVE  OneLife'
  <1>1. CASE Aside \/ MainElsewhere
    <2>1. /\ \A n : Unwaited(n)' = Unwaited(n)
          /\ UNCHANGED <<reaped, tasks>>
      BY <1>1, SameUnwaited DEF Aside, MainElsewhere
    <2>2. \A n : HasResult(n)' = HasResult(n) /\ (InHand(n)' => InHand(n))
      BY <1>1 DEF Aside, MainElsewhere, HasResult, InHand
    <2>. QED
      BY <2>1, <2>2 DEF OneLife, LifeOf
  <1>. QED
    BY <1>1, MainKinds, ReapKeepsLife, HandleKeepsLife, PolicyKeepsLife,
       WakeKeepsLife, ForkKeepsLife

-----------------------------------------------------------------------------
(***************************************************************************)
(* The pid in the table is the service's process.                          *)
(***************************************************************************)
\* Of the mark_* operations only mark_running enters a pid.
LEMMA MarkPid ==
    ASSUME TableRecords, NEW m \in Service, NEW n \in Service,
           svc' \in {MarkStarting(m), MarkStopping(m), MarkFailed(m),
                     MarkStopped(m)}
    PROVE  svc'[n].pid \in {svc[n].pid, NoPid}
  <1>1. ASSUME NEW rec, svc' = Updated(m, rec), rec.pid \in {svc[m].pid, NoPid}
        PROVE  svc'[n].pid \in {svc[n].pid, NoPid}
    BY <1>1 DEF TableRecords, Updated
  <1>2. /\ [svc[m] EXCEPT !.state = "Starting"].pid = svc[m].pid
        /\ [svc[m] EXCEPT !.state = "Stopping"].pid = svc[m].pid
        /\ [svc[m] EXCEPT !.state = "Failed", !.pid = NoPid].pid = NoPid
        /\ [svc[m] EXCEPT !.state = "Stopped", !.pid = NoPid].pid = NoPid
    BY DEF TableRecords, ServiceRecord
  <1>. QED
    BY <1>1, <1>2 DEF MarkStarting, MarkStopping, MarkFailed, MarkStopped

\* So of the main thread only the end of a restart task does.
LEMMA MainPids ==
    ASSUME TypeOK, Main, ~TaskMark, NEW n \in Service
    PROVE  svc'[n].pid \in {svc[n].pid, NoPid}
  <1>. USE DEF TypeOK, TableTypeOK, MainTypeOK, Result
  <1>1. TableRecords
    BY DEF TableRecords
  <1>2. CASE HandleFailed
    BY <1>1, <1>2, MarkPid DEF HandleFailed
  <1>3. CASE StopSignal
    BY <1>1, <1>3, MarkPid DEF StopSignal
  <1>4. CASE KillEach
    BY <1>1, <1>4, MarkPid DEF KillEach
  <1>5. CASE MaybeRestart
    BY <1>5 DEF MaybeRestart, Updated, ServiceRecord
  <1>6. CASE ResetCounters
    BY <1>6 DEF ResetCounters, ServiceRecord
  <1>7. CASE \E m : svc' = [svc EXCEPT ![m] = FromConfig]
    BY <1>7 DEF FromConfig
  <1>8. CASE UNCHANGED svc
    BY <1>8
  <1>. QED
    BY <1>2, <1>3, <1>4, <1>5, <1>6, <1>7, <1>8
       DEF Main, MainNext, dagVars, ProcessReapedChildren, ReapCheck,
       ReapSnapshot, ReapOne, ReapDone, HandleExited, HandleUntrack,
       HandleDone, ReloadServices, ReloadCheck, ReloadRemove, ReloadTerm,
       ReloadWait, ReloadUntrack, ReloadFinish, RestartTasks, TaskWake,
       TaskFork, TaskPush, ShutdownGraceful, ShutdownCheck, StopBegin,
       StopSnapshot, StopSignalled, DrainDeadline, KillSnapshot, Reboot

\* A restart task forks: its process is the only one of the service.
LEMMA ForkIsCurrent ==
    ASSUME TypeOK, OneLife, PidIsCurrent, TaskFork
    PROVE  PidIsCurrent'
  <1>1. mpc = "taskFork" /\ mpc' \in {"taskPush", "await"} /\ UNCHANGED svc
    BY DEF TaskFork, Goto, dagVars
  <1>2. \A n \in Service : svc[n].pid # NoPid =>
          \A p \in Unwaited(n) : p = svc[n].pid
    BY <1>1 DEF PidIsCurrent, TableIsCurrent, Fresh
  <1>3. ASSUME UNCHANGED kernelVars, mpc' = "await"
        PROVE  PidIsCurrent'
    <2>1. \A n : Unwaited(n)' = Unwaited(n)
      BY <1>3 DEF kernelVars, Unwaited, IsOf
    <2>. QED
      BY <1>1, <1>2, <1>3, <2>1
         DEF PidIsCurrent, FreshIsThere, TableIsCurrent, VictimIsCurrent, Fresh
  <1>4. ASSUME NEW r \in cur, NEW p \in Pid, Fork(r.name, p),
               cur' = {[r EXCEPT !.pid = p]}, mpc' = "taskPush"
        PROVE  PidIsCurrent'
    <2>1. r.name \in Service /\ InHand(r.name) /\ [r EXCEPT !.pid = p].pid = p
      BY <1>1 DEF TypeOK, MainTypeOK, Result, InHand
    <2>2. Unwaited(r.name)' = {p} /\ proc'[p] # "reaped"
      BY <1>4, <2>1, ForkUnwaited DEF TypeOK, OneLife, LifeOf
    <2>3. \A n \in Service \ {r.name} : Unwaited(n)' = Unwaited(n)
      BY <1>4, <2>1, ForkUnwaited DEF TypeOK
    <2>4. \A s \in cur' : s.pid = p
      BY <1>4, <2>1
    <2>5. \E s \in cur' : s.pid = p
      BY <1>4, <2>1
    <2>6. FreshIsThere' /\ VictimIsCurrent'
      BY <1>4, <2>2, <2>4 DEF FreshIsThere, VictimIsCurrent
    <2>7. TableIsCurrent'
      BY <1>1, <1>2, <1>4, <2>2, <2>3, <2>5 DEF TableIsCurrent, Fresh
    <2>. QED
      BY <2>6, <2>7 DEF PidIsCurrent
  <1>. QED
    BY <1>3, <1>4 DEF TaskFork, Goto

\* It marks: the pid it enters is that of this process.
LEMMA MarkIsCurrent ==
    ASSUME TypeOK, PidIsItsOwn, OneLife, PidIsCurrent, TaskMark
    PROVE  PidIsCurrent'
  <1>1. PICK r \in cur : svc' = MarkRunning(r.name, r.pid)
    BY DEF TaskMark
  <1>2. /\ mpc = "taskMark" /\ mpc' = "await"
        /\ UNCHANGED <<kernelVars, known>>
    BY DEF TaskMark, Goto
  <1>3. /\ r.name \in Service /\ IsOf(r.pid, r.name) /\ proc[r.pid] # "reaped"
        /\ \A s \in cur : s = r
    BY <1>2 DEF TypeOK, MainTypeOK, Result, PidIsItsOwn, MainOwned,
       MainHoldsPid, PidIsCurrent, FreshIsThere, Fresh
  <1>4. \A n : Unwaited(n)' = Unwaited(n)
    BY <1>2 DEF kernelVars, Unwaited, IsOf
  <1>5. TableRecords
    BY DEF TypeOK, TableTypeOK, TableRecords
  <1>6. ASSUME NEW n \in Service, svc'[n].pid # NoPid, NEW p \in Unwaited(n)
        PROVE  p = svc'[n].pid
    <2>1. CASE n = r.name
      <3>1. p = r.pid
        BY <1>3, <1>6, <2>1 DEF OneLife, LifeOf, Unwaited, IsOf
      <3>2. n \in known => svc'[n].pid = r.pid
        BY <1>1, <1>5, <2>1
           DEF MarkRunning, Updated, TableRecords, ServiceRecord
      <3>3. n \notin known => svc'[n].pid = NoPid
        BY <1>1, <1>5, <2>1
           DEF MarkRunning, Updated, TableRecords, FromConfig
      <3>. QED
        BY <1>6, <3>1, <3>2, <3>3
    <2>2. CASE n # r.name
      <3>1. svc'[n] = svc[n]
        BY <1>1, <1>3, <1>5, <2>2, MarkState DEF IsOf
      <3>2. p # r.pid
        BY <1>3, <1>6, <2>2 DEF Unwaited, IsOf
      <3>. QED
        BY <1>3, <1>6, <3>1, <3>2 DEF PidIsCurrent, TableIsCurrent
    <2>. QED
      BY <2>1, <2>2
  <1>. QED
    BY <1>2, <1>4, <1>6
       DEF PidIsCurrent, FreshIsThere, TableIsCurrent, VictimIsCurrent, Fresh

\* Nothing else makes a pid in the table, or that of a victim, a stale one.
LEMMA StepIsCurrent ==
    ASSUME TypeOK, PidIsItsOwn, OneLife, PidIsCurrent, Aside \/ Main
    PROVE  PidIsCurrent'
  <1>. USE DEF PidIsCurrent, FreshIsThere, TableIsCurrent, VictimIsCurrent, Fresh
  <1>1. \A r \in cur : Fresh => r.pid \in Pid
    BY DEF PidIsItsOwn, MainOwned, MainHoldsPid, IsOf
  <1>2. CASE Aside
    <2>1. \A n : Unwaited(n)' = Unwaited(n)
      BY <1>2, SameUnwaited DEF Aside
    <2>. QED
      BY <1>1, <1>2, <2>1 DEF Aside, NobodyMoves
  <1>3. CASE Main /\ ~TaskFork /\ ~TaskMark
    <2>1. \A n \in Service : Unwaited(n)' \subseteq Unwaited(n)
      <3>1. CASE NobodyMoves
        BY <3>1, SameUnwaited
      <3>2. CASE ReapOne
        BY <3>2 DEF ReapOne, WaitPid, Unwaited, IsOf, TypeOK, KernelTypeOK
      <3>3. CASE UNCHANGED kernelVars
        BY <3>3 DEF kernelVars, Unwaited, IsOf
      <3>. QED
        BY <1>3, <3>1, <3>2, <3>3, MainKinds
           DEF MainElsewhere, HandleExited, HandleFailed, MaybeRestart, TaskWake
    <2>2. \A n \in Service : svc'[n].pid \in {svc[n].pid, NoPid}
      BY <1>3, MainPids
    <2>3. CASE TaskPush
      <3>1. /\ UNCHANGED <<kernelVars, cur>>
            /\ mpc = "taskPush" /\ mpc' = "taskMark"
        BY <2>3 DEF TaskPush, Goto, mainLocals
      <3>. QED
        BY <2>1, <2>2, <3>1 DEF kernelVars
    <2>4. CASE ~TaskPush
      <3>1. ~Fresh /\ ~Fresh'
        BY <1>3, <2>4, MainKinds
           DEF Main, MainNext, ProcessReapedChildren, ReapCheck,
           ReapSnapshot, ReapOne, ReapDone, HandleExited, HandleFailed,
           HandleUntrack, MaybeRestart, HandleDone, AfterReaping,
           ResetCounters, ReloadServices, ReloadCheck, ReloadRemove,
           ReloadTerm, ReloadWait, ReloadUntrack, ReloadFinish, RestartTasks,
           TaskWake, ShutdownGraceful, ShutdownCheck, StopBegin, StopSnapshot,
           StopSignal, StopSignalled, DrainDeadline, KillSnapshot, KillEach,
           Reboot, Goto
      <3>2. TableIsCurrent'
        BY <2>1, <2>2, <3>1
      <3>3. VictimIsCurrent'
        <4>1. CASE ReloadRemove
          <5>1. PICK n \in known \ incoming :
                  \/ UNCHANGED mpc
                  \/ /\ cur' = {[name |-> n, pid |-> svc[n].pid,
                                 status |-> "-"]}
                     /\ svc[n].pid # NoPid
            BY <4>1 DEF ReloadRemove
          <5>2. mpc = "reloadNext" /\ UNCHANGED kernelVars /\ n \in Service
            BY <4>1 DEF ReloadRemove, TypeOK, TableTypeOK
          <5>. QED
            BY <2>1, <3>1, <5>1, <5>2
        <4>2. CASE ReloadTerm \/ ReloadWait
          <5>1. /\ mpc \in {"reloadTerm", "reloadWait"}
                /\ UNCHANGED cur
            BY <4>2 DEF ReloadTerm, ReloadWait, mainLocals
          <5>2. \A r \in cur : r.name \in Service
            BY DEF TypeOK, MainTypeOK, Result
          <5>. QED
            BY <2>1, <5>1, <5>2
        <4>3. CASE mpc' \notin {"reloadTerm", "reloadWait", "reloadUntrack"}
          BY <4>3
        <4>. QED
          BY <1>3, <4>1, <4>2, <4>3
             DEF Main, MainNext, ProcessReapedChildren, ReapCheck,
             ReapSnapshot, ReapOne, ReapDone, HandleExited, HandleFailed,
             HandleUntrack, MaybeRestart, HandleDone, AfterReaping,
             ResetCounters, ReloadServices, ReloadCheck, ReloadUntrack,
             ReloadFinish, RestartTasks, TaskWake, TaskPush, ShutdownGraceful,
             ShutdownCheck, StopBegin, StopSnapshot, StopSignal,
             StopSignalled, DrainDeadline, KillSnapshot, KillEach, Reboot,
             Goto
      <3>. QED
        BY <3>1, <3>2, <3>3
    <2>. QED
      BY <2>3, <2>4
  <1>. QED
    BY <1>2, <1>3, ForkIsCurrent, MarkIsCurrent

-----------------------------------------------------------------------------
(***************************************************************************)
(* What is alive is tracked.                                               *)
(***************************************************************************)
Tracked(p) == \E c \in children : c[2] = p
TrackedOrForked ==
    \A p \in Pid : Alive(p) =>
        Tracked(p) \/ (mpc = "taskPush" /\ \E r \in cur : r.pid = p)

\* The entries of a name go, and none of them is of a live process.
LEMMA UntrackKeepsLive ==
    ASSUME PidIsItsOwn, NEW n, children' = Retained(n), NEW p \in Pid,
           Tracked(p), Alive(p) => p \notin Unwaited(n)
    PROVE  Alive(p) => Tracked(p)'
  <1>1. PICK c \in children : c[2] = p
    BY DEF Tracked
  <1>2. IsOf(p, c[1])
    BY <1>1 DEF PidIsItsOwn, ChildrenOwned
  <1>. QED
    BY <1>1, <1>2 DEF Tracked, Retained, Unwaited, Alive

\* Every step of the main thread keeps track.
LEMMA MainTracks ==
    ASSUME TypeOK, PidIsItsOwn, TerminatedIsDead, OneLife, PidIsCurrent,
           TrackedOrForked, Main
    PROVE  TrackedOrForked'
  <1>. SUFFICES ASSUME NEW p \in Pid, Alive(p)'
                PROVE  \/ Tracked(p)'
                       \/ mpc' = "taskPush" /\ \E r \in cur' : r.pid = p
    BY DEF TrackedOrForked
  <1>. USE DEF TypeOK, MainTypeOK, Result
  <1>1. CASE TaskFork
    <2>1. mpc = "taskFork" /\ UNCHANGED children
      BY <1>1 DEF TaskFork
    <2>2. CASE Alive(p)
      BY <2>1, <2>2 DEF TrackedOrForked, Tracked
    <2>3. CASE ~Alive(p)
      <3>1. PICK r \in cur, q \in Pid :
              /\ Fork(r.name, q)
              /\ cur' = {[r EXCEPT !.pid = q]}
              /\ mpc' = "taskPush"
        BY <1>1, <2>3 DEF TaskFork, Goto, kernelVars, Alive
      <3>2. p = q
        BY <2>3, <3>1, ForkUnwaited
      <3>3. [r EXCEPT !.pid = q].pid = q
        OBVIOUS
      <3>. QED
        BY <3>1, <3>2, <3>3
    <2>. QED
      BY <2>2, <2>3
  <1>2. CASE ~TaskFork
    <2>1. Alive(p)
      <3>1. CASE ReapOne
        BY <3>1 DEF ReapOne, WaitPid, KernelTypeOK, Alive
      <3>2. CASE UNCHANGED kernelVars
        BY <3>2 DEF kernelVars, Alive
      <3>3. CASE NobodyMoves
        BY <3>3 DEF NobodyMoves
      <3>. QED
        BY <1>2, <3>1, <3>2, <3>3, MainKinds
           DEF HandleExited, HandleFailed, MaybeRestart, TaskWake, MainElsewhere
    <2>2. CASE TaskPush
      <3>1. PICK r \in cur : children' = children \union {<<r.name, r.pid>>}
        BY <2>2 DEF TaskPush
      <3>2. \A s \in cur : s = r
        OBVIOUS
      <3>3. <<r.name, r.pid>> \in children' /\ <<r.name, r.pid>>[2] = r.pid
        BY <3>1
      <3>. QED
        BY <2>1, <3>1, <3>2, <3>3 DEF TrackedOrForked, Tracked
    <2>3. CASE ~TaskPush
      <3>1. mpc # "taskPush"
        BY <1>2, <2>3
           DEF Main, MainNext, ProcessReapedChildren, ReapCheck, ReapSnapshot,
           ReapOne, ReapDone, HandleExited, HandleFailed, HandleUntrack,
           MaybeRestart, HandleDone, ResetCounters, ReloadServices,
           ReloadCheck, ReloadRemove, ReloadTerm, ReloadWait, ReloadUntrack,
           ReloadFinish, RestartTasks, TaskWake, TaskMark, ShutdownGraceful,
           ShutdownCheck, StopBegin, StopSnapshot, StopSignal, StopSignalled,
           DrainDeadline, KillSnapshot, KillEach, Reboot
      <3>2. Tracked(p)
        BY <2>1, <3>1 DEF TrackedOrForked
      <3>3. CASE HandleExited
        <4>1. PICK r \in reaped : children' = Retained(r.name)
          BY <3>3 DEF HandleExited
        <4>2. Unwaited(r.name) = {}
          BY DEF OneLife, LifeOf, HasResult
        <4>. QED
          BY <2>1, <3>2, <4>1, <4>2, UntrackKeepsLive
      <3>4. CASE HandleUntrack
        <4>1. PICK r \in cur : children' = Retained(r.name)
          BY <3>4 DEF HandleUntrack
        <4>2. InHand(r.name)
          BY <3>4 DEF HandleUntrack, InHand
        <4>3. Unwaited(r.name) = {}
          BY <4>2 DEF OneLife, LifeOf
        <4>. QED
          BY <2>1, <3>2, <4>1, <4>3, UntrackKeepsLive
      <3>5. CASE ReloadUntrack
        <4>1. PICK r \in cur : children' = Retained(r.name)
          BY <3>5 DEF ReloadUntrack
        <4>2. ~Alive(r.pid) /\ \A q \in Unwaited(r.name) : q = r.pid
          BY <3>5 DEF ReloadUntrack, TerminatedIsDead, PidIsCurrent,
             VictimIsCurrent
        <4>3. Alive(p) => p \notin Unwaited(r.name)
          BY <4>2
        <4>. QED
          BY <2>1, <3>2, <4>1, <4>3, UntrackKeepsLive
      <3>6. CASE UNCHANGED children
        BY <3>2, <3>6 DEF Tracked
      <3>. QED
        BY <1>2, <2>3, <3>3, <3>4, <3>5, <3>6
           DEF Main, MainNext, ProcessReapedChildren, ReapCheck, ReapSnapshot,
           ReapOne, ReapDone, HandleFailed,
           MaybeRestart, HandleDone, ResetCounters, ReloadServices,
           ReloadCheck, ReloadRemove, ReloadTerm, ReloadWait,
           ReloadFinish, RestartTasks, TaskWake, TaskMark, ShutdownGraceful,
           ShutdownCheck, StopBegin, StopSnapshot, StopSignal, StopSignalled,
           DrainDeadline, KillSnapshot, KillEach, Reboot
    <2>. QED
      BY <2>2, <2>3
  <1>. QED
    BY <1>1, <1>2

\* So does every step aside.
LEMMA StepTracks ==
    ASSUME TypeOK, PidIsItsOwn, TerminatedIsDead, OneLife, PidIsCurrent,
           TrackedOrForked, Aside \/ Main
    PROVE  TrackedOrForked'
  <1>1. CASE Aside
    BY <1>1 DEF Aside, NobodyMoves, TrackedOrForked, Tracked
  <1>. QED
    BY <1>1, MainTracks

\* What the machine leaves alive when it goes down is what the last kills
\* left: nothing.
HaltOK == VictimsListed /\ HaltLeavesNothingAlive

\* Each kill is of the process it names, and no process comes meanwhile.
LEMMA StepHalts ==
    ASSUME TypeOK, PidIsItsOwn, TrackedOrForked, HaltOK,
           Aside \/ (Main /\ mpc # "halted")
    PROVE  HaltOK'
  <1>. USE DEF HaltOK, VictimsListed, HaltLeavesNothingAlive
  <1>1. CASE Aside
    BY <1>1 DEF Aside, NobodyMoves
  <1>2. CASE Main /\ mpc # "halted"
    <2>1. CASE KillSnapshot
      BY <2>1 DEF KillSnapshot, Goto, TrackedOrForked, Tracked, kernelVars,
         Alive
    <2>2. CASE KillEach
      <3>1. PICK c \in snapshot :
              /\ IF Alive(c[2]) THEN KillNow(c[2]) ELSE UNCHANGED kernelVars
              /\ snapshot' = snapshot \ {c}
        BY <2>2 DEF KillEach
      <3>2. mpc = "killEach" /\ mpc' = "killEach" /\ c[2] \in Pid
        BY <2>2 DEF KillEach, TypeOK, MainTypeOK
      <3>3. ~Alive(c[2])'
        BY <3>1, <3>2 DEF KillNow, kernelVars, Alive
      <3>4. \A p \in Pid : Alive(p)' => Alive(p)
        <4>1. UNCHANGED kernelVars \/ KillNow(c[2])
          BY <3>1
        <4>. QED
          BY <3>2, <4>1, KillMovesNobody DEF TypeOK, NobodyMoves
      <3>5. ASSUME NEW p \in Pid, Alive(p)'
            PROVE  \E d \in snapshot' : d[2] = p
        <4>1. PICK d \in snapshot : d[2] = p
          BY <3>2, <3>4, <3>5
        <4>2. d # c
          BY <3>3, <3>5, <4>1
        <4>. QED
          BY <3>1, <4>1, <4>2
      <3>. QED
        BY <3>2, <3>5
    <2>3. CASE Reboot
      BY <2>3 DEF Reboot, Goto, kernelVars, Alive
    <2>4. CASE mpc' \notin {"killEach", "halted"}
      BY <2>4
    <2>. QED
      BY <1>2, <2>1, <2>2, <2>3, <2>4
         DEF Main, MainNext, ProcessReapedChildren, ReapCheck, ReapSnapshot,
         ReapOne, ReapDone, HandleExited, HandleFailed, HandleUntrack,
         MaybeRestart, HandleDone, AfterReaping, ResetCounters,
         ReloadServices, ReloadCheck, ReloadRemove, ReloadTerm, ReloadWait,
         ReloadUntrack, ReloadFinish, RestartTasks, TaskWake, TaskFork,
         TaskPush, TaskMark, ShutdownGraceful, ShutdownCheck, StopBegin,
         StopSnapshot, StopSignal, StopSignalled, DrainDeadline, Goto,
         TypeOK, MainTypeOK, MainPC
  <1>. QED
    BY <1>1, <1>2

-----------------------------------------------------------------------------
(***************************************************************************)
(* The inductive invariant, and what it says.                              *)
(***************************************************************************)
TrackingInv ==
    /\ TypeOK /\ PidIsItsOwn /\ TerminatedIsDead /\ QuietClients
    /\ OneLife /\ PidIsCurrent /\ TrackedOrForked /\ HaltOK

\* Boot leaves at most one process of a service, which is the one it tracks
\* and the table has.
LEMMA TrackingInitInv ==
    Init => TrackingInv
  <1>. SUFFICES ASSUME Init PROVE TrackingInv
    OBVIOUS
  <1>1. PICK up \in BootOutcome :
          \E pidOf \in Injection(up, {p \in Pid : p <= Cardinality(up)}) :
             AfterBoot(up, pidOf)
    BY DEF Init
  <1>2. PICK pidOf \in Injection(up, {p \in Pid : p <= Cardinality(up)}) :
          AfterBoot(up, pidOf)
    BY <1>1
  <1>3. /\ up \subseteq Service
        /\ pidOf \in [up -> Pid]
        /\ \A m, n \in up : pidOf[m] = pidOf[n] => m = n
    BY BootOutcomeAssumption DEF Injection, IsInjective
  <1>4. \A n : \A p \in Unwaited(n) : n \in up /\ pidOf[n] = p
    BY <1>2 DEF AfterBoot, Unwaited, IsOf
  <1>5. OneLife
    <2>1. mpc = "await" /\ reaped = {} /\ \A n \in Service : tasks[n] = 0
      BY DEF Init
    <2>2. \A n : \A p, q \in Unwaited(n) : p = q
      BY <1>4
    <2>3. \A n : ~HasResult(n) /\ ~InHand(n)
      BY <2>1 DEF HasResult, InHand
    <2>4. ASSUME NEW n \in Service
          PROVE  LifeOf(n)
      <3>1. tasks[n] = 0 /\ tasks[n] <= 1 /\ reaped = {}
        BY <2>1
      <3>. QED
        BY <2>2, <2>3, <3>1, Zenon DEF LifeOf
    <2>. QED
      BY <2>4 DEF OneLife
  <1>6. \A n \in up : svc[n].pid = pidOf[n]
    BY <1>2, <1>3 DEF AfterBoot, FromConfig
  <1>7. PidIsCurrent
    BY <1>4, <1>6 DEF Init, PidIsCurrent, FreshIsThere, TableIsCurrent,
       VictimIsCurrent, Fresh
  <1>8. TrackedOrForked
    <2>1. ASSUME NEW p \in Pid, Alive(p)
          PROVE  Tracked(p)
      <3>1. PICK n \in up : pidOf[n] = p
        BY <1>2, <2>1 DEF AfterBoot, Alive
      <3>2. <<n, pidOf[n]>> \in children /\ <<n, pidOf[n]>>[2] = p
        BY <1>2, <3>1 DEF AfterBoot
      <3>. QED
        BY <3>2 DEF Tracked
    <2>. QED
      BY <2>1 DEF TrackedOrForked
  <1>9. HaltOK /\ QuietClients /\ TerminatedIsDead
    BY DEF Init, HaltOK, VictimsListed, HaltLeavesNothingAlive, QuietClients,
       TerminatedIsDead, At, Closed
  <1>. QED
    BY <1>5, <1>7, <1>8, <1>9, InitOwned DEF TrackingInv

\* Each step keeps it: of a client one that changes nothing, or of the main
\* thread.
LEMMA TrackingStepInv ==
    ASSUME Operation \subseteq {"Shutdown", "Reboot"}
    PROVE  TrackingInv /\ [Next]_vars => TrackingInv'
  <1>. SUFFICES ASSUME TrackingInv, [Next]_vars PROVE TrackingInv'
    OBVIOUS
  <1>. USE DEF TrackingInv
  <1>1. TypeOK' /\ PidIsItsOwn' /\ TerminatedIsDead'
    BY StepType, StepOwned, StepTerminated
  <1>2. QuietClients' /\ (Aside \/ (Main /\ mpc # "halted"))
    BY QuietStep
  <1>3. OneLife' /\ PidIsCurrent' /\ TrackedOrForked' /\ HaltOK'
    BY <1>2, StepKeepsLife, StepIsCurrent, StepTracks, StepHalts
  <1>. QED
    BY <1>1, <1>2, <1>3

\* So it holds.
LEMMA TrackingInvHolds ==
    ASSUME Operation \subseteq {"Shutdown", "Reboot"}
    PROVE  Spec => []TrackingInv
  BY TrackingInitInv, TrackingStepInv, PTL DEF Spec

\* PID 1 knows every process of a service that is alive (invariant
\* LiveIsTracked): it is in RUNNING_CHILDREN, or the restart task that forked
\* it is about to enter it.
THEOREM EveryLiveIsTracked ==
    ASSUME Operation \subseteq {"Shutdown", "Reboot"}
    PROVE  Spec => []LiveIsTracked
  <1>1. TrackingInv => LiveIsTracked
    BY DEF TrackingInv, TrackedOrForked, Tracked, LiveIsTracked, InTransit
  <1>. QED
    BY <1>1, TrackingInvHolds, PTL

\* When PID 1 reaches reboot(2) no service is alive (invariant
\* HaltLeavesNothingAlive), whatever died, was restarted or was reloaded
\* while it shut down.
THEOREM NothingOutlivesTheHalt ==
    ASSUME Operation \subseteq {"Shutdown", "Reboot"}
    PROVE  Spec => []HaltLeavesNothingAlive
  <1>1. TrackingInv => HaltLeavesNothingAlive
    BY DEF TrackingInv, HaltOK
  <1>. QED
    BY <1>1, TrackingInvHolds, PTL

\* A service with one life has one process at most.
LEMMA TrackingHasOneInstance ==
    TrackingInv => OneInstance
  <1>. SUFFICES ASSUME TrackingInv, NEW n \in Service
                PROVE  Cardinality(AliveInstances(n)) <= 1
    BY DEF OneInstance
  <1>1. \A p, q \in AliveInstances(n) : p = q
    BY DEF TrackingInv, OneLife, LifeOf, AliveInstances, Unwaited, IsOf, Alive
  <1>. QED
    BY <1>1, AtMostOne

\* No two processes of a service are alive (invariant OneInstance): neither
\* automatic restarts, nor a reload that removes a service whose restart
\* sleeps, nor one that puts it back, start a second one.
THEOREM OneInstanceSupervised ==
    ASSUME Operation \subseteq {"Shutdown", "Reboot"}
    PROVE  Spec => []OneInstance
  BY TrackingHasOneInstance, TrackingInvHolds, PTL

-----------------------------------------------------------------------------
(***************************************************************************)
(* A death is not only waited for, it is taken over into the table.  What  *)
(* the table has of a service is in RUNNING_CHILDREN as long as nobody has *)
(* waited for it, and a pass of waitpid looks at a copy that has all.      *)
(***************************************************************************)
TableIsTracked ==
    \A n \in Service :
        svc[n].pid # NoPid /\ proc[svc[n].pid] # "reaped" =>
            <<n, svc[n].pid>> \in children
MarkedIsTracked ==
    mpc = "taskMark" => \A r \in cur : <<r.name, r.pid>> \in children
PassHasAll == mpc = "waitpid" => children \subseteq snapshot
PassesCount == TableIsTracked /\ MarkedIsTracked /\ PassHasAll

\* A process that was waited for does not come back.
LEMMA NobodyReturns ==
    ASSUME TypeOK, PidIsItsOwn, Aside \/ Main, NEW p \in Pid, proc[p] = "reaped"
    PROVE  proc'[p] = "reaped"
  <1>. USE DEF TypeOK, KernelTypeOK
  <1>1. CASE NobodyMoves \/ UNCHANGED kernelVars
    BY <1>1 DEF NobodyMoves, kernelVars
  <1>2. CASE ReapOne
    BY <1>2 DEF ReapOne, WaitPid
  <1>3. CASE TaskFork
    BY <1>3 DEF TaskFork, Fork, kernelVars
  <1>. QED
    BY <1>1, <1>2, <1>3, MainKinds
       DEF Aside, MainElsewhere, HandleExited, HandleFailed, MaybeRestart,
           TaskWake

\* The entries of a name go: not those of another service, and of its own
\* only when its process was waited for.
LEMMA UntrackKeepsTable ==
    ASSUME NEW m, NEW n, NEW p \in Pid, IsOf(p, n), <<n, p>> \in children,
           children' = Retained(m), Unwaited(m) = {}, proc[p] # "reaped"
    PROVE  <<n, p>> \in children'
  <1>1. n # m
    BY DEF Unwaited
  <1>. QED
    BY <1>1 DEF Retained

\* Every step of the main thread keeps what the table has among the children.
LEMMA MainKeepsTable ==
    ASSUME TypeOK, PidIsItsOwn, OneLife, PassesCount, Main
    PROVE  TableIsTracked'
  <1>. USE DEF TypeOK, MainTypeOK, Result
  <1>. SUFFICES ASSUME NEW n \in Service, svc'[n].pid # NoPid,
                       proc'[svc'[n].pid] # "reaped"
                PROVE  <<n, svc'[n].pid>> \in children'
    BY DEF TableIsTracked
  <1>1. CASE TaskMark
    <2>1. PICK r \in cur : svc' = MarkRunning(r.name, r.pid)
      BY <1>1 DEF TaskMark
    <2>2. /\ mpc = "taskMark" /\ UNCHANGED <<kernelVars, children>>
      BY <1>1 DEF TaskMark
    <2>3. r.name \in Service /\ <<r.name, r.pid>> \in children /\ TableRecords
      BY <2>2 DEF PassesCount, MarkedIsTracked, TableTypeOK, TableRecords
    <2>4. IsOf(r.pid, r.name)
      BY <2>2 DEF PidIsItsOwn, MainOwned, MainHoldsPid
    <2>5. CASE n = r.name
      <3>1. svc'[n].pid \in {r.pid, NoPid}
        BY <2>1, <2>3, <2>5
           DEF MarkRunning, Updated, TableRecords, ServiceRecord, FromConfig
      <3>. QED
        BY <2>2, <2>3, <2>5, <3>1
    <2>6. CASE n # r.name
      <3>1. svc'[n] = svc[n]
        BY <2>1, <2>3, <2>4, <2>6, MarkState DEF IsOf
      <3>. QED
        BY <2>2, <3>1 DEF PassesCount, TableIsTracked, kernelVars
    <2>. QED
      BY <2>5, <2>6
  <1>2. CASE ~TaskMark
    <2>1. svc'[n].pid = svc[n].pid /\ IsOf(svc[n].pid, n)
      BY <1>2, MainPids DEF PidIsItsOwn, TableOwned
    <2>2. svc[n].pid \in Pid /\ proc[svc[n].pid] # "reaped"
      BY <2>1, NobodyReturns DEF IsOf
    <2>3. <<n, svc[n].pid>> \in children
      BY <2>1, <2>2 DEF PassesCount, TableIsTracked
    <2>4. CASE HandleExited
      <3>1. PICK r \in reaped : children' = Retained(r.name)
        BY <2>4 DEF HandleExited
      <3>2. Unwaited(r.name) = {}
        BY DEF OneLife, LifeOf, HasResult
      <3>. QED
        BY <2>1, <2>2, <2>3, <3>1, <3>2, UntrackKeepsTable
    <2>5. CASE HandleUntrack
      <3>1. PICK r \in cur : children' = Retained(r.name)
        BY <2>5 DEF HandleUntrack
      <3>2. InHand(r.name)
        BY <2>5 DEF HandleUntrack, InHand
      <3>3. Unwaited(r.name) = {}
        BY <3>2 DEF OneLife, LifeOf
      <3>. QED
        BY <2>1, <2>2, <2>3, <3>1, <3>3, UntrackKeepsTable
    <2>6. CASE ReloadUntrack
      <3>1. PICK r \in cur :
              /\ children' = Retained(r.name)
              /\ svc' = [svc EXCEPT ![r.name] = FromConfig]
        BY <2>6 DEF ReloadUntrack
      <3>2. n # r.name
        BY <3>1 DEF TableTypeOK, FromConfig
      <3>. QED
        BY <2>1, <2>3, <3>1, <3>2 DEF Retained
    <2>7. CASE TaskPush
      BY <2>1, <2>3, <2>7 DEF TaskPush
    <2>8. CASE UNCHANGED children
      BY <2>1, <2>3, <2>8
    <2>. QED
      BY <1>2, <2>4, <2>5, <2>6, <2>7, <2>8
         DEF Main, MainNext, ProcessReapedChildren, ReapCheck, ReapSnapshot,
         ReapOne, ReapDone, HandleFailed, MaybeRestart, HandleDone,
         ResetCounters, ReloadServices, ReloadCheck, ReloadRemove, ReloadTerm,
         ReloadWait, ReloadFinish, RestartTasks, TaskWake, TaskFork,
         ShutdownGraceful, ShutdownCheck, StopBegin, StopSnapshot, StopSignal,
         StopSignalled, DrainDeadline, KillSnapshot, KillEach, Reboot
  <1>. QED
    BY <1>1, <1>2

\* It marks what it has pushed, and waits with the copy it has made.
LEMMA MainKeepsCopy ==
    ASSUME TypeOK, PassesCount, Main
    PROVE  MarkedIsTracked' /\ PassHasAll'
  <1>. USE DEF PassesCount, MarkedIsTracked, PassHasAll
  <1>1. CASE TaskPush
    <2>1. PICK r \in cur : children' = children \union {<<r.name, r.pid>>}
      BY <1>1 DEF TaskPush
    <2>2. \A s \in cur : s = r
      BY DEF TypeOK, MainTypeOK
    <2>3. UNCHANGED cur /\ mpc' = "taskMark"
      BY <1>1 DEF TaskPush, Goto, mainLocals
    <2>. QED
      BY <2>1, <2>2, <2>3
  <1>2. CASE ReapSnapshot
    BY <1>2 DEF ReapSnapshot, Goto
  <1>3. CASE ReapOne
    BY <1>3 DEF ReapOne
  <1>4. CASE mpc' \notin {"taskMark", "waitpid"}
    BY <1>4
  <1>5. CASE ReloadWait \/ KillEach \/ StopSignal \/ ReloadRemove
    BY <1>5 DEF ReloadWait, KillEach, StopSignal, ReloadRemove, Goto
  <1>. QED
    BY <1>1, <1>2, <1>3, <1>4, <1>5
       DEF Main, MainNext, ProcessReapedChildren, ReapCheck, ReapDone,
       HandleExited, HandleFailed, HandleUntrack, MaybeRestart, HandleDone,
       AfterReaping, ResetCounters, ReloadServices, ReloadCheck, ReloadTerm,
       ReloadUntrack, ReloadFinish, RestartTasks, TaskWake, TaskFork,
       TaskMark, ShutdownGraceful, ShutdownCheck, StopBegin, StopSnapshot,
       StopSignalled, DrainDeadline, KillSnapshot, Reboot, Goto

\* So does every step aside.
LEMMA StepCounts ==
    ASSUME TypeOK, PidIsItsOwn, OneLife, PassesCount, Aside \/ Main
    PROVE  PassesCount'
  <1>1. CASE Aside
    <2>1. \A n \in Service : svc[n].pid # NoPid => svc[n].pid \in Pid
      BY DEF PidIsItsOwn, TableOwned, IsOf
    <2>. QED
      BY <1>1, <2>1 DEF Aside, NobodyMoves, PassesCount, TableIsTracked,
         MarkedIsTracked, PassHasAll
  <1>2. CASE Main
    BY <1>2, MainKeepsTable, MainKeepsCopy DEF PassesCount
  <1>. QED
    BY <1>1, <1>2

\* What process_reaped_children does of a process the table has.  waitpid
\* turns its death into a result, and no result of a crash is dropped: its
\* service is marked Failed.
TakesOver ==
    \A n \in Service, p \in Pid : svc[n].pid = p =>
        /\ proc[p] # "reaped" /\ proc'[p] = "reaped" =>
             [name |-> n, pid |-> p, status |-> proc[p]] \in reaped'
        /\ \A r \in reaped \ reaped' :
             r.name = n /\ r.pid = p /\ r.status = "crashed" =>
                 svc'[n].state = "Failed"

\* A process of the table is not an orphan when it is waited for.
LEMMA DeathsHaveResults ==
    ASSUME TypeOK, PidIsItsOwn, PassesCount, Aside \/ Main,
           NEW n \in Service, NEW p \in Pid, svc[n].pid = p,
           proc[p] # "reaped", proc'[p] = "reaped"
    PROVE  [name |-> n, pid |-> p, status |-> proc[p]] \in reaped'
  <1>. USE DEF TypeOK, KernelTypeOK
  <1>1. ReapOne
    <2>1. ~NobodyMoves /\ ~UNCHANGED kernelVars
      BY DEF NobodyMoves, kernelVars
    <2>2. ~TaskFork
      <3>1. SUFFICES ASSUME NEW m, NEW q \in Pid, Fork(m, q)
                     PROVE  FALSE
        BY <2>1 DEF TaskFork
      <3>. QED
        BY <3>1 DEF Fork
    <2>. QED
      BY <2>1, <2>2, MainKinds DEF Aside, MainElsewhere, HandleExited,
         HandleFailed, MaybeRestart, TaskWake
  <1>2. PICK q \in Pid :
          /\ WaitPid(q)
          /\ reaped' = reaped \union
               {[name |-> c[1], pid |-> q, status |-> proc[q]] :
                    c \in {e \in snapshot : e[2] = q}}
    BY <1>1 DEF ReapOne
  <1>3. q = p
    BY <1>2 DEF WaitPid
  <1>4. p # NoPid
    BY DEF Pid, NoPid
  <1>5. <<n, p>> \in snapshot
    BY <1>1, <1>4 DEF ReapOne, PassesCount, TableIsTracked, PassHasAll
  <1>6. <<n, p>> \in {e \in snapshot : e[2] = q}
         /\ <<n, p>>[1] = n
    BY <1>3, <1>5
  <1>. QED
    BY <1>2, <1>3, <1>6

\* A result goes only when it is handled, and that of a crash marks the service.
LEMMA ResultsAreHandled ==
    ASSUME TypeOK, PidIsItsOwn, Aside \/ Main,
           NEW n \in Service, svc[n].pid \in Pid,
           NEW r \in reaped \ reaped', r.name = n, r.status = "crashed"
    PROVE  svc'[n].state = "Failed"
  <1>1. HandleExited \/ HandleFailed
    BY MainKinds DEF Aside, MainElsewhere, ReapOne, MaybeRestart, TaskWake,
       TaskFork
  <1>2. HandleFailed
    BY <1>1 DEF HandleExited
  <1>3. svc' = MarkFailed(n)
    BY <1>2 DEF HandleFailed
  <1>4. n \in known
    BY DEF TypeOK, FromConfig, Pid, NoPid
  <1>. QED
    BY <1>3, <1>4 DEF MarkFailed, Updated, TypeOK, TableTypeOK, ServiceRecord

\* What boot leaves in the table is tracked.
LEMMA PassesCountAtFirst ==
    Init => PassesCount
  <1>. SUFFICES ASSUME Init PROVE PassesCount
    OBVIOUS
  <1>1. PICK up \in BootOutcome :
          \E pidOf \in Injection(up, {p \in Pid : p <= Cardinality(up)}) :
             AfterBoot(up, pidOf)
    BY DEF Init
  <1>2. PICK pidOf \in Injection(up, {p \in Pid : p <= Cardinality(up)}) :
          AfterBoot(up, pidOf)
    BY <1>1
  <1>3. ASSUME NEW n \in Service, svc[n].pid # NoPid
        PROVE  n \in up /\ svc[n].pid = pidOf[n]
    BY <1>2, <1>3 DEF AfterBoot, FromConfig
  <1>4. TableIsTracked
    <2>1. \A n \in up : <<n, pidOf[n]>> \in children
      BY <1>2 DEF AfterBoot
    <2>. QED
      BY <1>3, <2>1 DEF TableIsTracked
  <1>. QED
    BY <1>4 DEF PassesCount, MarkedIsTracked, PassHasAll, Init

\* No crash of a service goes by unnoticed (what is safety in CrashReported):
\* a zombie always has a pass of waitpid before it (NoLostReap), the pass makes a
\* result of the death of any process in the table, never an orphan, and the
\* result of a crash leaves only by mark_failed.
THEOREM CrashesAreTakenOver ==
    ASSUME Operation \subseteq {"Shutdown", "Reboot"}
    PROVE  Spec => [][TakesOver]_vars
  <1>1. TrackingInv /\ PassesCount /\ [Next]_vars => PassesCount'
    BY QuietStep, StepCounts DEF TrackingInv
  <1>2. TrackingInv /\ PassesCount /\ [Next]_vars => [TakesOver]_vars
    <2>. SUFFICES ASSUME TrackingInv, PassesCount, [Next]_vars PROVE TakesOver
      OBVIOUS
    <2>1. /\ TypeOK /\ PidIsItsOwn /\ (Aside \/ Main)
      BY QuietStep DEF TrackingInv
    <2>. QED
      BY <2>1, DeathsHaveResults, ResultsAreHandled DEF TakesOver
  <1>. QED
    BY <1>1, <1>2, PassesCountAtFirst, TrackingInvHolds, PTL DEF Spec

-----------------------------------------------------------------------------
(***************************************************************************)
(* Two clients that start one service.  While the clients ask for nothing  *)
(* but Start and the main thread changes no service behind their backs,    *)
(* the state Starting is a lock: who has reserved a service is alone with  *)
(* it until it has entered the process it forked.                          *)
(***************************************************************************)
\* No shutdown, no automatic restart and no removal of a service.
Calm ==
    /\ known = Service /\ disk = Service
    /\ mpc = "reloadNext" => incoming = Service
    /\ ~shutdownRequested /\ ~halting
    /\ mpc \in {"await", "snapshot", "waitpid", "handle", "untrack", "policy",
                "counters", "reloadCheck", "reloadNext", "shutdownCheck"}
    /\ \A n \in Service : tasks[n] = 0
    /\ \A w \in Worker :
         conn[w].pc \in {"closed", "reading", "startReserve", "startFork",
                         "startMark", "startPush", "startFailed"}

\* Connection w has reserved n, and is not done with it.
Engaged(w, n) ==
    /\ n \in conn[w].name
    /\ conn[w].pc \in {"startFork", "startMark", "startPush", "startFailed"}
HasForked(w) == conn[w].pc \in {"startMark", "startPush"}
EngagedAlone ==
    \A n \in Service : \A v, w \in Worker :
        Engaged(v, n) /\ Engaged(w, n) => v = w

\* Its service has no process but the one it forked, which nobody tracks yet:
\* when that dies its result is nobody's.
EngagedOf(w, n) ==
    /\ svc[n].state = IF At(w, "startPush") THEN "Running" ELSE "Starting"
    /\ ~HasResult(n)
    /\ \A p \in Unwaited(n) : HasForked(w) /\ p = conn[w].pid
    /\ HasForked(w) => \A c \in children \union snapshot : c[2] # conn[w].pid
EngagedOwns ==
    \A n \in Service : \A w \in Worker : Engaged(w, n) => EngagedOf(w, n)

\* A service that may be started has no process and no result of one.
StartableIsGone ==
    \A n \in Service :
        svc[n].state \notin {"Running", "Starting"} =>
            Unwaited(n) = {} /\ ~HasResult(n)

OneProcess ==
    \A n \in Service :
        /\ \A p, q \in Unwaited(n) : p = q
        /\ \A r, s \in reaped : r.name = n /\ s.name = n => r = s
        /\ HasResult(n) => Unwaited(n) = {}

\* The hypotheses under which it holds, all of them constant.
StartsOnly ==
    /\ Operation \subseteq {"Start"}
    /\ \A n \in Service : Policy[n] = "Never"
    /\ Reloadable = {}
    /\ "SIGTERM" \notin Signals

\* What main thread and connections then do.
CalmMain ==
    \/ ReapCheck \/ ReapSnapshot \/ ReapOne \/ ReapDone \/ HandleExited
    \/ HandleFailed \/ HandleUntrack \/ MaybeRestart \/ HandleDone
    \/ ResetCounters \/ ReloadCheck \/ ReloadFinish \/ ShutdownCheck
CalmServer(w) ==
    \/ StartReserve(w) \/ StartFork(w) \/ StartMark(w) \/ StartPush(w)
    \/ StartFailed(w)

\* No restart task wakes, no reload removes a service and no shutdown begins.
LEMMA CalmMainSteps ==
    ASSUME TypeOK, Calm, Main
    PROVE  CalmMain
  BY DEF Main, MainNext, ProcessReapedChildren, ReloadServices, ReloadRemove,
     ReloadTerm, ReloadWait, ReloadUntrack, RestartTasks, TaskWake, TaskFork,
     TaskPush, TaskMark, ShutdownGraceful, StopBegin, StopSnapshot,
     StopSignal, StopSignalled, DrainDeadline, KillSnapshot, KillEach,
     Reboot, Calm, CalmMain, TypeOK, TableTypeOK, MainTypeOK

\* No connection stops anything.
LEMMA CalmServerSteps ==
    ASSUME Calm, NEW w \in Worker, Server(w)
    PROVE  CalmServer(w) /\ UNCHANGED mainVars
  BY DEF Server, Serve, StopFind, StopTerm, StopWait, StopUntrack, StopMark,
     StoreRebootCmd, RequestShutdown, At, Calm, CalmServer

\* Whoever takes a step, it stays calm.
LEMMA StepCalm ==
    ASSUME StartsOnly, TypeOK, Calm, [Next]_vars
    PROVE  Calm'
  <1>. USE DEF Calm
  <1>1. CASE UNCHANGED vars
    BY <1>1 DEF vars, dagVars, flagVars, mainVars, mainLocals, controlVars
  <1>2. ASSUME CalmMain, UNCHANGED controlVars
        PROVE  Calm'
    <2>1. UNCHANGED <<disk, conn, halting>>
      BY <1>2 DEF CalmMain, ReapCheck, ReapSnapshot, ReapOne, ReapDone,
         HandleExited, HandleFailed, HandleUntrack, MaybeRestart, HandleDone,
         ResetCounters, ReloadCheck, ReloadFinish, ShutdownCheck, mainLocals,
         controlVars
    <2>2. known' = Service /\ ~shutdownRequested'
      BY <1>2 DEF CalmMain, ReapCheck, ReapSnapshot, ReapOne, ReapDone,
         HandleExited, HandleFailed, HandleUntrack, MaybeRestart, HandleDone,
         ResetCounters, ReloadCheck, ReloadFinish, ShutdownCheck, dagVars,
         flagVars
    <2>3. UNCHANGED tasks
      <3>1. CASE MaybeRestart
        <4>1. \A r \in cur : r.name \in Service
          BY DEF TypeOK, MainTypeOK, Result
        <4>. QED
          BY <3>1, <4>1 DEF MaybeRestart, ShouldRestart, StartsOnly
      <3>. QED
        BY <1>2, <3>1 DEF CalmMain, ReapCheck, ReapSnapshot, ReapOne, ReapDone,
           HandleExited, HandleFailed, HandleUntrack, HandleDone,
           ResetCounters, ReloadCheck, ReloadFinish, ShutdownCheck
    <2>4. mpc' \in {"await", "snapshot", "waitpid", "handle", "untrack",
                    "policy", "counters", "reloadCheck", "reloadNext",
                    "shutdownCheck"}
          /\ (mpc' = "reloadNext" => incoming' = Service)
      BY <1>2 DEF CalmMain, ReapCheck, ReapSnapshot, ReapOne, ReapDone,
         HandleExited, HandleFailed, HandleUntrack, MaybeRestart, HandleDone,
         ResetCounters, ReloadCheck, ReloadFinish, ShutdownCheck, Goto,
         AfterReaping, mainLocals
    <2>. QED
      BY <2>1, <2>2, <2>3, <2>4
  <1>3. ASSUME NEW w \in Worker,
               \/ CalmServer(w)
               \/ Accept(w)
               \/ ReadRequest(w),
               UNCHANGED mainVars
        PROVE  Calm'
    <2>1. UNCHANGED <<known, shutdownRequested>>
      BY <1>3 DEF CalmServer, StartReserve, StartFork, StartMark, StartPush,
         StartFailed, Accept, ReadRequest, dagVars, flagVars
    <2>2. \A v \in Worker :
            conn'[v].pc \in {"closed", "reading", "startReserve", "startFork",
                             "startMark", "startPush", "startFailed"}
      <3>. USE DEF TypeOK, ControlTypeOK, Connection, Reply, Closed, To, ToWith
      <3>1. CASE CalmServer(w)
        BY <3>1 DEF CalmServer, StartReserve, StartFork, StartMark,
           StartPush, StartFailed
      <3>2. CASE Accept(w)
        BY <3>2 DEF Accept
      <3>3. CASE ReadRequest(w)
        BY <3>3 DEF ReadRequest, FirstStep, StartsOnly
      <3>. QED
        BY <1>3, <3>1, <3>2, <3>3
    <2>. QED
      BY <1>3, <2>1, <2>2 DEF mainVars, mainLocals
  <1>4. CASE Children \/ HandleSigchld \/ HandleSighup \/ HandleSigterm
             \/ EditFiles
    BY <1>4 DEF Children, HandleSigchld, HandleSighup, HandleSigterm,
       EditFiles, StartsOnly, dagVars, flagVars, mainVars, mainLocals,
       controlVars
  <1>. QED
    BY <1>1, <1>2, <1>3, <1>4, CalmMainSteps, CalmServerSteps
       DEF Next, On, Off, Clients, Main

StartsRight == EngagedAlone /\ EngagedOwns /\ StartableIsGone /\ OneProcess

\* A step that concerns no start: nobody is waited for, no service changes its
\* state, no entry comes that was not there and nobody is engaged by it.
Beside ==
    /\ NobodyMoves
    /\ UNCHANGED reaped
    /\ \A n \in Service : svc'[n].state = svc[n].state
    /\ children' \union snapshot' \subseteq children \union snapshot
    /\ \A w \in Worker :
         conn'[w] = conn[w] \/ \A n : ~Engaged(w, n) /\ ~Engaged(w, n)'

\* It keeps all.
LEMMA BesideKeeps ==
    ASSUME StartsRight, Beside
    PROVE  StartsRight'
  <1>. USE DEF StartsRight
  <1>1. \A n : Unwaited(n)' = Unwaited(n) /\ (HasResult(n)' <=> HasResult(n))
    BY SameUnwaited DEF Beside, HasResult
  <1>2. OneProcess' /\ StartableIsGone'
    BY <1>1 DEF OneProcess, StartableIsGone, Beside
  <1>3. \A w \in Worker : \A n : Engaged(w, n)' =>
          Engaged(w, n) /\ conn'[w] = conn[w]
    BY DEF Beside, Engaged
  <1>4. EngagedAlone'
    BY <1>3 DEF EngagedAlone
  <1>5. ASSUME NEW n \in Service, NEW w \in Worker, Engaged(w, n)'
        PROVE  EngagedOf(w, n)'
    <2>1. EngagedOf(w, n) /\ conn'[w] = conn[w]
      BY <1>3, <1>5 DEF EngagedOwns
    <2>. QED
      BY <1>1, <2>1 DEF EngagedOf, HasForked, At, Beside
  <1>. QED
    BY <1>2, <1>4, <1>5 DEF EngagedOwns

\* The result of a process is that of a service nobody is engaged with.
LEMMA ReapStarts ==
    ASSUME TypeOK, PidIsItsOwn, StartsRight, ReapOne, UNCHANGED controlVars
    PROVE  StartsRight'
  <1>. USE DEF TypeOK, KernelTypeOK, StartsRight
  <1>1. PICK p \in Pid :
          /\ WaitPid(p)
          /\ reaped' = reaped \union
               {[name |-> c[1], pid |-> p, status |-> proc[p]] :
                    c \in {e \in snapshot : e[2] = p}}
    BY DEF ReapOne
  <1>2. UNCHANGED <<svc, children, snapshot, conn>>
    BY DEF ReapOne, dagVars, controlVars
  <1>3. \A n : Unwaited(n)' = Unwaited(n) \ {p}
    BY <1>1 DEF WaitPid, Unwaited, IsOf
  <1>4. ASSUME NEW n \in Service
        PROVE  /\ \A r, s \in reaped' : r.name = n /\ s.name = n => r = s
               /\ HasResult(n)' => /\ Unwaited(n)' = {}
                                   /\ svc[n].state \in {"Running", "Starting"}
                                   /\ \A w \in Worker : ~Engaged(w, n)
    <2>1. CASE \E c \in snapshot : c[2] = p /\ c[1] = n
      <3>1. PICK c \in snapshot : c[2] = p /\ c[1] = n
        BY <2>1
      <3>2. p \in Unwaited(n)
        BY <1>1, <3>1 DEF PidIsItsOwn, ChildrenOwned, IsOf, Unwaited, WaitPid,
           Zombie
      <3>3. Unwaited(n)' = {} /\ ~HasResult(n)
            /\ svc[n].state \in {"Running", "Starting"}
        BY <1>3, <3>2 DEF OneProcess, StartableIsGone
      <3>4. \A r \in reaped' : r.name = n =>
              r = [name |-> n, pid |-> p, status |-> proc[p]]
        BY <1>1, <3>3 DEF HasResult
      <3>5. \A w \in Worker : ~Engaged(w, n)
        BY <3>1, <3>2 DEF EngagedOwns, EngagedOf
      <3>. QED
        BY <3>3, <3>4, <3>5
    <2>2. CASE ~\E c \in snapshot : c[2] = p /\ c[1] = n
      <3>1. \A r \in reaped' : r.name = n => r \in reaped
        BY <1>1, <2>2
      <3>2. HasResult(n)' => HasResult(n)
        BY <3>1 DEF HasResult
      <3>3. HasResult(n) => /\ Unwaited(n) = {}
                            /\ svc[n].state \in {"Running", "Starting"}
                            /\ \A w \in Worker : ~Engaged(w, n)
        BY DEF OneProcess, StartableIsGone, EngagedOwns, EngagedOf
      <3>. QED
        BY <1>3, <3>1, <3>2, <3>3 DEF OneProcess
    <2>. QED
      BY <2>1, <2>2
  <1>5. OneProcess' /\ StartableIsGone'
    BY <1>2, <1>3, <1>4 DEF OneProcess, StartableIsGone
  <1>6. EngagedAlone'
    BY <1>2 DEF EngagedAlone, Engaged
  <1>7. ASSUME NEW n \in Service, NEW w \in Worker, Engaged(w, n)'
        PROVE  EngagedOf(w, n)'
    <2>1. EngagedOf(w, n) /\ Engaged(w, n)
      BY <1>2, <1>7 DEF EngagedOwns, Engaged
    <2>2. ~HasResult(n)'
      BY <1>4, <2>1
    <2>. QED
      BY <1>2, <1>3, <2>1, <2>2 DEF EngagedOf, HasForked, At
  <1>. QED
    BY <1>5, <1>6, <1>7 DEF EngagedOwns

\* When a result is handled, with mark_failed or without, the service is gone.
LEMMA HandleStarts ==
    ASSUME TypeOK, StartsRight, HandleExited \/ HandleFailed,
           UNCHANGED controlVars
    PROVE  StartsRight'
  <1>. USE DEF TypeOK, StartsRight
  <1>1. PICK r \in reaped :
          reaped' = reaped \ {r}
            /\ (UNCHANGED svc \/ svc' = MarkFailed(r.name))
    BY DEF HandleExited, HandleFailed, dagVars
  <1>2. /\ UNCHANGED <<kernelVars, snapshot, conn>>
        /\ children' \subseteq children
    BY DEF HandleExited, HandleFailed, Retained, controlVars
  <1>3. r.name \in Service /\ HasResult(r.name)
    BY DEF MainTypeOK, Result, HasResult
  <1>4. TableRecords
    BY DEF TableTypeOK, TableRecords
  <1>5. \A n \in Service \ {r.name} : svc'[n] = svc[n]
    BY <1>1, <1>3, <1>4, MarkState
  <1>6. \A n : Unwaited(n)' = Unwaited(n)
    BY <1>2 DEF kernelVars, Unwaited, IsOf
  <1>7. \A n \in Service : HasResult(n)' => HasResult(n) /\ n # r.name
    BY <1>1 DEF HasResult, OneProcess
  <1>8. Unwaited(r.name) = {} /\ ~HasResult(r.name)'
        /\ \A w \in Worker : ~Engaged(w, r.name)
    BY <1>3, <1>7 DEF OneProcess, EngagedOwns, EngagedOf
  <1>9. OneProcess' /\ StartableIsGone'
    BY <1>1, <1>5, <1>6, <1>7, <1>8 DEF OneProcess, StartableIsGone
  <1>10. EngagedAlone'
    BY <1>2 DEF EngagedAlone, Engaged
  <1>11. ASSUME NEW n \in Service, NEW w \in Worker, Engaged(w, n)'
         PROVE  EngagedOf(w, n)'
    <2>1. Engaged(w, n) /\ n # r.name
      BY <1>2, <1>8, <1>11 DEF Engaged
    <2>2. EngagedOf(w, n) /\ svc'[n] = svc[n] /\ (HasResult(n)' => HasResult(n))
      BY <1>5, <1>7, <2>1 DEF EngagedOwns
    <2>. QED
      BY <1>2, <1>6, <2>2 DEF EngagedOf, HasForked, At
  <1>. QED
    BY <1>9, <1>10, <1>11 DEF EngagedOwns

\* A step of connection w that is engaged with n, or becomes so: the others
\* are engaged as before.
LEMMA OthersEngaged ==
    ASSUME ControlTypeOK, NEW w \in Worker, NEW n \in conn[w].name, NEW label,
           NEW p, ToWith(w, label, p)
    PROVE  /\ conn'[w].name = conn[w].name
           /\ conn'[w].pc = label /\ conn'[w].pid = p
           /\ \A m : Engaged(w, m)' => m = n
           /\ \A v \in Worker \ {w} : conn'[v] = conn[v]
  <1>1. /\ conn'[w].name = conn[w].name
        /\ conn'[w].pc = label /\ conn'[w].pid = p
        /\ \A v \in Worker \ {w} : conn'[v] = conn[v]
    BY DEF ControlTypeOK, Connection, ToWith
  <1>. QED
    BY <1>1 DEF ControlTypeOK, Engaged

\* A connection that goes on to another step keeps the pid it has.
LEMMA SamePid ==
    ASSUME ControlTypeOK, NEW w \in Worker, NEW label, To(w, label)
    PROVE  ToWith(w, label, conn[w].pid)
  BY DEF ControlTypeOK, Connection, To, ToWith

\* Start reserves a service that nobody else is engaged with: those that are
\* have it Starting or Running.
LEMMA ReserveStarts ==
    ASSUME TypeOK, StartsRight, NEW w \in Worker, StartReserve(w),
           UNCHANGED mainVars
    PROVE  StartsRight'
  <1>. USE DEF TypeOK
  <1>1. PICK n \in conn[w].name :
          IF MayStart(n)
          THEN svc' = MarkStarting(n) /\ To(w, "startFork")
          ELSE UNCHANGED svc /\ Reply(w)
    BY DEF StartReserve
  <1>2. /\ At(w, "startReserve")
        /\ UNCHANGED <<kernelVars, children, snapshot, reaped>>
    BY DEF StartReserve, mainVars, mainLocals
  <1>3. n \in Service /\ conn \in [Worker -> Connection] /\ TableRecords
    BY DEF ControlTypeOK, Connection, TableTypeOK, TableRecords
  <1>4. CASE ~MayStart(n)
    <2>1. /\ \A v \in Worker \ {w} : conn'[v] = conn[v]
          /\ \A m : ~Engaged(w, m) /\ ~Engaged(w, m)'
      BY <1>1, <1>2, <1>3, <1>4 DEF Reply, Closed, At, Engaged
    <2>2. Beside
      BY <1>1, <1>2, <1>4, <2>1, KillMovesNobody DEF Beside
    <2>. QED
      BY <2>2, BesideKeeps
  <1>5. CASE MayStart(n)
    <2>. USE DEF StartsRight
    <2>1. /\ n \in known /\ svc[n].state \notin {"Running", "Starting"}
          /\ svc' = MarkStarting(n) /\ To(w, "startFork")
      BY <1>1, <1>5 DEF MayStart
    <2>2. Unwaited(n) = {} /\ ~HasResult(n) /\ \A v \in Worker : ~Engaged(v, n)
      BY <1>3, <2>1 DEF StartableIsGone, EngagedOwns, EngagedOf
    <2>3. /\ svc'[n].state = "Starting"
          /\ \A m \in Service \ {n} : svc'[m] = svc[m]
      BY <1>3, <2>1 DEF MarkStarting, Updated, TableRecords, ServiceRecord
    <2>4. \A m : Unwaited(m)' = Unwaited(m) /\ (HasResult(m)' <=> HasResult(m))
      BY <1>2 DEF kernelVars, Unwaited, IsOf, HasResult
    <2>5. /\ conn'[w].pc = "startFork"
          /\ \A m : Engaged(w, m)' => m = n
          /\ \A v \in Worker \ {w} : conn'[v] = conn[v]
      <3>1. ToWith(w, "startFork", conn[w].pid)
        BY <2>1, SamePid
      <3>. QED
        BY <3>1, OthersEngaged
    <2>6. \A v \in Worker \ {w} : \A m : Engaged(v, m)' => Engaged(v, m) /\ m # n
      BY <2>2, <2>5 DEF Engaged
    <2>7. OneProcess' /\ StartableIsGone'
      BY <1>2, <2>3, <2>4 DEF OneProcess, StartableIsGone
    <2>8. EngagedAlone'
      BY <2>5, <2>6 DEF EngagedAlone
    <2>9. ASSUME NEW m \in Service, NEW v \in Worker, Engaged(v, m)'
          PROVE  EngagedOf(v, m)'
      <3>1. CASE v = w
        <4>1. m = n /\ ~HasForked(w)' /\ ~At(w, "startPush")'
          BY <2>5, <2>9, <3>1 DEF HasForked, At
        <4>. QED
          BY <2>2, <2>3, <2>4, <3>1, <4>1 DEF EngagedOf
      <3>2. CASE v # w
        <4>1. EngagedOf(v, m) /\ svc'[m] = svc[m] /\ conn'[v] = conn[v]
          BY <2>3, <2>5, <2>6, <2>9, <3>2 DEF EngagedOwns
        <4>. QED
          BY <1>2, <2>4, <4>1 DEF EngagedOf, HasForked, At
      <3>. QED
        BY <3>1, <3>2
    <2>. QED
      BY <2>7, <2>8, <2>9 DEF EngagedOwns
  <1>. QED
    BY <1>4, <1>5

\* It forks the one process of its service, or fails.
LEMMA ForkStarts ==
    ASSUME TypeOK, PidIsItsOwn, StartsRight, NEW w \in Worker, StartFork(w),
           UNCHANGED mainVars
    PROVE  StartsRight'
  <1>. USE DEF TypeOK, StartsRight
  <1>1. /\ At(w, "startFork")
        /\ UNCHANGED <<svc, children, snapshot, reaped>>
    BY DEF StartFork, mainVars, mainLocals, dagVars
  <1>2. ASSUME NEW n \in conn[w].name, NEW p \in Pid, Fork(n, p),
               ToWith(w, "startMark", p)
        PROVE  StartsRight'
    <2>1. n \in Service /\ Engaged(w, n) /\ EngagedOf(w, n) /\ ~HasForked(w)
      BY <1>1, <1>2 DEF ControlTypeOK, Connection, Engaged, EngagedOwns, At,
         HasForked
    <2>2. /\ Unwaited(n)' = {p}
          /\ \A m \in Service \ {n} : Unwaited(m)' = Unwaited(m)
      <3>1. Unwaited(n) = {}
        BY <2>1 DEF EngagedOf
      <3>. QED
        BY <1>2, <2>1, <3>1, ForkUnwaited
    <2>3. \A c \in children \union snapshot : c[2] # p
      BY <1>2 DEF PidIsItsOwn, ChildrenOwned, IsOf, Fork, KernelTypeOK
    <2>4. \A m : HasResult(m)' <=> HasResult(m)
      BY <1>1 DEF HasResult
    <2>5. /\ conn'[w].pc = "startMark" /\ conn'[w].pid = p
          /\ \A m : Engaged(w, m)' => m = n
          /\ \A v \in Worker \ {w} : conn'[v] = conn[v]
      BY <1>2, OthersEngaged
    <2>6. \A v \in Worker \ {w} : \A m : Engaged(v, m)' => Engaged(v, m) /\ m # n
      BY <2>1, <2>5 DEF Engaged, EngagedAlone
    <2>7. OneProcess' /\ StartableIsGone'
      <3>1. svc[n].state = "Starting" /\ ~HasResult(n)
        BY <1>1, <2>1 DEF EngagedOf, At
      <3>. QED
        BY <1>1, <2>2, <2>4, <3>1 DEF OneProcess, StartableIsGone
    <2>8. EngagedAlone'
      BY <2>5, <2>6 DEF EngagedAlone
    <2>9. ASSUME NEW m \in Service, NEW v \in Worker, Engaged(v, m)'
          PROVE  EngagedOf(v, m)'
      <3>1. CASE v = w
        <4>1. m = n /\ svc[n].state = "Starting" /\ ~HasResult(n)
              /\ HasForked(w)' /\ ~At(w, "startPush")'
          BY <1>1, <2>1, <2>5, <2>9, <3>1 DEF EngagedOf, HasForked, At
        <4>. QED
          BY <1>1, <2>2, <2>3, <2>4, <2>5, <3>1, <4>1 DEF EngagedOf
      <3>2. CASE v # w
        <4>1. EngagedOf(v, m) /\ Unwaited(m)' = Unwaited(m) /\ conn'[v] = conn[v]
          BY <2>2, <2>5, <2>6, <2>9, <3>2 DEF EngagedOwns
        <4>. QED
          BY <1>1, <2>4, <4>1 DEF EngagedOf, HasForked, At
      <3>. QED
        BY <3>1, <3>2
    <2>. QED
      BY <2>7, <2>8, <2>9 DEF EngagedOwns
  <1>3. ASSUME To(w, "startFailed"), UNCHANGED kernelVars
        PROVE  StartsRight'
    <2>1. \A m : Unwaited(m)' = Unwaited(m) /\ (HasResult(m)' <=> HasResult(m))
      BY <1>1, <1>3 DEF kernelVars, Unwaited, IsOf, HasResult
    <2>2. /\ \A m : Engaged(w, m)' => Engaged(w, m)
          /\ conn'[w].pc = "startFailed"
          /\ \A v \in Worker \ {w} : conn'[v] = conn[v]
      BY <1>1, <1>3 DEF To, ControlTypeOK, Connection, Engaged, At
    <2>3. \A v \in Worker : \A m : Engaged(v, m)' => Engaged(v, m)
      BY <2>2 DEF Engaged
    <2>4. EngagedAlone' /\ OneProcess' /\ StartableIsGone'
      BY <1>1, <2>1, <2>3 DEF EngagedAlone, OneProcess, StartableIsGone
    <2>5. ASSUME NEW m \in Service, NEW v \in Worker, Engaged(v, m)'
          PROVE  EngagedOf(v, m)'
      <3>1. EngagedOf(v, m)
        BY <2>3, <2>5 DEF EngagedOwns
      <3>. QED
        BY <1>1, <2>1, <2>2, <3>1 DEF EngagedOf, HasForked, At
    <2>. QED
      BY <2>4, <2>5 DEF EngagedOwns
  <1>. QED
    BY <1>2, <1>3 DEF StartFork

\* mark_running, of a service that is Starting.
LEMMA MarkStarts ==
    ASSUME TypeOK, PidIsItsOwn, StartsRight, Calm, NEW w \in Worker,
           StartMark(w), UNCHANGED mainVars
    PROVE  StartsRight'
  <1>. USE DEF TypeOK, StartsRight
  <1>1. PICK n \in conn[w].name : svc' = MarkRunning(n, conn[w].pid)
    BY DEF StartMark
  <1>2. /\ At(w, "startMark") /\ To(w, "startPush")
        /\ UNCHANGED <<kernelVars, children, snapshot, reaped>>
    BY DEF StartMark, mainVars, mainLocals
  <1>3. /\ n \in Service /\ Engaged(w, n) /\ EngagedOf(w, n) /\ TableRecords
        /\ conn[w].pid \in Pid \union {NoPid} /\ n \in known
    BY <1>2 DEF ControlTypeOK, Connection, Engaged, EngagedOwns, At, Calm,
       TableTypeOK, TableRecords
  <1>4. /\ svc'[n].state = "Running"
        /\ \A m \in Service \ {n} : svc'[m] = svc[m]
    BY <1>1, <1>3, MarkState
  <1>5. \A m : Unwaited(m)' = Unwaited(m) /\ (HasResult(m)' <=> HasResult(m))
    BY <1>2 DEF kernelVars, Unwaited, IsOf, HasResult
  <1>6. /\ conn'[w].pc = "startPush" /\ conn'[w].pid = conn[w].pid
        /\ \A m : Engaged(w, m)' => m = n
        /\ \A v \in Worker \ {w} : conn'[v] = conn[v]
    <2>1. ToWith(w, "startPush", conn[w].pid)
      BY <1>2, SamePid
    <2>. QED
      BY <2>1, OthersEngaged
  <1>7. \A v \in Worker \ {w} : \A m : Engaged(v, m)' => Engaged(v, m) /\ m # n
    BY <1>3, <1>6 DEF Engaged, EngagedAlone
  <1>8. OneProcess' /\ StartableIsGone' /\ EngagedAlone'
    BY <1>2, <1>4, <1>5, <1>6, <1>7
       DEF OneProcess, StartableIsGone, EngagedAlone
  <1>9. ASSUME NEW m \in Service, NEW v \in Worker, Engaged(v, m)'
        PROVE  EngagedOf(v, m)'
    <2>1. CASE v = w
      <3>1. m = n /\ HasForked(w) /\ HasForked(w)' /\ At(w, "startPush")'
        BY <1>2, <1>6, <1>9, <2>1 DEF HasForked, At
      <3>. QED
        BY <1>2, <1>3, <1>4, <1>5, <1>6, <2>1, <3>1 DEF EngagedOf
    <2>2. CASE v # w
      <3>1. EngagedOf(v, m) /\ svc'[m] = svc[m] /\ conn'[v] = conn[v]
        BY <1>4, <1>6, <1>7, <1>9, <2>2 DEF EngagedOwns
      <3>. QED
        BY <1>2, <1>5, <3>1 DEF EngagedOf, HasForked, At
    <2>. QED
      BY <2>1, <2>2
  <1>. QED
    BY <1>8, <1>9 DEF EngagedOwns

\* The process becomes an entry of RUNNING_CHILDREN: it is not the process
\* of another connection.
LEMMA PushStarts ==
    ASSUME TypeOK, PidIsItsOwn, StartsRight, NEW w \in Worker, StartPush(w),
           UNCHANGED mainVars
    PROVE  StartsRight'
  <1>. USE DEF TypeOK, StartsRight
  <1>1. PICK n \in conn[w].name : children' = children \union {<<n, conn[w].pid>>}
    BY DEF StartPush
  <1>2. /\ At(w, "startPush") /\ Reply(w)
        /\ UNCHANGED <<kernelVars, svc, snapshot, reaped>>
    BY DEF StartPush, mainVars, mainLocals, dagVars
  <1>3. n \in Service /\ Engaged(w, n) /\ IsOf(conn[w].pid, n)
    BY <1>2 DEF ControlTypeOK, Connection, Engaged, At, PidIsItsOwn,
       ConnectionsOwned, ConnectionOwned, HoldsPid
  <1>4. \A m : Unwaited(m)' = Unwaited(m) /\ (HasResult(m)' <=> HasResult(m))
    BY <1>2 DEF kernelVars, Unwaited, IsOf, HasResult
  <1>5. /\ \A m : ~Engaged(w, m)'
        /\ \A v \in Worker \ {w} : conn'[v] = conn[v]
    BY <1>2 DEF Reply, Closed, ControlTypeOK, Engaged
  <1>6. \A v \in Worker : \A m : Engaged(v, m)' =>
          Engaged(v, m) /\ v # w /\ conn'[v] = conn[v]
    BY <1>5 DEF Engaged
  <1>7. OneProcess' /\ StartableIsGone' /\ EngagedAlone'
    BY <1>2, <1>4, <1>6 DEF OneProcess, StartableIsGone, EngagedAlone
  <1>8. ASSUME NEW m \in Service, NEW v \in Worker, Engaged(v, m)'
        PROVE  EngagedOf(v, m)'
    <2>1. Engaged(v, m) /\ v # w /\ conn'[v] = conn[v] /\ EngagedOf(v, m) /\ m # n
      BY <1>3, <1>6, <1>8 DEF EngagedOwns, EngagedAlone
    <2>2. HasForked(v) => conn[v].pid # conn[w].pid
      <3>1. HasForked(v) => IsOf(conn[v].pid, m)
        BY <2>1 DEF HasForked, HoldsPid, Engaged, ControlTypeOK, PidIsItsOwn,
           ConnectionsOwned, ConnectionOwned
      <3>. QED
        BY <1>3, <2>1, <3>1 DEF IsOf
    <2>3. HasForked(v) => \A c \in children' \union snapshot' : c[2] # conn[v].pid
      BY <1>1, <1>2, <2>1, <2>2 DEF EngagedOf
    <2>4. HasForked(v)' <=> HasForked(v)
      BY <2>1 DEF HasForked
    <2>. QED
      BY <1>2, <1>4, <2>1, <2>3, <2>4 DEF EngagedOf, At
  <1>. QED
    BY <1>7, <1>8 DEF EngagedOwns

\* mark_failed, of a service that has no process: the fork failed.
LEMMA FailedStarts ==
    ASSUME TypeOK, StartsRight, NEW w \in Worker, StartFailed(w),
           UNCHANGED mainVars
    PROVE  StartsRight'
  <1>. USE DEF TypeOK, StartsRight
  <1>1. PICK n \in conn[w].name : svc' = MarkFailed(n)
    BY DEF StartFailed
  <1>2. /\ At(w, "startFailed") /\ Reply(w)
        /\ UNCHANGED <<kernelVars, children, snapshot, reaped>>
    BY DEF StartFailed, mainVars, mainLocals
  <1>3. n \in Service /\ Engaged(w, n) /\ EngagedOf(w, n) /\ TableRecords
    BY <1>2 DEF ControlTypeOK, Connection, Engaged, EngagedOwns, At,
       TableTypeOK, TableRecords
  <1>4. \A m \in Service \ {n} : svc'[m] = svc[m]
    BY <1>1, <1>3, MarkState
  <1>5. \A m : Unwaited(m)' = Unwaited(m) /\ (HasResult(m)' <=> HasResult(m))
    BY <1>2 DEF kernelVars, Unwaited, IsOf, HasResult
  <1>6. Unwaited(n) = {} /\ ~HasResult(n)
    BY <1>2, <1>3 DEF EngagedOf, HasForked, At
  <1>7. /\ \A m : ~Engaged(w, m)'
        /\ \A v \in Worker \ {w} : conn'[v] = conn[v]
    BY <1>2 DEF Reply, Closed, ControlTypeOK, Engaged
  <1>8. \A v \in Worker : \A m : Engaged(v, m)' =>
          Engaged(v, m) /\ v # w /\ conn'[v] = conn[v]
    BY <1>7 DEF Engaged
  <1>9. OneProcess' /\ StartableIsGone' /\ EngagedAlone'
    BY <1>2, <1>4, <1>5, <1>6, <1>8
       DEF OneProcess, StartableIsGone, EngagedAlone
  <1>10. ASSUME NEW m \in Service, NEW v \in Worker, Engaged(v, m)'
         PROVE  EngagedOf(v, m)'
    <2>1. conn'[v] = conn[v] /\ EngagedOf(v, m) /\ svc'[m] = svc[m]
      BY <1>3, <1>4, <1>8, <1>10 DEF EngagedOwns, EngagedAlone
    <2>. QED
      BY <1>2, <1>5, <2>1 DEF EngagedOf, HasForked, At
  <1>. QED
    BY <1>9, <1>10 DEF EngagedOwns

\* All other steps are beside the matter.
LEMMA CalmBeside ==
    ASSUME StartsOnly, TypeOK, Calm, [Next]_vars
    PROVE  \/ Beside
           \/ (ReapOne \/ HandleExited \/ HandleFailed) /\ UNCHANGED controlVars
           \/ \E w \in Worker : CalmServer(w) /\ UNCHANGED mainVars
  <1>. USE DEF TypeOK
  <1>1. CASE UNCHANGED vars
    BY <1>1, KillMovesNobody
       DEF vars, dagVars, mainVars, mainLocals, controlVars, Beside
  <1>2. ASSUME \/ ReapCheck \/ ReapSnapshot \/ ReapDone \/ HandleUntrack
               \/ MaybeRestart \/ HandleDone \/ ResetCounters \/ ReloadCheck
               \/ ReloadFinish \/ ShutdownCheck,
               UNCHANGED controlVars
        PROVE  Beside
    <2>1. UNCHANGED <<kernelVars, reaped, conn>>
      BY <1>2 DEF ReapCheck, ReapSnapshot, ReapDone, HandleUntrack,
         MaybeRestart, HandleDone, ResetCounters, ReloadCheck, ReloadFinish,
         ShutdownCheck, mainLocals, controlVars
    <2>2. \A n \in Service : svc'[n].state = svc[n].state
      <3>1. CASE MaybeRestart
        <4>1. \A r \in cur : r.name \in Service
          BY DEF MainTypeOK, Result
        <4>2. UNCHANGED svc
          BY <3>1, <4>1 DEF MaybeRestart, ShouldRestart, StartsOnly
        <4>. QED
          BY <4>2
      <3>2. CASE ResetCounters
        BY <3>2 DEF ResetCounters, TableTypeOK, ServiceRecord
      <3>3. CASE UNCHANGED svc
        BY <3>3
      <3>. QED
        BY <1>2, <3>1, <3>2, <3>3
           DEF ReapCheck, ReapSnapshot, ReapDone, HandleUntrack, HandleDone,
           ReloadCheck, ReloadFinish, ShutdownCheck, dagVars
    <2>3. children' \union snapshot' \subseteq children \union snapshot
      BY <1>2 DEF ReapCheck, ReapSnapshot, ReapDone, HandleUntrack,
         MaybeRestart, HandleDone, ResetCounters, ReloadCheck, ReloadFinish,
         ShutdownCheck, mainLocals, Retained
    <2>. QED
      BY <2>1, <2>2, <2>3, KillMovesNobody DEF Beside
  <1>3. ASSUME NEW w \in Worker, Accept(w) \/ ReadRequest(w), UNCHANGED mainVars
        PROVE  Beside
    <2>1. UNCHANGED <<kernelVars, svc, children, reaped, snapshot>>
      BY <1>3 DEF Accept, ReadRequest, dagVars, mainVars, mainLocals
    <2>2. /\ \A v \in Worker \ {w} : conn'[v] = conn[v]
          /\ conn'[w] = conn[w] \/ \A n : ~Engaged(w, n) /\ ~Engaged(w, n)'
      <3>. USE DEF ControlTypeOK, Connection
      <3>1. CASE Accept(w)
        BY <3>1, ZenonT(40) DEF Accept, To, At, Engaged
      <3>2. CASE ReadRequest(w)
        <4>1. conn[w].pc = "reading"
          BY <3>2 DEF ReadRequest, At
        <4>2. /\ conn'[w].pc \in {"closed", "startReserve", "stopFind", "rebootCmd"}
              /\ \A v \in Worker \ {w} : conn'[v] = conn[v]
          <5>1. CASE Reply(w)
            BY <5>1 DEF Reply, Closed
          <5>2. CASE ~Reply(w)
            <6>1. PICK op \in Operation, n \in Service :
                     conn' = [conn EXCEPT ![w] =
                       [pc |-> FirstStep(op), op |-> op, pid |-> NoPid,
                        name |-> IF op \in {"Shutdown", "Reboot"} THEN {} ELSE {n}]]
              BY <3>2, <5>2 DEF ReadRequest
            <6>2. FirstStep(op) \in {"startReserve", "stopFind", "rebootCmd"}
              BY DEF FirstStep
            <6>. QED
              BY <6>1, <6>2
          <5>. QED
            BY <5>1, <5>2
        <4>. QED
          BY <4>1, <4>2 DEF Engaged
      <3>. QED
        BY <1>3, <3>1, <3>2
    <2>. QED
      BY <2>1, <2>2, KillMovesNobody DEF Beside
  <1>4. CASE Children \/ HandleSigchld \/ HandleSighup \/ HandleSigterm
             \/ EditFiles
    <2>1. NobodyMoves
      <3>1. ASSUME NEW p \in Pid, EnterSession(p) \/ Exit(p)
            PROVE  NobodyMoves
        BY <3>1 DEF EnterSession, Exit, KernelTypeOK, NobodyMoves, Alive
      <3>2. CASE Children
        BY <3>1, <3>2 DEF Children
      <3>3. CASE UNCHANGED <<proc, forkedFor>>
        BY <3>3 DEF NobodyMoves, Alive
      <3>. QED
        BY <1>4, <3>2, <3>3
           DEF HandleSigchld, HandleSighup, HandleSigterm, EditFiles, kernelVars
    <2>2. UNCHANGED <<svc, children, reaped, snapshot, conn>>
      BY <1>4 DEF Children, HandleSigchld, HandleSighup, HandleSigterm,
         EditFiles, dagVars, mainVars, mainLocals, controlVars
    <2>. QED
      BY <2>1, <2>2 DEF Beside
  <1>. QED
    BY <1>1, <1>2, <1>3, <1>4, CalmMainSteps, CalmServerSteps
       DEF Next, On, Off, Clients, Main, CalmMain

\* So starts go right, whatever step is taken.
LEMMA StepStarts ==
    ASSUME StartsOnly, TypeOK, PidIsItsOwn, Calm, StartsRight, [Next]_vars
    PROVE  StartsRight'
  BY CalmBeside, BesideKeeps, ReapStarts, HandleStarts, ReserveStarts,
     ForkStarts, MarkStarts, PushStarts, FailedStarts DEF CalmServer

StartsInv == TypeOK /\ PidIsItsOwn /\ Calm /\ StartsRight

\* Boot leaves services that are Running, or have no process: it holds at first.
LEMMA StartsInvHolds ==
    ASSUME StartsOnly
    PROVE  Spec => []StartsInv
  <1>1. ASSUME Init
        PROVE  StartsInv
    <2>1. PICK up \in BootOutcome :
            \E pidOf \in Injection(up, {p \in Pid : p <= Cardinality(up)}) :
               AfterBoot(up, pidOf)
      BY <1>1 DEF Init
    <2>2. PICK pidOf \in Injection(up, {p \in Pid : p <= Cardinality(up)}) :
            AfterBoot(up, pidOf)
      BY <2>1
    <2>3. \A n : \A p \in Unwaited(n) : n \in up /\ pidOf[n] = p
      BY <2>2 DEF AfterBoot, Unwaited, IsOf
    <2>4. up \subseteq Service /\ \A n \in up : svc[n].state = "Running"
      BY <2>2, BootOutcomeAssumption DEF AfterBoot, FromConfig
    <2>5. reaped = {} /\ \A w \in Worker : \A n : ~Engaged(w, n)
      BY <1>1 DEF Init, Closed, Engaged
    <2>6. StartsRight
      BY <2>3, <2>4, <2>5 DEF StartsRight, EngagedAlone, EngagedOwns,
         StartableIsGone, OneProcess, HasResult
    <2>7. Calm
      BY <1>1 DEF Init, Calm, Closed
    <2>. QED
      BY <1>1, <2>6, <2>7, InitOwned DEF StartsInv
  <1>2. StartsInv /\ [Next]_vars => StartsInv'
    BY StepType, StepOwned, StepCalm, StepStarts DEF StartsInv
  <1>. QED
    BY <1>1, <1>2, PTL DEF Spec

\* What the invariant says of the starters and of the processes of a service.
LEMMA StartsRightMeans ==
    ASSUME StartsInv
    PROVE  OneStarter /\ OneInstance
  <1>1. ASSUME NEW n \in Service
        PROVE  Cardinality({w \in Worker : Reserved(w, n)}) <= 1
    <2>. DEFINE starters == {w \in Worker : Reserved(w, n)}
    <2>1. \A v, w \in starters : v = w
      BY DEF StartsInv, StartsRight, EngagedAlone, Engaged, Reserved
    <2>. HIDE DEF starters
    <2>2. Cardinality(starters) <= 1
      BY <2>1, AtMostOne
    <2>. QED
      BY <2>2 DEF starters
  <1>2. ASSUME NEW n \in Service
        PROVE  Cardinality(AliveInstances(n)) <= 1
    <2>1. \A p, q \in AliveInstances(n) : p = q
      BY DEF StartsInv, StartsRight, OneProcess, AliveInstances, Unwaited,
         IsOf, Alive
    <2>. QED
      BY <2>1, AtMostOne
  <1>. QED
    BY <1>1, <1>2 DEF OneStarter, OneInstance

\* While clients ask for nothing but Start, nothing restarts by itself and no
\* service is removed, at most one connection is between the check of Start
\* and its mark_running or mark_failed (invariant OneStarter): the state
\* Starting, set in the critical section of the check, is a lock.
THEOREM OneStarterAtATime ==
    ASSUME StartsOnly
    PROVE  Spec => []OneStarter
  <1>1. StartsInv => OneStarter
    BY StartsRightMeans
  <1>. QED
    BY <1>1, StartsInvHolds, PTL

\* And whatever number of clients start a service at the same time, no two
\* processes of it are alive (invariant OneInstance).
THEOREM OneInstanceStarted ==
    ASSUME StartsOnly
    PROVE  Spec => []OneInstance
  <1>1. StartsInv => OneInstance
    BY StartsRightMeans
  <1>. QED
    BY <1>1, StartsInvHolds, PTL

-----------------------------------------------------------------------------
(***************************************************************************)
(* What is left of LiveIsTracked when clients start services.  A process   *)
(* that is started between mark_failed and the retain of its predecessor's *)
(* result loses its entry: RUNNING_CHILDREN goes by the name of a service. *)
(* The table has its pid all the same.                                     *)
(***************************************************************************)
\* Where nobody comes, no pid is lost and no connection goes on from
\* "startMark" there is nothing new to know.
LEMMA KnowsStill ==
    ASSUME EveryPidIsKnown,
           \A n \in Service : Unwaited(n)' \subseteq Unwaited(n),
           \A n \in Service : Unwaited(n)' # {} => svc'[n].pid = svc[n].pid,
           \A w \in Worker : At(w, "startMark") =>
               At(w, "startMark")' /\ conn'[w].pid = conn[w].pid
    PROVE  EveryPidIsKnown'
  <1>. SUFFICES ASSUME NEW n \in Service, NEW p \in Unwaited(n)'
                PROVE  \/ svc'[n].pid = p
                       \/ \E w \in Worker : At(w, "startMark")' /\ conn'[w].pid = p
    BY DEF EveryPidIsKnown
  <1>. QED
    BY DEF EveryPidIsKnown

\* The main thread forgets no pid of a process that was not waited for.
LEMMA CalmMainKnows ==
    ASSUME StartsInv, EveryPidIsKnown, Main
    PROVE  EveryPidIsKnown'
  <1>. USE DEF StartsInv, TypeOK, MainTypeOK, Result
  <1>1. CalmMain /\ UNCHANGED conn
    BY CalmMainSteps DEF Main, controlVars
  <1>2. TableRecords
    BY DEF TableTypeOK, TableRecords
  <1>3. ASSUME NEW n \in Service
        PROVE  Unwaited(n)' \subseteq Unwaited(n)
    <2>1. CASE UNCHANGED kernelVars
      BY <2>1 DEF kernelVars, Unwaited, IsOf
    <2>2. CASE ReapOne
      BY <2>2 DEF ReapOne, WaitPid, KernelTypeOK, Unwaited, IsOf
    <2>. QED
      BY <1>1, <2>1, <2>2 DEF CalmMain, ReapCheck, ReapSnapshot, ReapDone,
         HandleExited, HandleFailed, HandleUntrack, MaybeRestart, HandleDone,
         ResetCounters, ReloadCheck, ReloadFinish, ShutdownCheck
  <1>4. ASSUME NEW n \in Service, Unwaited(n) # {}
        PROVE  svc'[n].pid = svc[n].pid
    <2>1. CASE HandleFailed
      <3>1. PICK r \in reaped : svc' = MarkFailed(r.name)
        BY <2>1 DEF HandleFailed
      <3>2. r.name \in Service /\ r.name # n
        BY <1>4 DEF StartsRight, OneProcess, HasResult
      <3>. QED
        BY <1>2, <3>1, <3>2, MarkState
    <2>2. CASE MaybeRestart
      BY <2>2 DEF MaybeRestart, Updated, TableTypeOK, ServiceRecord
    <2>3. CASE ResetCounters
      BY <2>3 DEF ResetCounters, TableTypeOK, ServiceRecord
    <2>4. CASE UNCHANGED svc
      BY <2>4
    <2>. QED
      BY <1>1, <2>1, <2>2, <2>3, <2>4
         DEF CalmMain, ReapCheck, ReapSnapshot, ReapOne, ReapDone,
         HandleExited, HandleUntrack, HandleDone, ReloadCheck, ReloadFinish,
         ShutdownCheck, dagVars
  <1>. QED
    BY <1>1, <1>3, <1>4, KnowsStill DEF At

\* A connection that starts a service has the pid until the table has it.
LEMMA CalmServerKnows ==
    ASSUME StartsInv, EveryPidIsKnown, NEW w \in Worker, CalmServer(w)
    PROVE  EveryPidIsKnown'
  <1>. USE DEF StartsInv, TypeOK
  <1>1. TableRecords /\ conn[w].name \subseteq Service
    BY DEF TableTypeOK, TableRecords, ControlTypeOK, Connection
  <1>2. ASSUME UNCHANGED kernelVars, ~At(w, "startMark"),
               \A v \in Worker \ {w} : conn'[v] = conn[v],
               \A n \in Service : Unwaited(n) # {} => svc'[n].pid = svc[n].pid
        PROVE  EveryPidIsKnown'
    <2>1. \A n : Unwaited(n)' = Unwaited(n)
      BY <1>2 DEF kernelVars, Unwaited, IsOf
    <2>. QED
      BY <1>2, <2>1, KnowsStill DEF At
  <1>3. ASSUME NEW label, To(w, label) \/ Reply(w)
        PROVE  \A v \in Worker \ {w} : conn'[v] = conn[v]
    BY <1>3 DEF To, Reply, ControlTypeOK
  <1>4. CASE StartReserve(w)
    <2>1. /\ UNCHANGED kernelVars /\ ~At(w, "startMark")
          /\ \A v \in Worker \ {w} : conn'[v] = conn[v]
      BY <1>3, <1>4 DEF StartReserve, At
    <2>2. PICK n \in conn[w].name : svc' = MarkStarting(n) \/ UNCHANGED svc
      BY <1>4 DEF StartReserve
    <2>3. \A m \in Service : svc'[m].pid = svc[m].pid
      BY <1>1, <2>2 DEF MarkStarting, Updated, TableRecords, ServiceRecord
    <2>. QED
      BY <1>2, <2>1, <2>3
  <1>5. CASE StartFailed(w)
    <2>1. /\ UNCHANGED kernelVars /\ At(w, "startFailed") /\ ~At(w, "startMark")
          /\ \A v \in Worker \ {w} : conn'[v] = conn[v]
      BY <1>3, <1>5 DEF StartFailed, At
    <2>2. PICK n \in conn[w].name : svc' = MarkFailed(n)
      BY <1>5 DEF StartFailed
    <2>3. Unwaited(n) = {}
      BY <1>1, <2>1
         DEF StartsRight, EngagedOwns, EngagedOf, Engaged, HasForked, At
    <2>4. \A m \in Service \ {n} : svc'[m] = svc[m]
      BY <1>1, <2>2, MarkState
    <2>. QED
      BY <1>2, <2>1, <2>3, <2>4
  <1>6. CASE StartPush(w)
    <2>1. /\ UNCHANGED kernelVars /\ ~At(w, "startMark") /\ UNCHANGED svc
          /\ \A v \in Worker \ {w} : conn'[v] = conn[v]
      BY <1>3, <1>6 DEF StartPush, At, dagVars
    <2>. QED
      BY <1>2, <2>1
  <1>7. CASE StartMark(w)
    <2>1. /\ UNCHANGED kernelVars /\ At(w, "startMark")
          /\ \A v \in Worker \ {w} : conn'[v] = conn[v]
      BY <1>3, <1>7 DEF StartMark
    <2>2. PICK n \in conn[w].name : svc' = MarkRunning(n, conn[w].pid)
      BY <1>7 DEF StartMark
    <2>3. n \in Service /\ n \in known /\ IsOf(conn[w].pid, n)
      BY <1>1, <2>1 DEF Calm, PidIsItsOwn, ConnectionsOwned, ConnectionOwned,
         HoldsPid, At, ControlTypeOK, Connection
    <2>4. \A q \in Unwaited(n) : q = conn[w].pid
      BY <2>1, <2>3 DEF StartsRight, EngagedOwns, EngagedOf, Engaged, At
    <2>5. svc'[n].pid = conn[w].pid
      BY <1>1, <2>2, <2>3
         DEF MarkRunning, Updated, TableRecords, ServiceRecord
    <2>6. \A m \in Service \ {n} : svc'[m] = svc[m]
      BY <1>1, <2>2, <2>3, MarkState DEF IsOf
    <2>7. ASSUME NEW m \in Service, NEW p \in Unwaited(m)'
          PROVE  \/ svc'[m].pid = p
                 \/ \E v \in Worker : At(v, "startMark")' /\ conn'[v].pid = p
      <3>1. p \in Unwaited(m)
        BY <2>1, <2>7 DEF kernelVars, Unwaited, IsOf
      <3>2. CASE m = n
        BY <2>4, <2>5, <3>1, <3>2
      <3>3. CASE m # n
        <4>1. p # conn[w].pid
          BY <2>3, <3>1, <3>3 DEF Unwaited, IsOf
        <4>2. CASE svc[m].pid = p
          BY <2>6, <3>3, <4>2
        <4>3. CASE svc[m].pid # p
          <5>1. PICK v \in Worker : At(v, "startMark") /\ conn[v].pid = p
            BY <3>1, <4>3 DEF EveryPidIsKnown
          <5>. QED
            BY <2>1, <4>1, <5>1 DEF At
        <4>. QED
          BY <4>2, <4>3
      <3>. QED
        BY <3>2, <3>3
    <2>. QED
      BY <2>7 DEF EveryPidIsKnown
  <1>8. CASE StartFork(w)
    <2>1. At(w, "startFork") /\ ~At(w, "startMark") /\ UNCHANGED svc
      BY <1>8 DEF StartFork, At, dagVars
    <2>2. CASE To(w, "startFailed") /\ UNCHANGED kernelVars
      BY <1>2, <1>3, <2>1, <2>2
    <2>3. ASSUME NEW n \in conn[w].name, NEW p \in Pid, Fork(n, p),
                 ToWith(w, "startMark", p)
          PROVE  EveryPidIsKnown'
      <3>1. /\ conn'[w].pc = "startMark" /\ conn'[w].pid = p
            /\ \A v \in Worker \ {w} : conn'[v] = conn[v]
        BY <2>3, OthersEngaged
      <3>2. /\ Unwaited(n)' = Unwaited(n) \union {p}
            /\ \A m \in Service \ {n} : Unwaited(m)' = Unwaited(m)
        BY <1>1, <2>3, ForkUnwaited
      <3>3. ASSUME NEW m \in Service, NEW q \in Unwaited(m)'
            PROVE  \/ svc'[m].pid = q
                   \/ \E v \in Worker : At(v, "startMark")' /\ conn'[v].pid = q
        <4>1. CASE q = p
          BY <3>1, <4>1 DEF At
        <4>2. CASE q # p
          <5>1. q \in Unwaited(m)
            BY <3>2, <3>3, <4>2
          <5>2. CASE svc[m].pid = q
            BY <2>1, <5>2
          <5>3. CASE svc[m].pid # q
            <6>1. PICK v \in Worker : At(v, "startMark") /\ conn[v].pid = q
              BY <5>1, <5>3 DEF EveryPidIsKnown
            <6>. QED
              BY <2>1, <3>1, <6>1 DEF At
          <5>. QED
            BY <5>2, <5>3
        <4>. QED
          BY <4>1, <4>2
      <3>. QED
        BY <3>3 DEF EveryPidIsKnown
    <2>. QED
      BY <1>8, <2>2, <2>3 DEF StartFork
  <1>. QED
    BY <1>4, <1>5, <1>6, <1>7, <1>8 DEF CalmServer

\* No step makes a process unknown.
LEMMA StepKnows ==
    ASSUME StartsInv, EveryPidIsKnown, [Next]_vars
    PROVE  EveryPidIsKnown'
  <1>1. CASE UNCHANGED vars
    BY <1>1 DEF vars, kernelVars, dagVars, controlVars, EveryPidIsKnown, Unwaited,
       IsOf, At
  <1>2. ASSUME NEW w \in Worker, Accept(w) \/ ReadRequest(w)
        PROVE  EveryPidIsKnown'
    <2>1. \A n : Unwaited(n)' = Unwaited(n)
      BY <1>2 DEF Accept, ReadRequest, kernelVars, Unwaited, IsOf
    <2>2. UNCHANGED svc
      BY <1>2 DEF Accept, ReadRequest, dagVars
    <2>3. \A v \in Worker : At(v, "startMark") =>
            At(v, "startMark")' /\ conn'[v].pid = conn[v].pid
      <3>1. /\ ~At(w, "startMark")
            /\ \A v \in Worker \ {w} : conn'[v] = conn[v]
        <4>. conn \in [Worker -> Connection]
          BY DEF StartsInv, TypeOK, ControlTypeOK
        <4>1. CASE Accept(w)
          BY <4>1 DEF Accept, To, At
        <4>2. CASE ReadRequest(w)
          BY <4>2 DEF ReadRequest, Reply, At
        <4>. QED
          BY <1>2, <4>1, <4>2
      <3>. QED
        BY <3>1 DEF At
    <2>. QED
      BY <2>1, <2>2, <2>3, KnowsStill
  <1>3. CASE Children \/ HandleSigchld \/ HandleSighup \/ HandleSigterm
             \/ EditFiles
    <2>1. UNCHANGED <<svc, conn>>
      BY <1>3 DEF Children, HandleSigchld, HandleSighup, HandleSigterm,
         EditFiles, dagVars, controlVars
    <2>2. ASSUME NEW n
          PROVE  Unwaited(n)' = Unwaited(n)
      <3>1. CASE Children
        BY <3>1 DEF Children, EnterSession, Exit, Unwaited, IsOf, StartsInv,
           TypeOK, KernelTypeOK
      <3>2. CASE UNCHANGED <<proc, forkedFor>>
        BY <3>2 DEF Unwaited, IsOf
      <3>. QED
        BY <1>3, <3>1, <3>2 DEF HandleSigchld, HandleSighup, HandleSigterm,
           EditFiles, kernelVars
    <2>. QED
      BY <2>1, <2>2, KnowsStill DEF At
  <1>. QED
    BY <1>1, <1>2, <1>3, CalmMainKnows, CalmServerKnows, CalmServerSteps
       DEF StartsInv, Next, On, Off, Clients

\* However many clients start services, PID 1 knows the pid of every process it
\* has not waited for: it is in the record of its service, or the connection that
\* forked it is about to enter it there.  StartsOnly says of the clients what its
\* name says, and that nothing is restarted automatically, removed or stopped.
THEOREM EveryProcessIsKnown ==
    ASSUME StartsOnly
    PROVE  Spec => []EveryPidIsKnown
  <1>1. ASSUME Init PROVE EveryPidIsKnown
    <2>1. PICK up \in BootOutcome :
            \E pidOf \in Injection(up, {p \in Pid : p <= Cardinality(up)}) :
               AfterBoot(up, pidOf)
      BY <1>1 DEF Init
    <2>2. PICK pidOf \in Injection(up, {p \in Pid : p <= Cardinality(up)}) :
            AfterBoot(up, pidOf)
      BY <2>1
    <2>3. \A n : \A p \in Unwaited(n) : n \in up /\ pidOf[n] = p
      BY <2>2 DEF AfterBoot, Unwaited, IsOf
    <2>4. up \subseteq Service /\ \A n \in up : svc[n].pid = pidOf[n]
      BY <2>2, BootOutcomeAssumption DEF AfterBoot, FromConfig
    <2>. QED
      BY <2>3, <2>4 DEF EveryPidIsKnown
  <1>2. StartsInv /\ EveryPidIsKnown /\ [Next]_vars => EveryPidIsKnown'
    BY StepKnows
  <1>. QED
    BY <1>1, <1>2, StartsInvHolds, PTL DEF Spec
=============================================================================
