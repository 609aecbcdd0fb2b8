----------------------------- MODULE BootProofs -----------------------------
(***************************************************************************)
(* PID 1 from power-on, for any services, boot order, policies and         *)
(* clients.  What boot does besides reaping and restarting is not a step   *)
(* of module Cesar, but keeps every invariant of it; so they hold from     *)
(* power-on, and not only from the states AfterBoot describes.             *)
(***************************************************************************)
EXTENDS Boot, TrackingProofs

BootTypeOK ==
    /\ bpc \in {"reapFirst", "start", "join", "reapLast", "sleep", "done"}
    /\ level \in Nat \ {0}
    /\ names \subseteq Service
    /\ handles \subseteq Service
    /\ results \subseteq Service \X (Pid \union {NoPid})

\* Where the main thread can be while boot is at bpc, and what the locals of
\* boot hold then.  No client is served and nothing is reloaded or shut down.
ReapingPC ==
    {"await", "snapshot", "waitpid", "handle", "untrack", "policy", "counters"}
TaskPC == {"await", "taskFork", "taskPush", "taskMark"}
PhaseOK ==
    /\ bpc # "done" =>
         /\ conn = [w \in Worker |-> Closed]
         /\ known = Service /\ ~dagHeld /\ ~halting
    /\ bpc \in {"reapFirst", "reapLast"} => mpc \in ReapingPC
    /\ bpc = "start" => mpc = "await"
    /\ bpc \in {"join", "sleep"} => mpc \in TaskPC
    /\ bpc = "reapFirst" /\ mpc # "await" => level \in DOMAIN Level

\* The services boot has in hand are of the level it is at.
LevelOK ==
    /\ bpc \in {"start", "join"} =>
         /\ level \in DOMAIN Level
         /\ names \union handles \subseteq Level[level]
         /\ \A r \in results : r[1] \in Level[level]
    /\ bpc # "start" => names = {}
    /\ bpc \notin {"start", "join"} => handles = {} /\ results = {}

\* The pid a spawn task returned is that of a process of the service.
ResultsOwned == \A r \in results : r[2] # NoPid => IsOf(r[2], r[1])

BootInv ==
    /\ TypeOK /\ PidIsItsOwn
    /\ BootTypeOK /\ PhaseOK /\ LevelOK /\ ResultsOwned

-----------------------------------------------------------------------------
(***************************************************************************)
(* The steps of boot that module Cesar does not have.                      *)
(***************************************************************************)
BootOnly ==
    \/ Reaped \/ AwaitHandles \/ Joined \/ Slept \/ StartControlServer
    \/ \E n \in Service : Start(n) \/ SpawnTask(n) \/ Join(n)

\* The other ones are steps of Cesar, and boot stays where it is.
CesarStep ==
    /\ Next /\ UNCHANGED bootVars
    /\ bpc # "done" => UNCHANGED controlVars
    /\ \/ bpc = "done"
       \/ bpc \in {"reapFirst", "reapLast"} /\ ProcessReapedChildren
          /\ level \in DOMAIN Level
       \/ bpc \in {"join", "sleep"} /\ RestartTasks
       \/ /\ Children \/ HandleSigchld \/ HandleSighup \/ HandleSigterm
          /\ UNCHANGED <<known, svc, dagHeld, children, mainVars>>

\* A step is one of boot, of which few touch what module Cesar has, or one of
\* the kernel and the main thread that module Cesar has, too.
LEMMA BootStepKinds ==
    ASSUME BootInv, BootNext
    PROVE  BootOnly \/ CesarStep
  <1>1. bpc # "done" => mpc # "halted"
    BY DEF BootInv, BootTypeOK, PhaseOK, ReapingPC, TaskPC
  <1>2. CASE bpc # "done" /\ Reap
    BY <1>1, <1>2, LevelAssumption
       DEF Reap, CesarStep, Next, On, Main, MainNext, BootInv, BootTypeOK
  <1>3. CASE bpc # "done" /\ RestartDuringBoot
    BY <1>1, <1>3 DEF RestartDuringBoot, CesarStep, Next, On, Main, MainNext
  <1>4. CASE bpc # "done" /\ Environment
    <2>1. UNCHANGED <<known, svc, dagHeld, children, mainVars, controlVars>>
      BY <1>4 DEF Environment, Children, HandleSigchld, HandleSighup,
         HandleSigterm, dagVars
    <2>. QED
      BY <1>1, <1>4, <2>1 DEF Environment, CesarStep, Next, On
  <1>5. CASE bpc = "done" /\ Next /\ UNCHANGED bootVars
    BY <1>5 DEF CesarStep
  <1>. QED
    BY <1>2, <1>3, <1>4, <1>5 DEF BootNext, BootSteps, BootOnly
\* What such a step does to the memory Cesar knows: it marks a service, forks
\* and tracks a process, or moves the main thread from a reaping pass on.
LEMMA BootOnlyEffect ==
    ASSUME BootInv, BootOnly
    PROVE  \/ /\ mpc = "counters" /\ mpc' = "await"
              /\ UNCHANGED <<kernelVars, svc, children, controlVars>>
           \/ /\ \E n \in Service, p \in Pid \union {NoPid} :
                   \/ svc' \in {MarkStarting(n), MarkFailed(n)}
                   \/ svc' = MarkRunning(n, p) /\ IsOf(p, n)
              /\ UNCHANGED <<kernelVars, children, mpc, controlVars>>
           \/ /\ \E n \in Service, p \in Pid :
                   Fork(n, p) /\ children' = children \union {<<n, p>>}
              /\ UNCHANGED <<svc, mpc, controlVars>>
           \/ UNCHANGED <<kernelVars, svc, children, mpc, conn>>
              /\ listening' \in BOOLEAN
  <1>. USE DEF dagVars, mainVars, controlVars, BootInv
  <1>1. CASE Reaped
    BY <1>1 DEF Reaped, Goto
  <1>2. CASE AwaitHandles \/ Joined \/ Slept
    BY <1>2 DEF AwaitHandles, Joined, Slept, vars, TypeOK, ControlTypeOK
  <1>3. CASE StartControlServer
    BY <1>3 DEF StartControlServer
  <1>4. ASSUME NEW n \in Service, Start(n)
        PROVE  /\ svc' \in {MarkStarting(n), MarkFailed(n)}
               /\ UNCHANGED <<kernelVars, children, mpc, controlVars>>
    BY <1>4 DEF Start
  <1>5. ASSUME NEW n \in Service, SpawnTask(n)
        PROVE  \/ /\ \E p \in Pid :
                       Fork(n, p) /\ children' = children \union {<<n, p>>}
                  /\ UNCHANGED <<svc, mpc, controlVars>>
               \/ UNCHANGED <<kernelVars, svc, children, mpc, controlVars>>
    BY <1>5 DEF SpawnTask
  <1>6. ASSUME NEW n \in Service, Join(n)
        PROVE  /\ \E p \in Pid \union {NoPid} :
                   \/ svc' = MarkFailed(n)
                   \/ svc' = MarkRunning(n, p) /\ IsOf(p, n)
               /\ UNCHANGED <<kernelVars, children, mpc, controlVars>>
    <2>1. PICK r \in results :
            /\ r[1] = n
            /\ svc' = IF r[2] = NoPid THEN MarkFailed(n) ELSE MarkRunning(n, r[2])
      BY <1>6 DEF Join
    <2>2. r[2] \in Pid \union {NoPid} /\ (r[2] # NoPid => IsOf(r[2], n))
      BY <2>1 DEF BootTypeOK, ResultsOwned
    <2>. QED
      BY <1>6, <2>1, <2>2 DEF Join
  <1>. QED
    BY <1>1, <1>2, <1>3, <1>4, <1>5, <1>6
       DEF BootOnly, TypeOK, ControlTypeOK

\* The variables that such a step never changes.
LEMMA BootOnlyFrame ==
    ASSUME BootInv, BootOnly
    PROVE  UNCHANGED <<known, dagHeld, flagVars, mainLocals, tasks, disk>>
  BY DEF BootOnly, Reaped, AwaitHandles, Joined, Slept, StartControlServer,
     Start, SpawnTask, Join, vars, dagVars, mainVars

\* So it keeps the types and leaves every pid to its own service.
LEMMA BootOnlyOwned ==
    ASSUME BootInv, BootOnly
    PROVE  TypeOK' /\ PidIsItsOwn' /\ ProcessStep
  <1>. USE BootOnlyFrame
       DEF BootInv, TypeOK, TableTypeOK, MainTypeOK, ControlTypeOK, flagVars,
           mainLocals, controlVars
  <1>1. TableRecords
    BY DEF TableRecords
  <1>2. mpc' = mpc \/ (mpc = "counters" /\ mpc' = "await")
    BY BootOnlyEffect
  <1>3. MainTypeOK' /\ (dagHeld' <=> mpc' \in {"reloadNext", "reloadTerm",
                                     "reloadWait", "reloadUntrack"})
    BY <1>2 DEF MainPC
  <1>4. ControlTypeOK'
    BY BootOnlyEffect
  <1>5. MainOwned' \/ ~Remembered
    BY <1>2 DEF PidIsItsOwn, MainOwned, MainHoldsPid, Remembered, IsOf
  <1>6. CASE UNCHANGED <<kernelVars, svc, children, conn>>
    <2>1. Remembered /\ ProcessStep
      BY <1>6 DEF Remembered, ProcessStep, kernelVars
    <2>2. PidIsItsOwn'
      BY <1>5, <1>6, <2>1, OwnedRemains DEF PidIsItsOwn, ChildrenOwned
    <2>. QED
      BY <1>3, <1>4, <1>6, <2>1, <2>2 DEF KernelTypeOK, kernelVars
  <1>7. ASSUME NEW n \in Service, NEW p \in Pid \union {NoPid},
               \/ svc' \in {MarkStarting(n), MarkFailed(n)}
               \/ svc' = MarkRunning(n, p) /\ IsOf(p, n),
               UNCHANGED <<kernelVars, children, conn>>
        PROVE  TypeOK' /\ PidIsItsOwn' /\ ProcessStep
    <2>1. Remembered /\ ProcessStep /\ UNCHANGED forkedFor
      BY <1>7 DEF Remembered, ProcessStep, kernelVars
    <2>2. /\ svc' \in [Service -> ServiceRecord]
          /\ \A m \in Service \ known : svc'[m] = FromConfig
      BY <1>1, <1>7, MarkType, SMTT(30)
    <2>3. TableOwned'
      BY <1>1, <1>7, <2>1, MarkOwned DEF PidIsItsOwn
    <2>4. PidIsItsOwn'
      BY <1>5, <1>7, <2>1, <2>3, OwnedRemains DEF PidIsItsOwn, ChildrenOwned
    <2>. QED
      BY <1>3, <1>4, <1>7, <2>1, <2>2, <2>4 DEF KernelTypeOK, kernelVars
  <1>8. ASSUME NEW n \in Service, NEW p \in Pid, Fork(n, p),
               children' = children \union {<<n, p>>},
               UNCHANGED <<svc, conn>>
        PROVE  TypeOK' /\ PidIsItsOwn' /\ ProcessStep
    <2>1. Remembered /\ IsOf(p, n)' /\ KernelTypeOK'
      BY <1>8, ForkRemembers, ForkType
    <2>2. ProcessStep
      BY <1>8 DEF ProcessStep
    <2>3. ChildrenOwned'
      BY <1>8, <2>1, OwnedRemains DEF ChildrenOwned, IsOf
    <2>4. PidIsItsOwn'
      BY <1>5, <1>8, <2>1, <2>3, OwnedRemains DEF PidIsItsOwn
    <2>. QED
      BY <1>3, <1>4, <1>8, <2>1, <2>2, <2>4
  <1>. QED
    BY <1>6, <1>7, <1>8, BootOnlyEffect

-----------------------------------------------------------------------------
(***************************************************************************)
(* Boot goes through its phases, with the main thread where it belongs.    *)
(***************************************************************************)
\* A reaping pass outside a shutdown stays in its part of the main thread.
LEMMA ReapingPhase ==
    ASSUME ProcessReapedChildren, ~halting
    PROVE  /\ mpc' \in ReapingPC
           /\ UNCHANGED <<known, dagHeld, halting>>
  BY DEF ProcessReapedChildren, ReapCheck, ReapSnapshot, ReapOne, ReapDone,
     HandleExited, HandleFailed, HandleUntrack, MaybeRestart, HandleDone,
     AfterReaping, Goto, ReapingPC, mainLocals, dagVars

\* So does a restart task.
LEMMA TaskPhase ==
    ASSUME RestartTasks, mpc \in TaskPC
    PROVE  /\ mpc' \in TaskPC
           /\ UNCHANGED <<known, dagHeld, halting>>
  BY DEF RestartTasks, TaskWake, TaskFork, TaskPush, TaskMark, Goto, TaskPC,
     mainLocals, dagVars

\* Boot and the main thread take turns at one program counter.
LEMMA BootPhase ==
    ASSUME BootInv, [BootNext]_bootSpecVars
    PROVE  BootTypeOK' /\ PhaseOK' /\ LevelOK'
  <1>. USE DEF BootInv, BootTypeOK, PhaseOK, LevelOK
  <1>1. CASE UNCHANGED bootSpecVars
    BY <1>1 DEF bootSpecVars, bootVars, vars, dagVars, mainVars, mainLocals,
       controlVars
  <1>2. CASE CesarStep
    <2>1. UNCHANGED <<bpc, level, names, handles, results>>
      BY <1>2 DEF CesarStep, bootVars
    <2>2. BootTypeOK' /\ LevelOK'
      BY <2>1
    <2>3. PhaseOK'
      <3>1. CASE bpc = "done"
        BY <2>1, <3>1
      <3>2. CASE bpc \in {"reapFirst", "reapLast"} /\ ProcessReapedChildren
                 /\ level \in DOMAIN Level
        BY <1>2, <2>1, <3>2, ReapingPhase DEF CesarStep, controlVars
      <3>3. CASE bpc \in {"join", "sleep"} /\ RestartTasks
        BY <1>2, <2>1, <3>3, TaskPhase DEF CesarStep, controlVars
      <3>4. CASE UNCHANGED <<known, svc, dagHeld, children, mainVars>>
        BY <1>2, <2>1, <3>4 DEF CesarStep, controlVars, mainVars, mainLocals
      <3>. QED
        BY <1>2, <3>1, <3>2, <3>3, <3>4 DEF CesarStep
    <2>. QED
      BY <2>2, <2>3
  <1>3. CASE BootOnly
    <2>1. UNCHANGED <<known, dagHeld, halting>>
      BY <1>3, BootOnlyFrame DEF mainLocals
    <2>2. CASE Reaped
      <3>1. Level[level] \subseteq Service \/ level \notin DOMAIN Level
        BY LevelAssumption
      <3>2. /\ mpc = "counters" /\ mpc' = "await"
            /\ UNCHANGED <<conn, level, handles, results>>
        BY <2>2 DEF Reaped, Goto, controlVars
      <3>3. CASE bpc = "reapFirst"
        <4>1. bpc' = "start" /\ names' = Level[level]
          BY <2>2, <3>3 DEF Reaped
        <4>. QED
          BY <2>1, <3>1, <3>2, <3>3, <4>1
      <3>4. CASE bpc = "reapLast"
        <4>1. bpc' = "sleep" /\ names' = {}
          BY <2>2, <3>4 DEF Reaped
        <4>. QED
          BY <2>1, <3>2, <3>4, <4>1 DEF TaskPC
      <3>. QED
        BY <2>2, <3>3, <3>4 DEF Reaped
    <2>3. CASE AwaitHandles \/ Joined
      BY <2>1, <2>3
         DEF AwaitHandles, Joined, bootLocals, vars, mainVars, controlVars,
             TaskPC, ReapingPC
    <2>4. CASE Slept
      BY <2>1, <2>4 DEF Slept, vars, mainVars, controlVars, ReapingPC
    <2>5. CASE StartControlServer
      BY <2>1, <2>5 DEF StartControlServer, bootLocals
    <2>6. ASSUME NEW n \in Service, Start(n)
          PROVE  BootTypeOK' /\ PhaseOK' /\ LevelOK'
      BY <2>1, <2>6 DEF Start, mainVars, controlVars
    <2>7. ASSUME NEW n \in Service, SpawnTask(n)
          PROVE  BootTypeOK' /\ PhaseOK' /\ LevelOK'
      <3>1. \E q \in Pid \union {NoPid} : results' = results \union {<<n, q>>}
        BY <2>7 DEF SpawnTask
      <3>2. /\ UNCHANGED <<bpc, level, names, mpc, conn>>
            /\ bpc = "join" /\ n \in handles /\ handles' = handles \ {n}
        BY <2>7 DEF SpawnTask, mainVars, controlVars
      <3>. QED
        BY <2>1, <3>1, <3>2
    <2>8. ASSUME NEW n \in Service, Join(n)
          PROVE  BootTypeOK' /\ PhaseOK' /\ LevelOK'
      BY <2>1, <2>8 DEF Join, mainVars, controlVars
    <2>. QED
      BY <1>3, <2>2, <2>3, <2>4, <2>5, <2>6, <2>7, <2>8 DEF BootOnly
  <1>. QED
    BY <1>1, <1>2, <1>3, BootStepKinds

\* The pids that the spawn tasks return are those of the services they start.
LEMMA BootResults ==
    ASSUME BootInv, [BootNext]_bootSpecVars, Remembered
    PROVE  ResultsOwned'
  <1>. USE DEF ResultsOwned, IsOf, Remembered
  <1>1. CASE UNCHANGED results
    BY <1>1 DEF BootInv
  <1>2. ASSUME NEW n \in Service, SpawnTask(n)
        PROVE  ResultsOwned'
    <2>1. CASE \E p \in Pid : Fork(n, p) /\ results' = results \union {<<n, p>>}
      <3>1. PICK p \in Pid :
              Fork(n, p) /\ results' = results \union {<<n, p>>}
        BY <2>1
      <3>2. IsOf(p, n)'
        BY <3>1, ForkRemembers DEF BootInv, TypeOK
      <3>. QED
        BY <3>1, <3>2 DEF BootInv
    <2>2. CASE results' = results \union {<<n, NoPid>>}
      BY <2>2 DEF BootInv
    <2>. QED
      BY <1>2, <2>1, <2>2 DEF SpawnTask
  <1>3. ASSUME NEW n \in Service, Join(n)
        PROVE  ResultsOwned'
    BY <1>3 DEF Join, BootInv
  <1>. QED
    BY <1>1, <1>2, <1>3, BootStepKinds
       DEF BootOnly, CesarStep, bootSpecVars, bootVars, bootLocals, Reaped,
           AwaitHandles, Joined, Slept, StartControlServer, Start

\* At power-on there is nothing yet.
LEMMA BootInitInv ==
    ASSUME BootInit
    PROVE  BootInv /\ NoLostReap /\ TerminatedIsDead
  <1>1. /\ proc = [p \in Pid |-> "unused"]
        /\ forkedFor = [p \in Pid |-> {}]
        /\ svc = [n \in Service |-> FromConfig]
        /\ children = {}
    BY DEF BootInit, AfterBoot
  <1>2. FromConfig \in ServiceRecord
    BY DEF FromConfig, ServiceRecord, State
  <1>3. KernelTypeOK /\ TableTypeOK
    BY <1>1, <1>2 DEF BootInit, KernelTypeOK, ProcState, TableTypeOK
  <1>4. MainTypeOK /\ ControlTypeOK
    BY DEF BootInit, MainTypeOK, MainPC, Nothing, ControlTypeOK, Connection,
       ConnPC, Closed
  <1>5. TypeOK
    BY <1>3, <1>4 DEF BootInit, TypeOK
  <1>6. TableOwned /\ ChildrenOwned
    BY <1>1 DEF BootInit, TableOwned, FromConfig, ChildrenOwned
  <1>7. MainOwned /\ ConnectionsOwned
    BY DEF BootInit, MainOwned, MainHoldsPid, ConnectionsOwned,
       ConnectionOwned, HoldsPid, Closed
  <1>8. BootTypeOK /\ PhaseOK /\ LevelOK /\ ResultsOwned
    BY DEF BootInit, BootTypeOK, PhaseOK, ReapingPC, LevelOK, ResultsOwned
  <1>9. NoLostReap
    BY <1>1 DEF NoLostReap, Zombie
  <1>10. TerminatedIsDead
    BY DEF BootInit, TerminatedIsDead, At, Closed
  <1>. QED
    BY <1>5, <1>6, <1>7, <1>8, <1>9, <1>10 DEF BootInv, PidIsItsOwn

\* A step from power-on is one of Cesar or one of boot alone.
LEMMA BootIsCesarOrOnly ==
    ASSUME BootInv, [BootNext]_bootSpecVars
    PROVE  [Next]_vars \/ BootOnly
  BY BootStepKinds DEF CesarStep, bootSpecVars

\* What a pid was forked for is never forgotten.
LEMMA BootRemembers ==
    ASSUME BootInv, [BootNext]_bootSpecVars
    PROVE  Remembered
  <1>1. CASE BootOnly
    <2>1. UNCHANGED forkedFor \/ \E n \in Service, p \in Pid : Fork(n, p)
      BY <1>1, BootOnlyEffect DEF kernelVars
    <2>. QED
      BY <2>1, ForkRemembers DEF Remembered, BootInv, TypeOK
  <1>2. CASE [Next]_vars
    BY <1>2, StepRemembers DEF BootInv
  <1>. QED
    BY <1>1, <1>2, BootIsCesarOrOnly

\* All of it together is inductive.
LEMMA BootStepInv ==
    ASSUME BootInv, [BootNext]_bootSpecVars
    PROVE  BootInv'
  <1>1. TypeOK' /\ PidIsItsOwn'
    BY BootIsCesarOrOnly, BootOnlyOwned, StepType, StepOwned DEF BootInv
  <1>2. BootTypeOK' /\ PhaseOK' /\ LevelOK'
    BY BootPhase
  <1>3. ResultsOwned'
    BY BootRemembers, BootResults
  <1>. QED
    BY <1>1, <1>2, <1>3 DEF BootInv

\* So it holds from power-on.
LEMMA BootInvHolds == BootSpec => []BootInv
  <1>1. BootInit => BootInv
    BY BootInitInv
  <1>2. BootInv /\ [BootNext]_bootSpecVars => BootInv'
    BY BootStepInv
  <1>. QED
    BY <1>1, <1>2, PTL DEF BootSpec

-----------------------------------------------------------------------------
(***************************************************************************)
(* What module Cesar promises holds from power-on.                         *)
(***************************************************************************)
\* From power-on every variable has its type (invariant TypeOK).
THEOREM TypeCorrectFromBoot == BootSpec => []TypeOK
  BY BootInvHolds, PTL DEF BootInv

\* From power-on a pid kept for a service is that of a process forked for it
\* (invariant PidIsItsOwn), those that spawn tasks return included.
THEOREM PidsOwnedFromBoot == BootSpec => [](PidIsItsOwn /\ ResultsOwned)
  BY BootInvHolds, PTL DEF BootInv

\* No zombie is forgotten from power-on (invariant NoLostReap): neither one
\* that dies while its level is being started, when nobody reaps, nor one
\* that a pass of boot leaves behind.
THEOREM ReapsAllFromBoot == BootSpec => []NoLostReap
  <1>1. BootInit => NoLostReap
    BY BootInitInv
  <1>2. BootInv /\ NoLostReap /\ [BootNext]_bootSpecVars => NoLostReap'
    <2>. SUFFICES ASSUME BootInv, NoLostReap, [BootNext]_bootSpecVars
                  PROVE  NoLostReap'
      OBVIOUS
    <2>1. CASE BootOnly
      <3>1. \A p \in Pid : Zombie(p)' => Zombie(p) \/ sigchld'
        BY <2>1, BootOnlyOwned, DeathIsFinal DEF BootInv
      <3>2. UNCHANGED <<sigchld, reapNeeded>>
        BY <2>1, BootOnlyEffect, BootOnlyFrame DEF kernelVars, flagVars, Fork
      <3>3. mpc' = mpc \/ mpc = "counters"
        BY <2>1, BootOnlyEffect
      <3>. QED
        BY <3>1, <3>2, <3>3 DEF NoLostReap
    <2>2. CASE [Next]_vars
      BY <2>2, StepReaps DEF BootInv
    <2>. QED
      BY <2>1, <2>2, BootIsCesarOrOnly
  <1>. QED
    BY <1>1, <1>2, BootInvHolds, PTL DEF BootSpec

\* What the wait for a process's death established stays from power-on
\* (invariant TerminatedIsDead), boot having nobody who waits.
THEOREM TerminatedStayDeadFromBoot == BootSpec => []TerminatedIsDead
  <1>1. BootInit => TerminatedIsDead
    BY BootInitInv
  <1>2. BootInv /\ TerminatedIsDead /\ [BootNext]_bootSpecVars
          => TerminatedIsDead'
    <2>. SUFFICES ASSUME BootInv, TerminatedIsDead, [BootNext]_bootSpecVars
                  PROVE  TerminatedIsDead'
      OBVIOUS
    <2>1. CASE BootOnly
      <3>1. bpc # "done" /\ (mpc' = mpc \/ mpc' = "await")
        BY <2>1, BootOnlyEffect
           DEF BootOnly, Reaped, AwaitHandles, Joined, Slept,
               StartControlServer, Start, SpawnTask, Join
      <3>2. conn' = conn
        BY <2>1, BootOnlyEffect DEF controlVars
      <3>3. conn = [w \in Worker |-> Closed] /\ mpc # "reloadUntrack"
        BY <3>1 DEF BootInv, BootTypeOK, PhaseOK, ReapingPC, TaskPC
      <3>. QED
        BY <3>1, <3>2, <3>3 DEF TerminatedIsDead, At, Closed
    <2>2. CASE [Next]_vars
      BY <2>2, StepTerminated DEF BootInv
    <2>. QED
      BY <2>1, <2>2, BootIsCesarOrOnly
  <1>. QED
    BY <1>1, <1>2, BootInvHolds, PTL DEF BootSpec

-----------------------------------------------------------------------------
(***************************************************************************)
(* What boot relies on between a check and the step that uses it.          *)
(***************************************************************************)
\* What is required by a service of the level at hand is not of that level, so
\* that no step of boot for a service of the level touches it.
LEMMA RequiredIsEarlier ==
    ASSUME LevelOK, bpc \in {"start", "join"},
           NEW n \in Level[level], NEW d \in Requires[n]
    PROVE  d \in Service /\ d \notin Level[level]
  <1>1. level \in DOMAIN Level /\ DOMAIN Level = 1..Len(Level)
    BY LevelAssumption DEF LevelOK
  <1>2. PICK j \in 1..(level - 1) : d \in Level[j]
    BY <1>1, LevelAssumption
  <1>3. j \in DOMAIN Level /\ j # level
    BY <1>1, <1>2
  <1>4. Level[j] \intersect Level[level] = {} /\ Level[j] \subseteq Service
    BY <1>1, <1>3, LevelAssumption
  <1>. QED
    BY <1>2, <1>4

\* A dependency that was satisfied when its dependent was checked is so when
\* the spawn task forks: boot marks services of the level only, and the
\* restart tasks, all that runs besides, mark nothing but Running.
LEMMA BootChecked ==
    ASSUME BootInv, CheckedStaysSatisfied, [BootNext]_bootSpecVars
    PROVE  CheckedStaysSatisfied'
  <1>. USE DEF BootInv, CheckedStaysSatisfied
  <1>1. TableRecords
    BY DEF TypeOK, TableTypeOK, TableRecords
  <1>2. CASE handles' = {}
    BY <1>2
  <1>3. CASE UNCHANGED <<handles, svc, known>>
    BY <1>3 DEF AllDepsSatisfied
  <1>4. ASSUME NEW n \in Service, Start(n)
        PROVE  CheckedStaysSatisfied'
    <2>1. bpc = "start" /\ n \in Level[level] /\ known' = known
      BY <1>4 DEF Start, LevelOK
    <2>2. svc' \in {MarkStarting(n), MarkFailed(n)}
      BY <1>4 DEF Start
    <2>3. \A m \in Service \ {n} : svc'[m] = svc[m]
      BY <1>1, <2>2, MarkState
    <2>4. ASSUME NEW m \in handles'
          PROVE  Requires[m] = {} \/ AllDepsSatisfied(m)'
      <3>1. Requires[m] = {} \/ AllDepsSatisfied(m)
        BY <1>4, <2>4 DEF Start
      <3>2. m \in Level[level]
        BY <1>4, <2>1, <2>4 DEF Start, LevelOK
      <3>3. \A d \in Requires[m] : d \in Service \ {n}
        BY <2>1, <3>2, RequiredIsEarlier
      <3>. QED
        BY <2>1, <2>3, <3>1, <3>3 DEF AllDepsSatisfied
    <2>. QED
      BY <2>4
  <1>5. ASSUME NEW n \in Service, SpawnTask(n)
        PROVE  CheckedStaysSatisfied'
    BY <1>5 DEF SpawnTask, AllDepsSatisfied, dagVars
  <1>6. ASSUME NEW n \in Service, Join(n)
        PROVE  CheckedStaysSatisfied'
    <2>1. PICK r \in results :
            /\ r[1] = n
            /\ svc' = IF r[2] = NoPid THEN MarkFailed(n) ELSE MarkRunning(n, r[2])
      BY <1>6 DEF Join
    <2>2. /\ bpc = "join" /\ n \in Level[level]
          /\ UNCHANGED <<known, handles>>
      BY <1>6, <2>1 DEF Join, LevelOK
    <2>3. \A m \in Service \ {n} : svc'[m] = svc[m]
      BY <1>1, <2>1, MarkState DEF BootTypeOK
    <2>4. ASSUME NEW m \in handles, NEW d \in Requires[m]
          PROVE  d \in Service \ {n}
      BY <2>2, <2>4, RequiredIsEarlier DEF LevelOK
    <2>. QED
      BY <2>2, <2>3, <2>4 DEF AllDepsSatisfied
  <1>7. CASE CesarStep
    <2>1. UNCHANGED handles
      BY <1>7 DEF CesarStep, bootVars
    <2>2. CASE bpc \in {"join", "sleep"} /\ RestartTasks
      <3>1. UNCHANGED known
        BY <2>2, TaskPhase DEF PhaseOK
      <3>2. CASE TaskMark
        <4>1. PICK r \in cur : svc' = MarkRunning(r.name, r.pid)
          BY <3>2 DEF TaskMark
        <4>2. r.name \in Service /\ r.pid \in Pid \union {NoPid}
          BY DEF TypeOK, MainTypeOK, Result
        <4>3. \A m \in Service \ {r.name} : svc'[m] = svc[m]
          BY <1>1, <4>1, <4>2, MarkState
        <4>4. r.name \in known => svc'[r.name].state = "Running"
          BY <1>1, <4>1, <4>2, MarkState
        <4>. QED
          BY <2>1, <3>1, <4>2, <4>3, <4>4, RequiresAssumption
             DEF AllDepsSatisfied, BootTypeOK
      <3>. QED
        BY <1>3, <2>1, <2>2, <3>1, <3>2
           DEF RestartTasks, TaskWake, TaskFork, TaskPush, dagVars
    <2>. QED
      BY <1>2, <1>3, <1>7, <2>1, <2>2 DEF CesarStep, LevelOK, BootTypeOK
  <1>. QED
    BY <1>2, <1>3, <1>4, <1>5, <1>6, <1>7, BootStepKinds
       DEF BootOnly, Reaped, AwaitHandles, Joined, Slept, StartControlServer,
           LevelOK, BootTypeOK, bootLocals, vars, dagVars, bootSpecVars,
           bootVars

\* Between the check of its dependencies and the fork of a service, in
\* another task, no dependency is found to have died (invariant
\* CheckedStaysSatisfied), in any boot order that respects the dependencies.
THEOREM CheckedStays == BootSpec => []CheckedStaysSatisfied
  <1>1. BootInit => CheckedStaysSatisfied
    BY DEF BootInit, CheckedStaysSatisfied
  <1>2. BootInv /\ CheckedStaysSatisfied /\ [BootNext]_bootSpecVars
          => CheckedStaysSatisfied'
    BY BootChecked
  <1>. QED
    BY <1>1, <1>2, BootInvHolds, PTL DEF BootSpec

\* Nobody waits for children, and nobody removes one from RUNNING_CHILDREN,
\* as long as boot has the result of a spawn task in hand.
LEMMA BootRecorded ==
    ASSUME BootInv, RecordedBeforeReaped, [BootNext]_bootSpecVars
    PROVE  RecordedBeforeReaped'
  <1>. USE DEF BootInv, RecordedBeforeReaped
  <1>1. \A r \in results : r[2] # NoPid => r[2] \in Pid /\ proc[r[2]] # "unused"
    BY DEF ResultsOwned, IsOf, TypeOK, KernelTypeOK
  <1>2. CASE results' = {}
    BY <1>2
  <1>3. CASE /\ results' \subseteq results
             /\ children \subseteq children'
             /\ \A p \in Pid : proc[p] # "unused" /\ proc'[p] = "reaped"
                                 => proc[p] = "reaped"
    BY <1>1, <1>3
  <1>4. ASSUME NEW n \in Service, SpawnTask(n)
        PROVE  RecordedBeforeReaped'
    <2>1. CASE \E p \in Pid :
                 /\ Fork(n, p)
                 /\ children' = children \union {<<n, p>>}
                 /\ results' = results \union {<<n, p>>}
      <3>1. PICK p \in Pid :
              /\ Fork(n, p)
              /\ children' = children \union {<<n, p>>}
              /\ results' = results \union {<<n, p>>}
        BY <2>1
      <3>2. proc' \in [Pid -> ProcState] /\ proc'[p] # "reaped"
            /\ \A q \in Pid \ {p} : proc'[q] = proc[q]
        BY <3>1, ForkType DEF Fork, TypeOK, KernelTypeOK
      <3>. QED
        BY <1>1, <3>1, <3>2
    <2>2. CASE results' = results \union {<<n, NoPid>>}
               /\ UNCHANGED <<kernelVars, children>>
      BY <2>2 DEF kernelVars
    <2>. QED
      BY <1>4, <2>1, <2>2 DEF SpawnTask
  <1>5. CASE CesarStep
    <2>1. UNCHANGED results
      BY <1>5 DEF CesarStep, bootVars
    <2>2. CASE bpc \in {"join", "sleep"} /\ RestartTasks
      <3>1. children \subseteq children'
        BY <2>2 DEF RestartTasks, TaskWake, TaskFork, TaskPush, TaskMark
      <3>2. \A p \in Pid : proc[p] # "unused" => proc'[p] = proc[p]
        BY <2>2 DEF RestartTasks, TaskWake, TaskFork, Fork, TaskPush,
           TaskMark, kernelVars, TypeOK, KernelTypeOK
      <3>. QED
        BY <1>3, <2>1, <3>1, <3>2
    <2>3. CASE /\ Children \/ HandleSigchld \/ HandleSighup \/ HandleSigterm
               /\ UNCHANGED children
      <3>1. \A p \in Pid : proc'[p] = "reaped" => proc[p] = "reaped"
        BY <2>3 DEF Children, EnterSession, Exit, HandleSigchld,
           HandleSighup, HandleSigterm, kernelVars, TypeOK, KernelTypeOK
      <3>. QED
        BY <1>3, <2>1, <2>3, <3>1
    <2>. QED
      BY <1>2, <1>5, <2>1, <2>2, <2>3 DEF CesarStep, LevelOK, BootTypeOK
  <1>. QED
    BY <1>2, <1>3, <1>4, <1>5, BootStepKinds
       DEF BootOnly, Reaped, AwaitHandles, Joined, Slept, StartControlServer,
           Start, Join, bootLocals, vars, kernelVars, bootSpecVars, bootVars

\* A process of boot is not waited for before mark_running has recorded it
\* (invariant RecordedBeforeReaped), however early it dies.
THEOREM RecordedFirst == BootSpec => []RecordedBeforeReaped
  <1>1. BootInit => RecordedBeforeReaped
    BY DEF BootInit, RecordedBeforeReaped
  <1>2. BootInv /\ RecordedBeforeReaped /\ [BootNext]_bootSpecVars
          => RecordedBeforeReaped'
    BY BootRecorded
  <1>. QED
    BY <1>1, <1>2, BootInvHolds, PTL DEF BootSpec

\* What is Starting has a spawn task or its result, or a client's thread.
StartingIsInHand ==
    \A n \in Service : svc[n].state = "Starting" =>
        \/ n \in handles
        \/ \E r \in results : r[1] = n
        \/ \E w \in Worker : Reserved(w, n)

\* Boot lets go of a service only with another state, a client's thread too.
LEMMA BootInHand ==
    ASSUME BootInv, StartingIsInHand, [BootNext]_bootSpecVars
    PROVE  StartingIsInHand'
  <1>. SUFFICES ASSUME NEW n \in Service, svc'[n].state = "Starting",
                       \A w \in Worker : ~Reserved(w, n)'
                PROVE  n \in handles' \/ \E r \in results' : r[1] = n
    BY DEF StartingIsInHand
  <1>. USE DEF BootInv
  <1>1. TableRecords
    BY DEF TypeOK, TableTypeOK, TableRecords
  <1>2. CASE [Next]_vars /\ UNCHANGED bootVars
    <2>1. /\ svc[n].state = "Starting"
          /\ \A w \in Worker : ~Reserved(w, n)
      BY <1>2, StartingKept
    <2>. QED
      BY <1>2, <2>1 DEF StartingIsInHand, bootVars
  <1>3. CASE BootOnly
    <2>1. \A w \in Worker : ~Reserved(w, n)
      BY <1>3, BootOnlyEffect DEF controlVars, Reserved
    <2>2. ASSUME svc[n].state = "Starting"
          PROVE  n \in handles \/ \E r \in results : r[1] = n
      BY <2>1, <2>2 DEF StartingIsInHand
    <2>3. CASE svc' = svc /\ handles' = handles /\ results' = results
      BY <2>2, <2>3
    <2>4. ASSUME NEW m \in Service, Start(m)
          PROVE  n \in handles' \/ \E r \in results' : r[1] = n
      <3>1. /\ \/ svc' = MarkStarting(m) /\ m \in handles'
               \/ svc' = MarkFailed(m)
            /\ handles \subseteq handles' /\ results' = results
        BY <2>4 DEF Start
      <3>2. CASE n = m
        BY <1>1, <3>1, <3>2, MarkState
      <3>3. CASE n # m
        <4>1. svc'[n] = svc[n]
          BY <1>1, <3>1, <3>3, MarkState
        <4>. QED
          BY <2>2, <3>1, <4>1
      <3>. QED
        BY <3>2, <3>3
    <2>5. ASSUME NEW m \in Service, SpawnTask(m)
          PROVE  n \in handles' \/ \E r \in results' : r[1] = n
      <3>1. /\ svc' = svc /\ handles' = handles \ {m}
            /\ \E q : results' = results \union {<<m, q>>}
        BY <2>5 DEF SpawnTask, dagVars
      <3>2. PICK q : results' = results \union {<<m, q>>}
        BY <3>1
      <3>3. <<m, q>> \in results' /\ <<m, q>>[1] = m
        BY <3>2
      <3>4. n \in handles \/ \E r \in results : r[1] = n
        BY <2>2, <3>1
      <3>. QED
        BY <3>1, <3>2, <3>3, <3>4
    <2>6. ASSUME NEW m \in Service, Join(m)
          PROVE  n \in handles' \/ \E r \in results' : r[1] = n
      <3>1. PICK r \in results :
              /\ r[1] = m
              /\ results' = results \ {r}
              /\ svc' = IF r[2] = NoPid THEN MarkFailed(m)
                                        ELSE MarkRunning(m, r[2])
        BY <2>6 DEF Join
      <3>2. handles' = handles
        BY <2>6 DEF Join
      <3>3. n # m /\ svc'[n] = svc[n]
        BY <1>1, <3>1, MarkState DEF BootTypeOK
      <3>. QED
        BY <2>2, <3>1, <3>2, <3>3
    <2>. QED
      BY <1>3, <2>3, <2>4, <2>5, <2>6
         DEF BootOnly, Reaped, AwaitHandles, Joined, Slept,
             StartControlServer, bootLocals, vars, dagVars
  <1>. QED
    BY <1>2, <1>3, BootStepKinds DEF CesarStep, bootSpecVars

\* When clients are let in no service is left in the middle of its start
\* (invariant NobodyLeftStarting): what is Starting then has a client's thread.
THEOREM NobodyIsLeftStarting == BootSpec => []NobodyLeftStarting
  <1>1. BootInit => StartingIsInHand
    BY DEF BootInit, AfterBoot, StartingIsInHand, FromConfig
  <1>2. BootInv /\ StartingIsInHand /\ [BootNext]_bootSpecVars
          => StartingIsInHand'
    BY BootInHand
  <1>3. BootInv /\ StartingIsInHand => NobodyLeftStarting
    BY DEF BootInv, LevelOK, StartingIsInHand, NobodyLeftStarting
  <1>. QED
    BY <1>1, <1>2, <1>3, BootInvHolds, PTL DEF BootSpec

-----------------------------------------------------------------------------
(***************************************************************************)
(* The order of the forks, from power-on.                                  *)
(***************************************************************************)
\* What boot forks was checked, and no dependency has died since.
LEMMA BootForkOrder ==
    ASSUME BootInv, CheckedStaysSatisfied, ForkOrder, BootOnly
    PROVE  ForkOrder'
  <1>. USE DEF BootInv, ForkOrder
  <1>1. \/ UNCHANGED forkedFor
        \/ \E n \in Service, p \in Pid :
             Fork(n, p) /\ \A d \in Requires[n] : WasForked(d)
    <2>1. CASE UNCHANGED forkedFor
      BY <2>1
    <2>2. ASSUME NEW n \in Service, NEW p \in Pid, SpawnTask(n), Fork(n, p)
          PROVE  \A d \in Requires[n] : WasForked(d)
      BY <2>2, SatisfiedWasForked
         DEF SpawnTask, CheckedStaysSatisfied, PidIsItsOwn
    <2>. QED
      BY <2>1, <2>2
         DEF BootOnly, Reaped, AwaitHandles, Joined, Slept,
             StartControlServer, Start, Join, SpawnTask, vars, kernelVars
  <1>2. DependenciesFirst' /\ \A n : WasForked(n) => WasForked(n)'
    BY <1>1, OrderStays DEF TypeOK
  <1>3. UNCHANGED <<reaped, cur, tasks>> /\ (mpc' = mpc \/ mpc' = "await")
    BY BootOnlyFrame, BootOnlyEffect DEF mainLocals
  <1>4. RestartsWereForked'
    BY <1>2, <1>3 DEF RestartsWereForked
  <1>5. StartsAreChecked'
    BY <1>2, BootOnlyEffect DEF controlVars, StartsAreChecked
  <1>. QED
    BY <1>2, <1>4, <1>5

\* So it holds from power-on.
LEMMA ForkOrderHolds == BootSpec => []ForkOrder
  <1>1. BootInit => ForkOrder
    <2>. SUFFICES ASSUME BootInit PROVE ForkOrder
      OBVIOUS
    <2>1. forkedFor = [p \in Pid |-> {}]
      BY DEF BootInit, AfterBoot
    <2>. QED
      BY <2>1 DEF BootInit, ForkOrder, DependenciesFirst, RestartsWereForked,
         StartsAreChecked, Closed
  <1>2. BootInv /\ CheckedStaysSatisfied /\ ForkOrder
          /\ [BootNext]_bootSpecVars => ForkOrder'
    BY BootIsCesarOrOnly, BootForkOrder, StepForkOrder DEF BootInv
  <1>. QED
    BY <1>1, <1>2, BootInvHolds, CheckedStays, PTL DEF BootSpec

\* From power-on no service is ever forked before the services it requires
\* were (invariant DependenciesFirst), be it by boot, a client's Start or an
\* automatic restart.
THEOREM ForksInOrderFromBoot == BootSpec => []DependenciesFirst
  <1>1. ForkOrder => DependenciesFirst
    BY DEF ForkOrder
  <1>. QED
    BY <1>1, ForkOrderHolds, PTL

-----------------------------------------------------------------------------
(***************************************************************************)
(* The contract of an init process, from power-on.                         *)
(***************************************************************************)
\* What boot does besides reaping and restarting is a birth, or nothing the
\* contract sees.
LEMMA BootOnlyImplements ==
    ASSUME BootInv, BootOnly
    PROVE  [Contract!Next]_Contract!contractVars
  <1>1. bpc # "done"
    BY DEF BootOnly, Reaped, AwaitHandles, Joined, Slept, StartControlServer,
       Start, SpawnTask, Join
  <1>2. mpc # "halted"
    BY <1>1 DEF BootInv, BootTypeOK, PhaseOK, ReapingPC, TaskPC
  <1>3. mpc' # "halted"
    BY <1>2, BootOnlyEffect
  <1>. QED
    BY <1>2, <1>3, BootOnlyOwned, ProcessContract DEF BootInv, TypeOK

\* From power-on every behaviour of PID 1, boot included, is one the contract
\* of an init process allows (the safety part of ImplementsContract): the
\* children that boot forks and that die while it starts others are waited
\* for once, too.
THEOREM ContractFromBoot == BootSpec => Contract!Safety
  <1>1. BootInit => Contract!Init
    <2>. SUFFICES ASSUME BootInit PROVE Contract!Init
      OBVIOUS
    <2>1. proc = [p \in Pid |-> "unused"] /\ mpc = "await"
      BY DEF BootInit, AfterBoot
    <2>2. \A p \in Pid : Stage(p) = "unborn"
      BY <2>1, BootInitInv, StageIs DEF BootInv, TypeOK
    <2>. QED
      BY <2>1, <2>2 DEF Contract!Init
  <1>2. BootInv /\ [BootNext]_bootSpecVars
          => [Contract!Next]_Contract!contractVars
    BY BootIsCesarOrOnly, BootOnlyImplements, StepImplements DEF BootInv
  <1>. QED
    BY <1>1, <1>2, BootInvHolds, PTL DEF BootSpec, Contract!Safety

-----------------------------------------------------------------------------
(***************************************************************************)
(* PID 1 knows its processes, from power-on.  Boot forks a service once:   *)
(* what it has still to come to was never forked, so that the process it   *)
(* forks begins the one life of the service (module TrackingProofs).       *)
(***************************************************************************)
\* The services that boot has still to fork.
Ahead(n) ==
    /\ bpc # "done"
    /\ \/ n \in names \union handles
       \/ \E j \in DOMAIN Level :
            n \in Level[j] /\ (j > level \/ (j = level /\ bpc = "reapFirst"))
AheadIsNew == \A n \in Service : Ahead(n) => ~WasForked(n)

\* Boot goes through them in one direction, and forks one only as it leaves
\* it behind.
LEMMA AheadShrinks ==
    ASSUME BootInv, BootOnly, NEW n \in Service, Ahead(n)'
    PROVE  /\ Ahead(n)
           /\ ~SpawnTask(n)
  <1>. USE DEF BootInv, BootTypeOK, PhaseOK, LevelOK, Ahead, bootLocals
  <1>1. CASE Reaped
    <2>1. UNCHANGED <<level, handles>> /\ mpc = "counters"
      BY <1>1 DEF Reaped
    <2>2. \/ bpc = "reapFirst" /\ bpc' = "start" /\ names' = Level[level]
          \/ bpc = "reapLast" /\ bpc' = "sleep" /\ names' = {}
      BY <1>1 DEF Reaped
    <2>3. bpc = "reapFirst" => level \in DOMAIN Level
      BY <2>1
    <2>. QED
      BY <2>1, <2>2, <2>3 DEF SpawnTask
  <1>2. CASE AwaitHandles \/ Joined
    BY <1>2 DEF AwaitHandles, Joined, SpawnTask
  <1>3. CASE Slept
    <2>1. /\ bpc = "sleep" /\ bpc' = "reapFirst" /\ level' = level + 1
          /\ UNCHANGED <<names, handles>> /\ level \in Nat
      BY <1>3 DEF Slept
    <2>2. \A j \in DOMAIN Level : (j > level' \/ j = level') => j > level
      BY <2>1, LevelAssumption
    <2>. QED
      BY <2>1, <2>2 DEF SpawnTask
  <1>4. CASE StartControlServer
    BY <1>4 DEF StartControlServer
  <1>5. ASSUME NEW m \in Service, Start(m)
        PROVE  Ahead(n) /\ ~SpawnTask(n)
    <2>1. /\ bpc = "start" /\ m \in names /\ names' = names \ {m}
          /\ handles' \subseteq handles \union {m}
          /\ UNCHANGED <<bpc, level>>
      BY <1>5 DEF Start
    <2>. QED
      BY <2>1 DEF SpawnTask
  <1>6. ASSUME NEW m \in Service, SpawnTask(m)
        PROVE  Ahead(n) /\ n # m
    <2>1. /\ bpc = "join" /\ m \in handles /\ handles' = handles \ {m}
          /\ UNCHANGED <<bpc, level, names>>
      BY <1>6 DEF SpawnTask
    <2>2. names = {} /\ m \in Level[level] /\ level \in DOMAIN Level
      BY <2>1
    <2>3. \A j \in DOMAIN Level : j > level => m \notin Level[j]
      BY <2>2, LevelAssumption
    <2>. QED
      BY <2>1, <2>2, <2>3
  <1>7. ASSUME NEW m \in Service, Join(m)
        PROVE  Ahead(n) /\ ~SpawnTask(n)
    <2>1. bpc = "join" /\ UNCHANGED <<bpc, level, names, handles>>
      BY <1>7 DEF Join
    <2>2. ~SpawnTask(n)
      BY <1>7 DEF SpawnTask, Join
    <2>. QED
      BY <2>1, <2>2
  <1>. QED
    BY <1>1, <1>2, <1>3, <1>4, <1>5, <1>6, <1>7 DEF BootOnly

\* While boot waits for the main thread it forks nothing but what was forked
\* before: a restart is of a service that died.
LEMMA RestartsForkAgain ==
    ASSUME BootInv, ForkOrder, CesarStep, bpc # "done",
           NEW n \in Service, WasForked(n)'
    PROVE  WasForked(n)
  <1>. USE DEF WasForked, IsOf
  <1>1. CASE UNCHANGED forkedFor
    BY <1>1
  <1>2. CASE TaskFork
    <2>1. CASE UNCHANGED kernelVars
      BY <1>1, <2>1 DEF kernelVars
    <2>2. ASSUME NEW r \in cur, NEW p \in Pid, Fork(r.name, p)
          PROVE  WasForked(n)
      <3>1. r.name \in Service /\ WasForked(r.name)
        BY <1>2 DEF TaskFork, ForkOrder, RestartsWereForked, BootInv, TypeOK,
           MainTypeOK, Result
      <3>2. n = r.name \/ WasForked(n)
        BY <2>2, <3>1 DEF Fork, BootInv, TypeOK, KernelTypeOK
      <3>. QED
        BY <3>1, <3>2
    <2>. QED
      BY <1>2, <2>1, <2>2 DEF TaskFork
  <1>3. CASE ProcessReapedChildren
    BY <1>1, <1>3
       DEF ProcessReapedChildren, ReapCheck, ReapSnapshot, ReapOne, ReapDone,
           HandleExited, HandleFailed, HandleUntrack, MaybeRestart,
           HandleDone, WaitPid, kernelVars
  <1>4. CASE Children \/ HandleSigchld \/ HandleSighup \/ HandleSigterm
    BY <1>1, <1>4
       DEF Children, EnterSession, Exit, HandleSigchld, HandleSighup,
           HandleSigterm, kernelVars
  <1>5. CASE RestartTasks /\ ~TaskFork
    BY <1>1, <1>5 DEF RestartTasks, TaskWake, TaskPush, TaskMark, kernelVars
  <1>. QED
    BY <1>2, <1>3, <1>4, <1>5 DEF CesarStep

\* So what is ahead stays new.
LEMMA BootStaysAhead ==
    ASSUME BootInv, ForkOrder, AheadIsNew, [BootNext]_bootSpecVars
    PROVE  AheadIsNew'
  <1>. SUFFICES ASSUME NEW n \in Service, Ahead(n)', WasForked(n)'
                PROVE  FALSE
    BY DEF AheadIsNew
  <1>1. CASE UNCHANGED bootSpecVars
    BY <1>1 DEF bootSpecVars, bootVars, vars, kernelVars, Ahead, AheadIsNew,
       WasForked, IsOf
  <1>2. CASE CesarStep
    <2>1. bpc # "done" /\ Ahead(n)
      BY <1>2 DEF CesarStep, bootVars, Ahead
    <2>. QED
      BY <1>2, <2>1, RestartsForkAgain DEF AheadIsNew
  <1>3. CASE BootOnly
    <2>1. Ahead(n) /\ ~SpawnTask(n)
      BY <1>3, AheadShrinks
    <2>2. ~WasForked(n)
      BY <2>1 DEF AheadIsNew
    <2>3. CASE UNCHANGED kernelVars
      BY <2>2, <2>3 DEF kernelVars, WasForked, IsOf
    <2>4. ASSUME NEW m \in Service, SpawnTask(m), NEW p \in Pid, Fork(m, p)
          PROVE  FALSE
      <3>1. m # n
        BY <2>1, <2>4
      <3>. QED
        BY <2>2, <2>4, <3>1
           DEF Fork, WasForked, IsOf, BootInv, TypeOK, KernelTypeOK
    <2>. QED
      BY <1>3, <2>3, <2>4
         DEF BootOnly, Reaped, AwaitHandles, Joined, Slept,
             StartControlServer, Start, Join, SpawnTask, vars
  <1>. QED
    BY <1>1, <1>2, <1>3, BootStepKinds

\* What the steps of boot do to the processes: one forks, for a service that
\* had none, and tracks it at once.
LEMMA BootForks ==
    ASSUME BootInv, AheadIsNew, BootOnly
    PROVE  \/ UNCHANGED <<kernelVars, children>>
           \/ /\ \E n \in Service, p \in Pid :
                   /\ Fork(n, p) /\ ~WasForked(n)
                   /\ children' = children \union {<<n, p>>}
              /\ UNCHANGED svc /\ mpc = "await" /\ mpc' = "await"
  <1>1. ASSUME NEW n \in Service, SpawnTask(n), ~UNCHANGED <<kernelVars, children>>
        PROVE  /\ \E p \in Pid : /\ Fork(n, p)
                                 /\ children' = children \union {<<n, p>>}
               /\ ~WasForked(n)
               /\ UNCHANGED svc /\ mpc = "await" /\ mpc' = "await"
    <2>1. bpc = "join" /\ n \in handles
      BY <1>1 DEF SpawnTask
    <2>2. ~WasForked(n)
      BY <2>1 DEF AheadIsNew, Ahead
    <2>. QED
      BY <1>1, <2>2 DEF SpawnTask, mainVars, dagVars
  <1>2. CASE \A n \in Service : ~SpawnTask(n)
    BY <1>2
       DEF BootOnly, Reaped, AwaitHandles, Joined, Slept, StartControlServer,
           Start, Join, vars
  <1>. QED
    BY <1>1, <1>2

\* So a service has one life: nothing of it is left over when boot forks it.
LEMMA BootOnlyKeepsLife ==
    ASSUME BootInv, ForkOrder, AheadIsNew, OneLife, BootOnly
    PROVE  OneLife'
  <1>1. UNCHANGED <<reaped, cur, tasks>> /\ (mpc' = mpc \/ mpc' = "await")
    BY BootOnlyFrame, BootOnlyEffect DEF mainLocals
  <1>2. \A n : (HasResult(n)' <=> HasResult(n)) /\ (InHand(n)' => InHand(n))
    BY <1>1 DEF HasResult, InHand
  <1>3. ASSUME NEW n \in Service, Unwaited(n)' = Unwaited(n)
        PROVE  LifeOf(n)'
    <2>1. LifeOf(n)
      BY DEF OneLife
    <2>. QED
      BY <1>1, <1>2, <1>3, <2>1 DEF LifeOf
  <1>4. CASE UNCHANGED kernelVars
    BY <1>3, <1>4 DEF kernelVars, Unwaited, IsOf, OneLife
  <1>5. ASSUME NEW n \in Service, NEW p \in Pid, Fork(n, p), ~WasForked(n)
        PROVE  OneLife'
    <2>1. /\ Unwaited(n)' = {p}
          /\ \A m \in Service \ {n} : Unwaited(m)' = Unwaited(m)
      BY <1>5, ForkUnwaited
         DEF Unwaited, WasForked, BootInv, TypeOK
    <2>2. ~HasResult(n) /\ ~InHand(n) /\ tasks[n] = 0
      <3>1. tasks[n] \in Nat
        BY DEF BootInv, TypeOK, MainTypeOK
      <3>. QED
        BY <1>5, <3>1 DEF ForkOrder, RestartsWereForked, HasResult, InHand
    <2>3. LifeOf(n)'
      <3>1. LifeOf(n)
        BY DEF OneLife
      <3>. QED
        BY <1>1, <1>2, <2>1, <2>2, <3>1 DEF LifeOf
    <2>4. \A m \in Service \ {n} : LifeOf(m)'
      BY <1>3, <2>1
    <2>. QED
      BY <2>3, <2>4 DEF OneLife
  <1>. QED
    BY <1>4, <1>5, BootForks

\* The pid that Join enters is that of the process: nobody has waited for it.
LEMMA BootOnlyIsCurrent ==
    ASSUME BootInv, AheadIsNew, OneLife, PidIsCurrent, RecordedBeforeReaped,
           BootOnly
    PROVE  PidIsCurrent'
  <1>. USE DEF BootInv, TypeOK
  <1>1. bpc # "done" /\ cur' = cur
    BY BootOnlyFrame
       DEF mainLocals, BootOnly, Reaped, AwaitHandles, Joined, Slept,
           StartControlServer, Start, SpawnTask, Join
  <1>2. /\ mpc' = mpc \/ (mpc = "counters" /\ mpc' = "await")
        /\ Fresh' <=> Fresh
    BY BootOnlyEffect DEF Fresh
  <1>3. VictimIsCurrent'
    BY <1>1, <1>2
       DEF PhaseOK, BootTypeOK, ReapingPC, TaskPC, VictimIsCurrent
  <1>4. TableRecords
    BY DEF TableTypeOK, TableRecords
  <1>5. CASE UNCHANGED kernelVars
    <2>1. /\ \A n : Unwaited(n)' = Unwaited(n)
          /\ UNCHANGED proc
      BY <1>5 DEF kernelVars, Unwaited, IsOf
    <2>2. FreshIsThere'
      BY <1>1, <1>2, <2>1 DEF PidIsCurrent, FreshIsThere
    <2>3. ASSUME NEW n \in Service,
                 svc'[n].pid \in {svc[n].pid, NoPid}
                   \/ \A p \in Unwaited(n) : p = svc'[n].pid,
                 svc'[n].pid # NoPid, NEW p \in Unwaited(n)
          PROVE  p = svc'[n].pid \/ (Fresh /\ \E r \in cur : r.pid = p)
      BY <2>3 DEF PidIsCurrent, TableIsCurrent
    <2>4. ASSUME NEW n \in Service
          PROVE  svc'[n].pid \in {svc[n].pid, NoPid}
                   \/ \A p \in Unwaited(n) : p = svc'[n].pid
      <3>1. ASSUME NEW m \in Service, Start(m)
            PROVE  svc'[n].pid \in {svc[n].pid, NoPid}
        BY <1>4, <3>1, MarkPid DEF Start
      <3>2. ASSUME NEW m \in Service, Join(m)
            PROVE  svc'[n].pid \in {svc[n].pid, NoPid}
                     \/ \A p \in Unwaited(n) : p = svc'[n].pid
        <4>1. PICK r \in results :
                /\ r[1] = m
                /\ svc' = IF r[2] = NoPid THEN MarkFailed(m)
                                          ELSE MarkRunning(m, r[2])
          BY <3>2 DEF Join
        <4>2. CASE r[2] = NoPid
          BY <1>4, <4>1, <4>2, MarkPid
        <4>3. CASE r[2] # NoPid /\ n # m
          BY <1>4, <4>1, <4>3, MarkState DEF BootTypeOK
        <4>4. CASE r[2] # NoPid /\ n = m
          <5>1. r[2] \in Unwaited(n)
            BY <4>1, <4>4 DEF ResultsOwned, RecordedBeforeReaped, Unwaited, IsOf
          <5>2. \A p \in Unwaited(n) : p = r[2]
            BY <5>1 DEF OneLife, LifeOf
          <5>3. m \in known /\ known = Service
            BY <1>1 DEF PhaseOK
          <5>4. svc'[n].pid = r[2]
            BY <1>4, <4>1, <4>4, <5>3
               DEF MarkRunning, Updated, TableRecords, ServiceRecord
          <5>. QED
            BY <5>2, <5>4
        <4>. QED
          BY <4>2, <4>3, <4>4
      <3>3. CASE UNCHANGED svc
        BY <3>3
      <3>. QED
        BY <3>1, <3>2, <3>3
           DEF BootOnly, Reaped, AwaitHandles, Joined, Slept,
               StartControlServer, SpawnTask, vars, dagVars
    <2>5. TableIsCurrent'
      BY <1>1, <1>2, <2>1, <2>3, <2>4 DEF TableIsCurrent
    <2>. QED
      BY <1>3, <2>2, <2>5 DEF PidIsCurrent
  <1>6. ASSUME NEW n \in Service, NEW p \in Pid, Fork(n, p), ~WasForked(n),
               UNCHANGED svc, mpc = "await", mpc' = "await"
        PROVE  PidIsCurrent'
    <2>1. \A m \in Service \ {n} : Unwaited(m)' = Unwaited(m)
      BY <1>6, ForkUnwaited
    <2>2. svc[n].pid = NoPid
      BY <1>6 DEF PidIsItsOwn, TableOwned, WasForked, IsOf
    <2>3. ~Fresh /\ ~Fresh'
      BY <1>6 DEF Fresh
    <2>4. TableIsCurrent'
      BY <1>6, <2>1, <2>2, <2>3 DEF PidIsCurrent, TableIsCurrent
    <2>. QED
      BY <1>3, <2>3, <2>4 DEF PidIsCurrent, FreshIsThere
  <1>. QED
    BY <1>5, <1>6, BootForks

\* What boot forks is tracked in the same step, and nothing else is lost.
LEMMA BootOnlyTracks ==
    ASSUME BootInv, AheadIsNew, TrackedOrForked, BootOnly
    PROVE  TrackedOrForked'
  <1>1. cur' = cur /\ (mpc' = mpc \/ mpc = "counters")
    BY BootOnlyFrame, BootOnlyEffect DEF mainLocals
  <1>2. CASE UNCHANGED <<kernelVars, children>>
    BY <1>1, <1>2 DEF kernelVars, TrackedOrForked, Tracked, Alive
  <1>3. ASSUME NEW n \in Service, NEW p \in Pid, Fork(n, p), mpc = "await",
               children' = children \union {<<n, p>>}
        PROVE  TrackedOrForked'
    <2>1. \A q \in Pid \ {p} : Alive(q)' => Alive(q)
      BY <1>3, ForkUnwaited DEF BootInv, TypeOK
    <2>2. <<n, p>> \in children' /\ <<n, p>>[2] = p
      BY <1>3
    <2>. QED
      BY <1>3, <2>1, <2>2 DEF TrackedOrForked, Tracked
  <1>. QED
    BY <1>2, <1>3, BootForks

\* All that the clients may ask for is a shutdown or a reboot.
BootTrackingInv == TrackingInv /\ AheadIsNew

\* At power-on there is no process.
LEMMA BootTrackingStarts == BootInit => BootTrackingInv
  <1>. SUFFICES ASSUME BootInit PROVE BootTrackingInv
    OBVIOUS
  <1>1. TypeOK /\ PidIsItsOwn /\ TerminatedIsDead
    BY BootInitInv DEF BootInv
  <1>2. /\ proc = [p \in Pid |-> "unused"]
        /\ forkedFor = [p \in Pid |-> {}]
    BY DEF BootInit, AfterBoot
  <1>3. \A n \in Service : ~WasForked(n) /\ Unwaited(n) = {}
    BY <1>2 DEF WasForked, Unwaited, IsOf
  <1>4. /\ mpc = "await" /\ reaped = {}
        /\ \A n \in Service : tasks[n] = 0
    BY DEF BootInit
  <1>5. \A n \in Service : ~HasResult(n) /\ ~InHand(n)
    BY <1>4 DEF HasResult, InHand
  <1>6. OneLife
    <2>. SUFFICES ASSUME NEW n \in Service PROVE LifeOf(n)
      BY DEF OneLife
    <2>1. tasks[n] = 0 /\ tasks[n] <= 1
      BY <1>4
    <2>. QED
      BY <1>3, <1>4, <1>5, <2>1 DEF LifeOf
  <1>7. PidIsCurrent
    BY <1>3, <1>4
       DEF PidIsCurrent, FreshIsThere, TableIsCurrent, VictimIsCurrent, Fresh
  <1>8. TrackedOrForked
    BY <1>2 DEF TrackedOrForked, Alive
  <1>9. HaltOK /\ QuietClients
    BY <1>4 DEF BootInit, HaltOK, VictimsListed, HaltLeavesNothingAlive,
       QuietClients, Closed
  <1>. QED
    BY <1>1, <1>3, <1>6, <1>7, <1>8, <1>9
       DEF BootTrackingInv, TrackingInv, AheadIsNew

\* Boot keeps what PID 1 knows of its processes.
LEMMA BootOnlyTracking ==
    ASSUME BootInv, ForkOrder, RecordedBeforeReaped, BootTrackingInv,
           TerminatedIsDead', BootOnly
    PROVE  TrackingInv'
  <1>. USE DEF BootTrackingInv, TrackingInv
  <1>1. bpc # "done"
    BY DEF BootOnly, Reaped, AwaitHandles, Joined, Slept, StartControlServer,
       Start, SpawnTask, Join
  <1>2. conn' = conn /\ (mpc' = mpc \/ mpc' = "await")
    BY BootOnlyEffect DEF controlVars
  <1>3. mpc \in ReapingPC \union TaskPC
    BY <1>1 DEF BootInv, BootTypeOK, PhaseOK, ReapingPC, TaskPC
  <1>4. HaltOK'
    BY <1>2, <1>3
       DEF ReapingPC, TaskPC, HaltOK, VictimsListed, HaltLeavesNothingAlive
  <1>5. QuietClients'
    BY <1>2 DEF QuietClients
  <1>6. TypeOK' /\ PidIsItsOwn'
    BY BootOnlyOwned
  <1>7. OneLife' /\ PidIsCurrent' /\ TrackedOrForked'
    BY BootOnlyKeepsLife, BootOnlyIsCurrent, BootOnlyTracks
  <1>. QED
    BY <1>4, <1>5, <1>6, <1>7

\* So it holds from power-on.
LEMMA BootTrackingHolds ==
    ASSUME Operation \subseteq {"Shutdown", "Reboot"}
    PROVE  BootSpec => []BootTrackingInv
  <1>1. BootInit => BootTrackingInv
    BY BootTrackingStarts
  <1>2. BootInv /\ ForkOrder /\ RecordedBeforeReaped /\ BootTrackingInv
          /\ TerminatedIsDead' /\ [BootNext]_bootSpecVars => BootTrackingInv'
    <2>. SUFFICES ASSUME BootInv, ForkOrder, RecordedBeforeReaped,
                         BootTrackingInv, TerminatedIsDead',
                         [BootNext]_bootSpecVars
                  PROVE  BootTrackingInv'
      OBVIOUS
    <2>1. AheadIsNew'
      BY BootStaysAhead DEF BootTrackingInv
    <2>2. TrackingInv'
      BY BootIsCesarOrOnly, BootOnlyTracking, TrackingStepInv
         DEF BootTrackingInv
    <2>. QED
      BY <2>1, <2>2 DEF BootTrackingInv
  <1>. QED
    BY <1>1, <1>2, BootInvHolds, ForkOrderHolds, RecordedFirst,
       TerminatedStayDeadFromBoot, PTL DEF BootSpec

\* From power-on PID 1 knows every process of a service that is alive
\* (invariant LiveIsTracked): those of boot, too, and those that die, are
\* reaped and are restarted while boot goes on.
THEOREM EveryLiveIsTrackedFromBoot ==
    ASSUME Operation \subseteq {"Shutdown", "Reboot"}
    PROVE  BootSpec => []LiveIsTracked
  <1>1. BootTrackingInv => LiveIsTracked
    BY DEF BootTrackingInv, TrackingInv, TrackedOrForked, Tracked,
       LiveIsTracked, InTransit
  <1>. QED
    BY <1>1, BootTrackingHolds, PTL

\* Whenever the shutdown was requested, during boot or after it, no service is
\* alive when PID 1 reaches reboot(2) (invariant HaltLeavesNothingAlive).
THEOREM NothingOutlivesTheHaltFromBoot ==
    ASSUME Operation \subseteq {"Shutdown", "Reboot"}
    PROVE  BootSpec => []HaltLeavesNothingAlive
  <1>1. BootTrackingInv => HaltLeavesNothingAlive
    BY DEF BootTrackingInv, TrackingInv, HaltOK
  <1>. QED
    BY <1>1, BootTrackingHolds, PTL

\* From power-on no two processes of a service are alive (invariant
\* OneInstance): boot never starts what a restart task has started, nor the
\* other way round.
THEOREM OneInstanceFromBoot ==
    ASSUME Operation \subseteq {"Shutdown", "Reboot"}
    PROVE  BootSpec => []OneInstance
  <1>1. BootTrackingInv => OneInstance
    BY TrackingHasOneInstance DEF BootTrackingInv
  <1>. QED
    BY <1>1, BootTrackingHolds, PTL

\* What boot enters in the table is among the children, and it forks between
\* two passes of waitpid.
LEMMA BootOnlyCounts ==
    ASSUME BootInv, AheadIsNew, RecordedBeforeReaped, PassesCount, BootOnly
    PROVE  PassesCount'
  <1>. USE DEF BootInv, TypeOK
  <1>1. cur' = cur /\ snapshot' = snapshot /\ TableRecords
    BY BootOnlyFrame DEF mainLocals, TableTypeOK, TableRecords
  <1>2. children \subseteq children'
    BY BootOnlyEffect
  <1>3. \A p \in Pid : proc[p] = "reaped" => proc'[p] = "reaped"
    BY BootForks DEF kernelVars, Fork, KernelTypeOK
  <1>4. \A n \in Service : svc[n].pid # NoPid => svc[n].pid \in Pid
    BY DEF PidIsItsOwn, TableOwned, IsOf
  <1>5. ASSUME NEW n \in Service, svc'[n].pid # NoPid
        PROVE  svc'[n].pid = svc[n].pid \/ <<n, svc'[n].pid>> \in children
    <2>1. ASSUME NEW m \in Service, Start(m)
          PROVE  svc'[n].pid \in {svc[n].pid, NoPid}
      BY <1>1, <2>1, MarkPid DEF Start
    <2>2. ASSUME NEW m \in Service, Join(m)
          PROVE  \/ svc'[n].pid \in {svc[n].pid, NoPid}
                 \/ <<n, svc'[n].pid>> \in children
      <3>1. PICK r \in results :
              /\ r[1] = m
              /\ svc' = IF r[2] = NoPid THEN MarkFailed(m)
                                        ELSE MarkRunning(m, r[2])
        BY <2>2 DEF Join
      <3>2. CASE r[2] = NoPid
        BY <1>1, <3>1, <3>2, MarkPid
      <3>3. CASE r[2] # NoPid /\ n # m
        BY <1>1, <3>1, <3>3, MarkState DEF BootTypeOK
      <3>4. CASE r[2] # NoPid /\ n = m
        <4>1. r = <<m, r[2]>> /\ r \in children
          BY <3>1, <3>4 DEF BootTypeOK, RecordedBeforeReaped
        <4>2. svc'[n].pid \in {r[2], NoPid}
          BY <1>1, <3>1, <3>4
             DEF MarkRunning, Updated, TableRecords, ServiceRecord, FromConfig
        <4>. QED
          BY <1>5, <3>4, <4>1, <4>2
      <3>. QED
        BY <3>2, <3>3, <3>4
    <2>3. CASE UNCHANGED svc
      BY <2>3
    <2>. QED
      BY <1>5, <2>1, <2>2, <2>3
         DEF BootOnly, Reaped, AwaitHandles, Joined, Slept,
             StartControlServer, SpawnTask, vars, dagVars
  <1>6. TableIsTracked'
    BY <1>2, <1>3, <1>4, <1>5 DEF PassesCount, TableIsTracked
  <1>7. MarkedIsTracked'
    BY <1>1, <1>2, BootOnlyEffect DEF PassesCount, MarkedIsTracked
  <1>8. PassHasAll'
    BY <1>1, BootOnlyEffect, BootForks DEF PassesCount, PassHasAll
  <1>. QED
    BY <1>6, <1>7, <1>8 DEF PassesCount

\* From power-on no crash of a service goes by unnoticed, those of processes
\* that die before boot is over included: each is made a result, and each result
\* marks its service Failed.
THEOREM CrashesAreTakenOverFromBoot ==
    ASSUME Operation \subseteq {"Shutdown", "Reboot"}
    PROVE  BootSpec => [][TakesOver]_bootSpecVars
  <1>1. BootInit => PassesCount
    BY DEF BootInit, AfterBoot, PassesCount, TableIsTracked, MarkedIsTracked,
       PassHasAll, FromConfig
  <1>2. BootInv /\ RecordedBeforeReaped /\ BootTrackingInv /\ PassesCount
          /\ [BootNext]_bootSpecVars => PassesCount'
    <2>1. ASSUME TrackingInv, PassesCount, [Next]_vars PROVE PassesCount'
      BY <2>1, QuietStep, StepCounts DEF TrackingInv
    <2>. QED
      BY <2>1, BootIsCesarOrOnly, BootOnlyCounts DEF BootTrackingInv
  <1>3. BootInv /\ BootTrackingInv /\ PassesCount
          /\ [BootNext]_bootSpecVars => [TakesOver]_bootSpecVars
    <2>. SUFFICES ASSUME BootInv, BootTrackingInv, PassesCount,
                         [BootNext]_bootSpecVars
                  PROVE  TakesOver
      OBVIOUS
    <2>1. CASE [Next]_vars
      <3>1. TypeOK /\ PidIsItsOwn /\ (Aside \/ Main)
        BY <2>1, QuietStep DEF BootTrackingInv, TrackingInv
      <3>. QED
        BY <3>1, DeathsHaveResults, ResultsAreHandled DEF TakesOver
    <2>2. CASE BootOnly
      <3>1. reaped' = reaped
        BY <2>2, BootOnlyFrame DEF mainLocals
      <3>2. \A p \in Pid : proc'[p] = "reaped" => proc[p] = "reaped"
        BY <2>2, BootForks
           DEF kernelVars, Fork, BootInv, TypeOK, KernelTypeOK, BootTrackingInv
      <3>. QED
        BY <3>1, <3>2 DEF TakesOver
    <2>. QED
      BY <2>1, <2>2, BootIsCesarOrOnly
  <1>. QED
    BY <1>1, <1>2, <1>3, BootInvHolds, BootTrackingHolds, RecordedFirst, PTL
       DEF BootSpec

-----------------------------------------------------------------------------
(***************************************************************************)
(* Clients that start services, from power-on.  What boot leaves to them   *)
(* is what the lock of Start relies on: a service that may be started has  *)
(* no process.                                                             *)
(***************************************************************************)
\* The services of the level are Starting until they are forked, and one that
\* could not be forked has no process when it is marked Failed.
HandsOK ==
    /\ bpc = "start" => results = {}
    /\ names \intersect handles = {}
    /\ \A n \in handles : svc[n].state = "Starting"
    /\ \A r \in results :
         r[1] \notin handles /\ (r[2] = NoPid => ~WasForked(r[1]))
BootStartsInv == StartsInv /\ AheadIsNew /\ HandsOK

\* Nothing that the main thread does while boot has a service in hand touches
\* the table: no restart is on its way.
LEMMA CalmBoot ==
    ASSUME BootInv, Calm, CesarStep, bpc \in {"start", "join"}
    PROVE  UNCHANGED <<svc, forkedFor>>
  <1>1. mpc = "await"
    BY DEF BootInv, PhaseOK, TaskPC, Calm
  <1>2. ~RestartTasks
    BY <1>1 DEF Calm, RestartTasks, TaskWake, TaskFork, TaskPush, TaskMark
  <1>. QED
    BY <1>2 DEF CesarStep, Children, EnterSession, Exit, HandleSigchld,
       HandleSighup, HandleSigterm, kernelVars

\* What boot has in hand stays as it was.
LEMMA BootHands ==
    ASSUME BootInv, Calm, AheadIsNew, HandsOK, [BootNext]_bootSpecVars
    PROVE  HandsOK'
  <1>. USE DEF BootInv, BootTypeOK, LevelOK, HandsOK, WasForked, IsOf
  <1>1. TableRecords
    BY DEF TypeOK, TableTypeOK, TableRecords
  <1>2. CASE UNCHANGED bootSpecVars
    BY <1>2 DEF bootSpecVars, bootVars, vars, kernelVars, dagVars
  <1>3. CASE CesarStep
    <2>1. UNCHANGED <<bpc, names, handles, results>>
      BY <1>3 DEF CesarStep, bootVars
    <2>2. CASE bpc \in {"start", "join"}
      BY <1>3, <2>1, <2>2, CalmBoot
    <2>. QED
      BY <2>1, <2>2
  <1>4. ASSUME NEW m \in Service, Start(m)
        PROVE  HandsOK'
    <2>1. /\ bpc = "start" /\ known = Service
          /\ UNCHANGED <<bpc, results, forkedFor>>
      BY <1>4 DEF Start, PhaseOK, kernelVars
    <2>2. \A n \in Service \ {m} : svc'[n] = svc[n]
      BY <1>1, <1>4, MarkState DEF Start
    <2>3. m \notin handles /\ names' = names \ {m}
      BY <1>4 DEF Start
    <2>4. \/ handles' = handles
          \/ handles' = handles \union {m} /\ svc'[m].state = "Starting"
      BY <1>1, <1>4, <2>1
         DEF Start, MarkStarting, Updated, TableRecords, ServiceRecord
    <2>. QED
      BY <2>1, <2>2, <2>3, <2>4
  <1>5. ASSUME NEW m \in Service, SpawnTask(m)
        PROVE  HandsOK'
    <2>1. /\ bpc = "join" /\ handles' = handles \ {m} /\ m \in handles
          /\ UNCHANGED <<bpc, svc, names>>
      BY <1>5 DEF SpawnTask, dagVars
    <2>2. ~WasForked(m)
      BY <2>1 DEF AheadIsNew, Ahead
    <2>3. CASE \E p \in Pid : Fork(m, p) /\ results' = results \union {<<m, p>>}
      BY <2>1, <2>3 DEF Fork, TypeOK, KernelTypeOK, Pid, NoPid
    <2>4. CASE results' = results \union {<<m, NoPid>>} /\ UNCHANGED kernelVars
      BY <2>1, <2>2, <2>4 DEF kernelVars
    <2>. QED
      BY <1>5, <2>3, <2>4 DEF SpawnTask
  <1>6. ASSUME NEW m \in Service, Join(m)
        PROVE  HandsOK'
    <2>1. PICK r \in results :
            /\ r[1] = m
            /\ results' = results \ {r}
            /\ svc' = IF r[2] = NoPid THEN MarkFailed(m)
                                      ELSE MarkRunning(m, r[2])
      BY <1>6 DEF Join
    <2>2. bpc = "join" /\ UNCHANGED <<bpc, names, handles, forkedFor>>
      BY <1>6 DEF Join, kernelVars
    <2>3. \A n \in Service \ {m} : svc'[n] = svc[n]
      BY <1>1, <2>1, MarkState
    <2>. QED
      BY <2>1, <2>2, <2>3
  <1>7. CASE Reaped \/ AwaitHandles \/ Joined \/ Slept \/ StartControlServer
    <2>1. UNCHANGED <<svc, forkedFor, handles, results>>
      BY <1>7 DEF Reaped, AwaitHandles, Joined, Slept, StartControlServer,
         bootLocals, vars, dagVars, kernelVars
    <2>2. /\ bpc' = "start" => results = {}
          /\ names' = names \/ handles = {}
      BY <1>7 DEF bootLocals, Reaped, AwaitHandles, Joined, Slept, StartControlServer
    <2>. QED
      BY <2>1, <2>2
  <1>. QED
    BY <1>2, <1>3, <1>4, <1>5, <1>6, <1>7, BootStepKinds DEF BootOnly

\* What may be started after such a step has no process, and no service has
\* two: boot forks for one that is Starting, and marks one Failed only if it
\* was never forked.
LEMMA BootOnlyStarts ==
    ASSUME BootInv, ForkOrder, BootStartsInv, BootOnly
    PROVE  StartsRight'
  <1>. USE DEF BootInv, BootStartsInv, StartsInv
  <1>1. /\ bpc # "done" /\ conn' = conn
        /\ UNCHANGED <<reaped, known>>
    BY BootOnlyEffect, BootOnlyFrame
       DEF controlVars, mainLocals, BootOnly, Reaped, AwaitHandles, Joined,
           Slept, StartControlServer, Start, SpawnTask, Join
  <1>2. \A w \in Worker : \A n : ~Engaged(w, n)'
    BY <1>1 DEF PhaseOK, Engaged, Closed
  <1>3. EngagedAlone' /\ EngagedOwns'
    BY <1>2 DEF EngagedAlone, EngagedOwns
  <1>4. \A n : HasResult(n)' <=> HasResult(n)
    BY <1>1 DEF HasResult
  <1>5. \A n \in Service : ~WasForked(n) => Unwaited(n) = {} /\ ~HasResult(n)
    BY DEF WasForked, Unwaited, HasResult, ForkOrder, RestartsWereForked
  <1>6. TableRecords
    BY DEF TypeOK, TableTypeOK, TableRecords
  <1>7. CASE UNCHANGED kernelVars
    <2>1. \A n : Unwaited(n)' = Unwaited(n)
      BY <1>7 DEF kernelVars, Unwaited, IsOf
    <2>2. OneProcess'
      BY <1>1, <1>4, <2>1 DEF StartsRight, OneProcess
    <2>3. ASSUME NEW n \in Service,
                 svc'[n].state \notin {"Running", "Starting"}
          PROVE  \/ svc[n].state \notin {"Running", "Starting"}
                 \/ ~WasForked(n)
      <3>1. ASSUME NEW m \in Service, Start(m)
            PROVE  svc'[n] = svc[n] \/ ~WasForked(n)
        <4>1. ~WasForked(m)
          BY <3>1 DEF Start, AheadIsNew, Ahead
        <4>2. n # m => svc'[n] = svc[n]
          BY <1>6, <3>1, MarkState DEF Start
        <4>. QED
          BY <4>1, <4>2
      <3>2. ASSUME NEW m \in Service, Join(m)
            PROVE  svc'[n] = svc[n] \/ ~WasForked(n)
        <4>1. PICK r \in results :
                /\ r[1] = m
                /\ svc' = IF r[2] = NoPid THEN MarkFailed(m)
                                          ELSE MarkRunning(m, r[2])
          BY <3>2 DEF Join
        <4>2. n # m => svc'[n] = svc[n]
          BY <1>6, <4>1, MarkState DEF BootTypeOK
        <4>3. r[2] = NoPid => ~WasForked(m)
          BY <4>1 DEF HandsOK
        <4>4. r[2] # NoPid => svc'[m].state = "Running"
          BY <1>1, <1>6, <4>1, MarkState DEF BootTypeOK, PhaseOK
        <4>. QED
          BY <2>3, <4>2, <4>3, <4>4
      <3>3. \/ UNCHANGED svc
            \/ \E m \in Service : Start(m) \/ Join(m)
        BY DEF BootOnly, Reaped, AwaitHandles, Joined, Slept,
           StartControlServer, SpawnTask, vars, dagVars
      <3>4. svc'[n] = svc[n] \/ ~WasForked(n)
        BY <3>1, <3>2, <3>3
      <3>. QED
        BY <2>3, <3>4
    <2>4. StartableIsGone'
      BY <1>4, <1>5, <2>1, <2>3 DEF StartsRight, StartableIsGone
    <2>. QED
      BY <1>3, <2>2, <2>4 DEF StartsRight
  <1>8. ASSUME NEW n \in Service, NEW p \in Pid, SpawnTask(n), Fork(n, p)
        PROVE  StartsRight'
    <2>1. n \in handles /\ bpc = "join" /\ svc' = svc
      BY <1>8 DEF SpawnTask, dagVars
    <2>2. svc[n].state = "Starting" /\ ~WasForked(n)
      BY <2>1 DEF HandsOK, AheadIsNew, Ahead
    <2>3. /\ Unwaited(n) = {} /\ ~HasResult(n)
          /\ Unwaited(n)' = Unwaited(n) \union {p}
          /\ \A m \in Service \ {n} : Unwaited(m)' = Unwaited(m)
      BY <1>5, <1>8, <2>2, ForkUnwaited DEF TypeOK
    <2>4. StartableIsGone'
      BY <1>4, <2>1, <2>2, <2>3 DEF StartsRight, StartableIsGone
    <2>5. OneProcess'
      BY <1>1, <1>4, <2>3 DEF StartsRight, OneProcess
    <2>. QED
      BY <1>3, <2>4, <2>5 DEF StartsRight
  <1>9. ASSUME NEW n \in Service, SpawnTask(n)
        PROVE  UNCHANGED kernelVars \/ \E p \in Pid : Fork(n, p)
    BY <1>9 DEF SpawnTask
  <1>. QED
    BY <1>7, <1>8, <1>9
       DEF BootOnly, Reaped, AwaitHandles, Joined, Slept, StartControlServer,
           Start, Join, vars

\* Nothing disturbs the calm while boot is under way.
LEMMA BootOnlyCalm ==
    ASSUME BootInv, Calm, BootOnly
    PROVE  Calm'
  <1>1. UNCHANGED <<known, disk, tasks, halting, shutdownRequested>>
    BY BootOnlyFrame DEF mainLocals, flagVars
  <1>2. conn' = conn /\ (mpc' = mpc \/ mpc' = "await")
    BY BootOnlyEffect DEF controlVars
  <1>3. incoming' = incoming
    BY BootOnlyFrame DEF mainLocals
  <1>. QED
    BY <1>1, <1>2, <1>3 DEF Calm

\* So starts go right from power-on.
LEMMA BootStartsHolds ==
    ASSUME StartsOnly
    PROVE  BootSpec => []BootStartsInv
  <1>1. BootInit => BootStartsInv
    <2>. SUFFICES ASSUME BootInit PROVE BootStartsInv
      OBVIOUS
    <2>1. forkedFor = [p \in Pid |-> {}]
      BY DEF BootInit, AfterBoot
    <2>2. \A n \in Service : ~WasForked(n) /\ Unwaited(n) = {}
      BY <2>1 DEF WasForked, Unwaited, IsOf
    <2>3. reaped = {} /\ \A w \in Worker : \A n : ~Engaged(w, n)
      BY DEF BootInit, Closed, Engaged
    <2>4. StartsRight
      BY <2>2, <2>3 DEF StartsRight, EngagedAlone, EngagedOwns,
         StartableIsGone, OneProcess, HasResult
    <2>5. Calm
      BY DEF BootInit, Calm, Closed
    <2>6. AheadIsNew /\ HandsOK
      BY <2>2 DEF BootInit, AheadIsNew, HandsOK
    <2>. QED
      BY <2>4, <2>5, <2>6, BootInitInv DEF BootStartsInv, StartsInv, BootInv
  <1>2. BootInv /\ ForkOrder /\ BootStartsInv /\ [BootNext]_bootSpecVars
          => BootStartsInv'
    <2>. SUFFICES ASSUME BootInv, ForkOrder, BootStartsInv,
                         [BootNext]_bootSpecVars
                  PROVE  BootStartsInv'
      OBVIOUS
    <2>. USE DEF BootStartsInv, StartsInv
    <2>1. TypeOK' /\ PidIsItsOwn'
      BY BootStepInv DEF BootInv
    <2>2. Calm' /\ StartsRight'
      BY BootIsCesarOrOnly, BootOnlyCalm, BootOnlyStarts, StepCalm, StepStarts
    <2>3. AheadIsNew' /\ HandsOK'
      BY BootStaysAhead, BootHands
    <2>. QED
      BY <2>1, <2>2, <2>3
  <1>. QED
    BY <1>1, <1>2, BootInvHolds, ForkOrderHolds, PTL DEF BootSpec

\* From power-on, under the same conditions on what clients ask for and the
\* main thread does, Start is exclusive (invariant OneStarter): boot leaves
\* nothing Starting that a client could take over.
THEOREM OneStarterFromBoot ==
    ASSUME StartsOnly
    PROVE  BootSpec => []OneStarter
  <1>1. BootStartsInv => OneStarter
    BY StartsRightMeans DEF BootStartsInv
  <1>. QED
    BY <1>1, BootStartsHolds, PTL

\* And no two processes of a service are alive (invariant OneInstance): what
\* a client may start after boot has none, neither one that boot could not
\* start nor one that died meanwhile.
THEOREM OneInstanceStartedFromBoot ==
    ASSUME StartsOnly
    PROVE  BootSpec => []OneInstance
  <1>1. BootStartsInv => OneInstance
    BY StartsRightMeans DEF BootStartsInv
  <1>. QED
    BY <1>1, BootStartsHolds, PTL

\* The pid of a process of boot is in the record of its service, or the spawn
\* task has returned it and boot is about to enter it there.
BootTableKnows ==
    \A n \in Service : \A p \in Unwaited(n) :
        \/ svc[n].pid = p
        \/ <<n, p>> \in results
        \/ \E w \in Worker : At(w, "startMark") /\ conn[w].pid = p

\* What boot does to a process, or to its record: it changes the one only when
\* it forks, and the other only for a service without a process, or to enter
\* the pid it has.
LEMMA BootOnlyKnows ==
    ASSUME BootInv, RecordedBeforeReaped, ForkOrder, BootStartsInv,
           BootTableKnows, BootOnly
    PROVE  BootTableKnows'
  <1>. USE DEF BootInv, BootStartsInv
  <1>1. bpc # "done" /\ conn' = conn
    BY BootOnlyEffect
       DEF controlVars, BootOnly, Reaped, AwaitHandles, Joined, Slept,
           StartControlServer, Start, SpawnTask, Join
  <1>2. \A w \in Worker : ~At(w, "startMark")
    BY <1>1 DEF PhaseOK, At, Closed
  <1>3. \A n \in Service : \A p \in Unwaited(n) :
          svc[n].pid = p \/ <<n, p>> \in results
    BY <1>2 DEF BootTableKnows
  <1>4. TableRecords
    BY DEF TypeOK, TableTypeOK, TableRecords
  <1>5. ASSUME NEW m \in Service, SpawnTask(m)
        PROVE  BootTableKnows'
    <2>1. svc' = svc /\ results \subseteq results'
      BY <1>5 DEF SpawnTask, dagVars
    <2>2. CASE UNCHANGED kernelVars
      <3>1. \A n : Unwaited(n)' = Unwaited(n)
        BY <2>2 DEF kernelVars, Unwaited, IsOf
      <3>. QED
        BY <1>3, <2>1, <3>1 DEF BootTableKnows
    <2>3. ASSUME NEW q \in Pid, Fork(m, q), <<m, q>> \in results'
          PROVE  BootTableKnows'
      <3>1. /\ Unwaited(m)' = Unwaited(m) \union {q}
            /\ \A n \in Service \ {m} : Unwaited(n)' = Unwaited(n)
        BY <2>3, ForkUnwaited DEF TypeOK
      <3>. QED
        BY <1>3, <2>1, <2>3, <3>1 DEF BootTableKnows
    <2>. QED
      BY <1>5, <2>2, <2>3 DEF SpawnTask
  <1>6. ASSUME ~\E m \in Service : SpawnTask(m)
        PROVE  \A n : Unwaited(n)' = Unwaited(n)
    BY <1>6
       DEF BootOnly, Reaped, AwaitHandles, Joined, Slept, StartControlServer,
           Start, Join, vars, kernelVars, Unwaited, IsOf
  <1>7. ASSUME NEW m \in Service, Start(m)
        PROVE  BootTableKnows'
    <2>1. ~WasForked(m) /\ results' = results
      BY <1>7 DEF Start, AheadIsNew, Ahead
    <2>2. Unwaited(m) = {}
      BY <2>1 DEF WasForked, Unwaited
    <2>3. \A n \in Service \ {m} : svc'[n] = svc[n]
      BY <1>4, <1>7, MarkState DEF Start
    <2>4. \A n : Unwaited(n)' = Unwaited(n)
      BY <1>7 DEF Start, kernelVars, Unwaited, IsOf
    <2>. QED
      BY <1>3, <2>1, <2>2, <2>3, <2>4 DEF BootTableKnows
  <1>8. ASSUME NEW m \in Service, Join(m)
        PROVE  BootTableKnows'
    <2>1. PICK r \in results :
            /\ r[1] = m
            /\ results' = results \ {r}
            /\ svc' = IF r[2] = NoPid THEN MarkFailed(m)
                                      ELSE MarkRunning(m, r[2])
      BY <1>8 DEF Join
    <2>2. \A n : Unwaited(n)' = Unwaited(n)
      BY <1>8 DEF Join, kernelVars, Unwaited, IsOf
    <2>3. r = <<m, r[2]>> /\ r[2] \in Pid \union {NoPid}
      BY <2>1 DEF BootTypeOK
    <2>4. \A n \in Service \ {m} : svc'[n] = svc[n]
      BY <1>4, <2>1, <2>3, MarkState
    <2>5. ASSUME NEW p \in Unwaited(m)
          PROVE  svc'[m].pid = p
      <3>1. WasForked(m)
        BY <2>5 DEF WasForked, Unwaited
      <3>2. r[2] # NoPid /\ r[2] \in Pid
        BY <2>1, <2>3, <3>1 DEF HandsOK
      <3>3. r[2] \in Unwaited(m)
        BY <2>1, <3>2 DEF ResultsOwned, RecordedBeforeReaped, Unwaited
      <3>4. p = r[2]
        BY <2>5, <3>3 DEF StartsInv, StartsRight, OneProcess
      <3>5. m \in known
        BY <1>1 DEF PhaseOK
      <3>. QED
        BY <1>4, <2>1, <3>2, <3>4, <3>5
           DEF MarkRunning, Updated, TableRecords, ServiceRecord
    <2>6. ASSUME NEW n \in Service \ {m}, NEW p \in Unwaited(n)
          PROVE  svc'[n].pid = p \/ <<n, p>> \in results'
      BY <1>3, <2>1, <2>3, <2>4, <2>6
    <2>. QED
      BY <2>2, <2>5, <2>6 DEF BootTableKnows
  <1>9. ASSUME UNCHANGED <<svc, results>>, \A n : Unwaited(n)' = Unwaited(n)
        PROVE  BootTableKnows'
    BY <1>3, <1>9 DEF BootTableKnows
  <1>. QED
    BY <1>5, <1>6, <1>7, <1>8, <1>9
       DEF BootOnly, Reaped, AwaitHandles, Joined, Slept, StartControlServer,
           bootLocals, vars, dagVars

\* While boot has a service in hand nothing else touches the table; when it has
\* none, every process is in the table or with a connection.
LEMMA BootCesarKnows ==
    ASSUME BootInv, BootStartsInv, BootTableKnows, CesarStep
    PROVE  BootTableKnows'
  <1>. USE DEF BootInv, BootStartsInv, StartsInv
  <1>1. results' = results /\ [Next]_vars
    BY DEF CesarStep, bootVars
  <1>2. CASE results = {}
    <2>1. EveryPidIsKnown
      BY <1>2 DEF BootTableKnows, EveryPidIsKnown
    <2>. QED
      BY <1>1, <2>1, StepKnows DEF BootTableKnows, EveryPidIsKnown
  <1>3. CASE results # {}
    <2>1. bpc \in {"start", "join"}
      BY <1>3 DEF LevelOK
    <2>2. UNCHANGED <<svc, forkedFor, conn>>
      BY <2>1, CalmBoot DEF CesarStep, controlVars
    <2>3. \A n : Unwaited(n)' \subseteq Unwaited(n)
      <3>1. Children \/ HandleSigchld \/ HandleSighup \/ HandleSigterm
        <4>1. ~RestartTasks
          BY <2>1 DEF PhaseOK, TaskPC, Calm, RestartTasks, TaskWake, TaskFork,
             TaskPush, TaskMark
        <4>. QED
          BY <2>1, <4>1 DEF CesarStep
      <3>2. \A p \in Pid : proc[p] = "reaped" => proc'[p] = "reaped"
        BY <3>1 DEF Children, EnterSession, Exit, HandleSigchld, HandleSighup,
           HandleSigterm, kernelVars, TypeOK, KernelTypeOK
      <3>. QED
        BY <2>2, <3>2 DEF Unwaited, IsOf
    <2>. QED
      BY <1>1, <2>2, <2>3 DEF BootTableKnows, At
  <1>. QED
    BY <1>2, <1>3

\* Under the same conditions PID 1 knows, from power-on, the pid of every process
\* it has not waited for: a spawn task has just returned it, the record of the
\* service has it, or the connection that forked it is about to enter it.
THEOREM EveryProcessIsKnownFromBoot ==
    ASSUME StartsOnly
    PROVE  BootSpec => []BootTableKnows
  <1>1. BootInit => BootTableKnows
    BY DEF BootInit, AfterBoot, BootTableKnows, Unwaited, IsOf
  <1>2. BootInv /\ RecordedBeforeReaped /\ ForkOrder /\ BootStartsInv
          /\ BootTableKnows /\ [BootNext]_bootSpecVars => BootTableKnows'
    <2>1. ASSUME UNCHANGED bootSpecVars, BootTableKnows
          PROVE  BootTableKnows'
      BY <2>1 DEF bootSpecVars, bootVars, vars, kernelVars, dagVars,
         controlVars, BootTableKnows, Unwaited, IsOf, At
    <2>. QED
      BY <2>1, BootStepKinds, BootOnlyKnows, BootCesarKnows
  <1>. QED
    BY <1>1, <1>2, BootInvHolds, BootStartsHolds, ForkOrderHolds,
       RecordedFirst, PTL DEF BootSpec
=============================================================================
