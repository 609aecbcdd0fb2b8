# Cesar in TLA+

Cesar (`csr`) is an init system written in Rust. As PID 1 it boots services in
the order of their dependencies, supervises them, reloads their configuration
on SIGHUP, serves a control socket and shuts the system down. The same binary
is the command line that talks to PID 1.

This directory models what PID 1 does, and what the commands of `csr` do to the
files, the log, the sockets and PID 1. TLC checks the models, and TLAPS proves
the parts that matter most. `PROJECT.json` lists, for machines, the runs, the
source lines of every definition, the hazards, the findings and the theorems.
File names below are those of the repository's `src/` directory.

    tlc -config Requests.cfg MCCesar.tla     # one run
    tlapm CesarProofs.tla                   # the proofs of one module

## 1. Inventory

| Component | State | Operations | Talks to |
|---|---|---|---|
| Dependency engine, `dag.rs` | `services`, `adjacency` | add, remove, build (with a search for cycles), boot order, unresolved, `mark_*`, `all_deps_satisfied` | everything, under the mutex `CESAR_DAG` |
| Supervision loop, `main.rs:324-488, 759-963` | `RUNNING_CHILDREN`, four atomic flags, the restart tasks of the runtime | reap, restart with backoff, reset of counters, reload, shutdown | kernel, dag, control threads (shared memory), signal handlers (flags) |
| Control server, `main.rs:72-300` | a thread per connection | Start, Stop, Restart, Shutdown, Reboot, Poweroff; List, Status, Ping | clients, dag, `RUNNING_CHILDREN`, kernel, flags |
| Boot, `main.rs:538-757` | the level, the spawn tasks of the level | load, build, bind the sockets, start level by level | dag, process manager, restart tasks |
| Boot of the command line, `main.rs:990-1095` | a table of its own | load, build, start level by level, exit | dag, process manager |
| Process manager, `process.rs` | none of its own | fork/exec, kill a group, wait for death, reap | kernel |
| Service records, `service.rs` | state, pid, restart counter, start time | | |
| Control client, `ipc.rs`, `main.rs:943-988` | none | request with a 30 s timeout, fall back to offline execution | control socket |
| Unit store, `config.rs` | system, user and enabled directories | load: user files win, the allowlist filters | service commands, reload, boot |
| Service, daemon and snapshot commands, `commands.rs` | unit files, links, backups, snapshots | create, enable, disable, rm, convert, install, update, rollback, snapshot create, restore, delete, import | unit store, file system |
| Configuration commands, `commands.rs` | `/etc/cesar`, its backup | set (`upsert_ini_key`, `atomic_write`), backup, restore | file system |
| Logger, `logger.rs` | one log file, a handle per process | append, rotate, clear; followers read it | every process |
| Socket activation, `socket.rs` | descriptors by service, the files of the sockets | bind, hand over to the child; create, activate, destroy | boot, fork, `csr socket` |
| Event bus, health, visual, CLI parser, `csl` | none to speak of | | |

**What is hard.** The main thread, the connection threads, the signal handlers
and the kernel interleave at every step. Each mutex protects single accesses,
and nearly every operation is a sequence of several: Start checks and reserves,
forks, records and tracks in four steps; Stop copies a pid, signals it, waits,
untracks and records. Deaths are noticed late and coalesced. Restart tasks
sleep for seconds and act on what was true before. A reload holds the lock of
the table over a wait. A shutdown races with requests in progress. Around PID 1
there are the processes of `csr`, which share files, the log and the control
socket with it and with each other, and which can fail or be killed between any
two system calls.

**What makes each component correct.**

* *Dependency engine*: the search finds a cycle exactly when there is one; the
  order puts requirements first, each service once; what is left out is exactly
  what lies on or behind a cycle; the live graph never has a cycle or a name
  that is no service.
* *Supervision*: every dead child is waited for; a crash reaches the table;
  every live process is tracked; a requested shutdown takes place and leaves
  nothing alive.
* *Control server*: a service has one process at most; a stop goes on only with
  the process dead; no pid is lost before its process is waited for; every
  request is answered.
* *Boot*: it ends; it forks a service only with its dependencies Running; it
  records a process before reaping it; it leaves nothing Starting.
* *Boot of the command line*: it starts a service only after all it requires,
  leaves out only what cannot run, and its exit code says so.
* *Control client*: an invocation that has reached PID 1 does not act by itself;
  it ends, whatever PID 1 does.
* *Files*: a file that is replaced has the old or the new content after a crash
  at any step; an edit sets the key it means and no other; a former `/etc/cesar`
  is never lost; an update keeps the old unit, a rollback a whole one; a snapshot
  that was restored means what the services meant when it was taken; what a
  conversion writes is read as the service that was converted, and the source
  outlives its failures; enabling one service says nothing about
  the others.
* *Logger*: the log and its rotated copy are the end of the history; a follower
  catches up.
* *Socket activation*: every path has its listener; a service keeps its socket.

## 2. Modules

| Module | Models | Composed of |
|---|---|---|
| `Kernel` | process table, zombies, pending SIGCHLD, `process.rs` | |
| `ServiceTable` | the shared memory: table, `RUNNING_CHILDREN`, flags | extends `Kernel` |
| `Supervisor` | the main thread and the restart tasks | extends `ServiceTable` |
| `ControlServer` | accept loop and connection threads | extends `ServiceTable` |
| `Cesar` | all of them, signals, the administrator; the properties | `Supervisor`, `ControlServer` |
| `ChildContract` | abstract: what an init process owes its children | refined by `Cesar` |
| `Boot` | PID 1 from power-on: boot, then `Cesar!Next` | extends `Cesar` |
| `DependencyGraph` | what graph algorithms are judged by | |
| `FindCycle` | `find_cycle` and `dfs_cycle` | extends `DependencyGraph` |
| `BootOrder` | `get_boot_order` and `unresolved` | extends `DependencyGraph` |
| `DagEngine` | add, remove, change and build in any order | extends `DependencyGraph` |
| `CliBoot` | `boot_sequence_for_cli` | extends `DependencyGraph` |
| `Forwarding` | the invocations of `csr` against the control socket: `client_request`, `try_forward`, offline execution, the end of the accept loop | |
| `UnitStore` | `load_all_services`, the commands on units, daemons and snapshots | |
| `UnitConversion` | `convert_systemd_unit`, and `parse_config_content` on what it writes | |
| `ConfigRestore` | `config backup` and `config restore` | |
| `IniFile` | `upsert_ini_key` | |
| `AtomicFile` | `atomic_write`, with power losses and two writers | |
| `DurableCell` | abstract: a cell that is replaced atomically | refined by `AtomicFile` |
| `LogFile` | `append` with its rotation, clear, rotate, follow | |
| `SocketBind` | `bind_unix_socket`, the sockets of a boot, `csr socket` | |
| `CesarProofs` | proofs about `Cesar` and its refinement of `ChildContract` | extends `Cesar` |
| `BootProofs` | proofs about `Boot` | extends `Boot`, `TrackingProofs` |
| `TrackingProofs` | proofs about `Cesar` with restricted clients | extends `CesarProofs` |
| `FindCycleProofs`, `BootOrderProofs` | proofs about the module of that name | |
| `EngineProofs` | proofs about `DagEngine` and `CliBoot` | |
| `FileProofs` | proofs about `AtomicFile`, `IniFile`, `LogFile` and `UnitStore` | |
| `CommandProofs` | proofs about `ConfigRestore`, `Forwarding`, `SocketBind` and `UnitConversion` | |
| `MCCesar`, `MCBoot` | constants for TLC | extend `Cesar`, `Boot` |
| `MCParts` | one of twelve parts at a time, for TLC | extends the modules from `FindCycle` to `SocketBind` |

### State and code

`proc[p]` is what the kernel knows of a pid: `forked` (before `setsid`),
`running`, `exited` (zombie, code 0), `crashed` (zombie, anything else),
`reaped`. `forkedFor[p]` is a history: the service the pid was forked for.
`svc`, `known` and `dagHeld` are `CESAR_DAG`: the records, the names in
`dag.services`, and whether a reload holds the lock. `children` is
`RUNNING_CHILDREN` as a set: of two entries of one name, `find` may return
either. `mpc` says where the main thread is and `conn[w].pc` where a
connection is, one value for each point at which another thread can get in
between. `tasks[n]` counts the restart tasks of `n` that sleep.

A step is a critical section, an atomic access or a system call. Two places
take a lock several times with nobody able to tell, and have one step in the
model. `maybe_restart_service` checks the counter under one lock and increments
it under another (`main.rs:364-420`): only the main thread reads or writes a
counter or a policy, so nobody can come in between with an effect. And one
service of the boot loop: only the main thread runs at that time.

Time is abstract. A backoff, a grace period or a drain may end at any moment;
the code's 10 s, 5 s, 2 s and 30 s only bound how long. So `StopWait` sends
SIGKILL as soon as it likes, which includes after ten seconds. Whether a
service has been Running for 30 s is a free choice.

`Boot` adds where `boot_sequence_silent` is (`bpc`, `level`), the services of
the level it has not come to (`names`), the spawn tasks that have not run
(`handles`) and the ones that have and are to be joined (`results`). When it
is done, `Next` of `Cesar` goes on from the state that boot left. `Cesar` on
its own begins after boot, from `AfterBoot`: the services that came up Running,
the others Failed. It leaves out that a service may already have died then;
`Boot` does not.

`FindCycle` unrolls the recursion of `dfs_cycle` into a path, and lets the
nodes and edges come in any order, as a `HashMap` does. `BootOrder` has a
member of `Edge` for each entry of an adjacency vector, so that a requirement
listed twice counts twice, as in the code. `DagEngine` takes from the first
that `find_cycle` returns `None` exactly for acyclic graphs, which
`FindCycleProofs` proves.

`CliBoot` is a boot without supervision: the tasks of a level run only while
the function awaits them (the runtime has one thread), and nothing is reaped.
The table is any set of services with any requirements, missing ones and cycles
included, for which the graph may not build.

`Forwarding` has PID 1 as five variables (is it up, was a shutdown requested,
where is the accept loop, is the file there, where is each connection) and a
`csr` as a program counter. `ranBy[i]` is a history of who acted for the
invocation `i`. `daemon start` and `restart` never ask PID 1 and begin at
`offline`.

`UnitStore` has the content of every path as one function; a content is a whole
version, `NoFile` or `HalfFile` (what a copy leaves between its open and its
end). A command is checked once and then is the list of its operations on files
(`job.todo`); a step does one, half of one, or fails it, and `Killed` ends the
command anywhere. The `remove_dir_all` of a snapshot is such a list, too: the
files one by one, then the directory, and the first failure ends it, so that a
delete may leave half a snapshot, and an import none at all or half of the one
it was to replace. `Upgrade` is the package manager, which may change, add or
remove the system files of `Packaged` between any two steps. `Definition` and
`Loads` are what `load_all_services` would find at that moment. `old`, `taken`
and `job.found` are histories the properties speak of.

`UnitConversion` reads a systemd unit line by line as the loop of
`convert_systemd_unit` does, with what was found so far (`section`, `deps`,
`exec`, `restart`, `oneshot`), and writes the unit file at the end (`iniFile`).
`Parsed` is what PID 1 reads in that file; `Says` and `LastSays` state, without
a loop, what the unit says.

`ConfigRestore` has one step for each rename, copy and removal, each of which
may fail; a killed call leaves its siblings of `/etc/cesar` in `kept`.

`IniFile` takes the file as a sequence of lines, each a header, a pair, a blank
or another line, and makes one step for each. `ini` is the file and `content`
what was read of it: nothing, if it is not there or cannot be read. `AtomicFile`
keeps apart what a name refers to now and on the disk, and whether the content
was synced; the two writers have a temporary file each, as two processes do.

`LogFile` numbers the files as inodes. The name, `<log>.1` and the handle of
each process refer to them, so that a rename keeps the handles. An entry is a
number, hence the history is the sequence 1, 2, 3, ....

`SocketBind` gives a path the socket that was renamed onto it last. The set
`listening` is the sockets still open in some process.

## 3. Runs

Every run that passes checks all states of its instance.

| Run | Checks | Instance and why it is enough |
|---|---|---|
| `Supervision` | `NoLostReap`, `LiveIsTracked`, `HaltLeavesNothingAlive` | two services, one requiring the other, one restarted always and one on failure, budget 1, four forks: both die at once, one dies while the other is handled, the budget is used up and reset, and SIGTERM, Shutdown or Reboot come at any moment of it |
| `Live` | `ImplementsContract`, `CrashReported`, `ShutdownCompletes` | two services, one restarted on failure, three forks, a client that may ask for a shutdown |
| `Starts` | `OneInstance`, `OneStarter`, `EveryPidIsKnown` | one service, two clients that Start, three forks, a child that may be slow to call `setsid`; the races of Start are between two connections and the reaper over one name |
| `Requests` | `TypeOK`, `TerminatedIsDead`, `Answered` | one service that is restarted on failure and whose file comes and goes with reloads while a client starts, stops and restarts it, two forks: the client and a reload may stop it at the same time, and the main thread reaps and restarts it meanwhile |
| `Boot` | `DependenciesFirst`, `CheckedStaysSatisfied`, `RecordedBeforeReaped`, `NobodyLeftStarting`, `BootCompletes` | two services in the first level and a third that requires one of them, three forks, restarts, SIGHUP and SIGTERM during boot and after it |
| `Parts`, `find_cycle` | `PathIsStack`, `NoneIsAcyclic`, `CycleIsReal`, `SearchTerminates` | every graph of three nodes, loops included, and every order of the search |
| `get_boot_order` | `CountsWhatIsLeft`, `DependenciesEarlier`, `UnresolvedIsExact` | every graph of three nodes and four edges, loops and parallel ones included |
| `engine` | `GraphIsOfServices`, `LiveGraphIsAcyclic` | three names, any order of add, change, remove and build |
| `csr` | `BootsWhatItCan` | every set of three services and every requirement, each fork may fail, every order of the tasks |
| `upsert_ini_key` | `KeyIsSet`, `OthersUntouched` | every file of up to three lines over two sections and two keys: repeated sections and keys, keys outside a section, blank lines; the file may be unreadable |
| `atomic_write` | `ReplacesAtomically` (refinement of `DurableCell`) | two writers, two contents, any number of writes, failures, kills and power losses |
| `units` | `OldUnitSurvives`, `RestoredAsTaken`, `SourceOutlivesFailures` | two services, one with a system file that an upgrade may change or remove, two versions, any number of commands of one of three menus (`SmallMenus`), each operation may fail and each command be killed |
| `convert` | `ConvertedAsDescribed` | every systemd unit of up to three lines, and every `[Service]` with four lines of `ExecStart`, `Type` and `Restart`: repeated sections and keys in any order, keys outside their section, two names and two commands, empty commands |
| `config` | `ConfigIsNotLost` | two trees, three calls of backup and restore (so that a restore is called after two that were killed), every step may fail |
| `log` | `HistoryTail`, `FollowerCatchesUp` | one process that writes six entries and rotates at two, so that `<log>.1` is replaced; clear and rotate by hand at any time, a follower |
| `forward` | `OfflineOnlyAlone`, `EveryCommandEnds` | two invocations with any two requests, from boot to `reboot(2)` |
| `socket` | `ServiceSocketsKept` | three services, two of them on one path, and one `csr` that creates, activates or destroys on either |

`MCParts` puts the parts that run by themselves side by side: a behaviour is one
of one part, and leaves the variables of the others alone, at one initial state
(`StandStill`). Most of them end, so this run does not look for deadlocks;
`SearchTerminates` and `EveryCommandEnds` say which ends are wanted, and
`AllAccounted` in `BootsWhatItCan` what holds at the end of a boot of `csr`.
`Cesar` stutters after `reboot(2)` and nowhere else.

The bounds are constants with a comment: `MaxPid` (forks of a behaviour; past it
a fork fails, which is an outcome of the code too), `Worker` (connections at a
time), `Operation` (what clients ask for), `Reloadable`, `Signals`, `SlowChild`,
`BootOutcome`; and in the parts `MaxCalls`, `MaxEntries`, `Menus`, `Packaged`,
`SystemdUnits`, `Request`. The invariants that are proved hold for every value
of them. The menus split the commands on units by what they share: install,
update and rollback share the backup, install and rm change what a snapshot has
taken, create and enable change what convert finds; an upgrade changes what a
snapshot has taken, too.

### What the code does not do

These runs check one statement of a comment or of the documentation each, and
TLC finds a behaviour of the code that violates it. `PROJECT.json` quotes the
lines.

| Run | What happens |
|---|---|
| `RemovedService` | a reload removes a service that is Starting or about to be restarted, and its process lives on |
| `FirstEnable` | the first `service enable` makes an allowlist of one, and every other service is left out of the next boot; disabling the last one brings all of them back |
| `Rollback` | `daemon rollback` does not find the backups of `daemon update`: it copies a unit that is whole onto itself, which empties it, and prints "Rolled back to" |
| `TwoStarters` | the end of a Stop (`main.rs:261`) overwrites the Starting of a Start in progress, a second Start passes the check and both fork, although the comment at `main.rs:227` says that two cannot |
| `CutShort` | the accept loop removes the socket during the shutdown; a second `csr system reboot` then takes PID 1 for absent and calls `reboot(2)` in the grace period |
| `LogElsewhere` | after a rotation by another process PID 1 goes on writing to the renamed file |

Four more behaviours contradict a comment or what the code is evidently after,
and can be seen in the models of PID 1 with the constants of a passing run
widened:

* *A quick crash.* Start marks a service Running and then pushes it to
  `RUNNING_CHILDREN` (`main.rs:234-241`). A child that dies before that is
  reaped as an orphan and is Running for ever. `CrashReported` is checked
  without clients that start something.
* *A late survivor.* The connection threads go on during `shutdown_graceful`,
  and a process that is forked or pushed after the last copy of the children
  (`main.rs:802`) is not killed. `HaltLeavesNothingAlive` is checked without
  clients that start something.
* *A successor untracked.* `process_reaped_children` marks a service Failed and
  then removes the entries of its name (`main.rs:347-348`). A Start that passes
  its check in between has its new process in `RUNNING_CHILDREN` before the
  `retain`, which removes that one too: the process runs, is in the table, and is
  reaped as an orphan. `LiveIsTracked` is checked without clients that start
  something.
* *The order of the shutdown.* The comment at `main.rs:766` wants dependents to
  terminate first; the SIGTERMs follow each other without a wait, and the
  SIGKILLs go out in the order of `RUNNING_CHILDREN`. No run checks it.

`OneInstance` holds when clients Start and nothing restarts by itself, and when
services restart and nobody Starts, but not with both: a restart task looks only
for a shutdown when it wakes, so that a service which a client has started
during the backoff is forked a second time (`main.rs:425`).
`HistoryTail` holds with one process. Of two, the one that has not rotated goes
on appending to the file the other has moved to `<log>.1`; and if both are over
the limit, the second rotation moves the fresh file over it
(`logger.rs:151-154`).

The models contain more that a reader of the code may not expect, with no run
of its own:

* a process that exits with code 0 stays Running in the table, with its dead
  pid, unless its policy is Always (`main.rs:339`);
* a Stop that meets a child before its `setsid` sends SIGTERM to the process
  group of PID 1, which takes it for a request to shut down (`process.rs:233`);
* the death that a Stop brings about may be reaped before the Stop untracks the
  process, and is then taken for a crash and the service restarted
  (`main.rs:355`);
* Start is accepted while the service is Stopping (`main.rs:215`);
* the restart counter is reset after 30 s of Running, so that the limit is not
  one "per boot" (`main.rs:480`);
* boot skips a service whose dependency is down when its turn comes, and does
  not come back to it (`main.rs:662`);
* `csr` without a command ends with code 0 if the graph does not build, with
  nothing started (`main.rs:1002`), and it does not ask whether PID 1 runs the
  services already;
* `daemon start` and `restart` never ask PID 1 and fork a second instance
  (`commands.rs:1414`); the offline forms of stop and kill find no pid, since
  the table they read from disk has none;
* a request that PID 1 has refused may be executed offline when the socket
  disappears between the refusal and `socket_present` (`ipc.rs:169`): only after
  a shutdown was requested, which is what `OfflineOnlyAlone` says;
* a line `Type=oneshot` stands against every `Restart` of the unit, whichever
  comes first (`commands.rs:2720`), and of several commands only the first is
  kept (`commands.rs:2688`);
* a snapshot that `snapshot delete` or `import` has left half is restored as if
  it were whole, and so is one that holds a broken user file over a good system
  file (`commands.rs:1751`, `1775`, `1843`): `RestoredAsTaken` promises nothing of
  the units concerned;
* an import whose rename fails has already removed the snapshot it was to
  replace (`commands.rs:1843-1850`);
* `daemon update` goes on when the copy to its backup fails (`commands.rs:1571`);
  `OldUnitSurvives` leaves that out;
* `config set` takes a `cesar.ini` that it cannot read for an empty one and
  replaces all of it (`commands.rs:802`); `OthersUntouched` is about a file that
  could be read;
* if the control socket cannot be bound, PID 1 runs without one (`main.rs:75`);
* an entry in `enabled` whose unit is gone cannot be disabled, since it does not
  "exist" (`commands.rs:3061`);
* a snapshot that was imported lies one level deeper than restore looks, so that
  restoring it restores nothing (`commands.rs:1822`);
* between two renames of `config restore` there is no `/etc/cesar`; a killed call
  leaves it so, and a SIGHUP in that window removes every service that has no
  system file (`commands.rs:973`).

## 4. Fairness

`Fairness` in `Cesar` says, and the code justifies:

* the main thread takes steps (weak): it never waits for a lock that is held
  over a wait, since only itself does that;
* a restart task whose backoff is over runs, and the drain of five seconds ends
  (strong, because reaping comes in between);
* a connection thread takes its step (strong: a reload takes the dag lock again
  and again, but the loop sleeps 100 ms between two of them);
* a forked child reaches `setsid`, and a pending SIGCHLD is delivered (weak).

No process has to die, no client has to ask, no signal has to come. In `Boot`
only the thread of PID 1 has to be scheduled.

In `MCParts` the search is run to its end by the thread that called it, a
follower wakes up every second (`Follow`), and a `csr` that was called is
scheduled and its read timeout expires (`Client`). PID 1 need not answer, and
nothing need be written: all of them are weak, because each of these actions
stays enabled until its own process takes it. Only a follower can be overtaken
by a rotation, and then has caught up.

## 5. Proofs

All for any set of services, dependencies, policies, connections and any number
of forks, from the assumptions that the modules name (`MaxPidAssumption`,
`RequiresAssumption` and so on: types only).

**`CesarProofs`.** Type correctness comes first: `TypeOK` is inductive once it
says that a removed service has the record of a fresh one. `PidIsItsOwn` is
the invariant the others stand on. It is a conjunction over the places a pid
can be in: the table, `RUNNING_CHILDREN` and copies of it, the main thread, a
connection. None of them is inductive alone, because pids move from each to
each; together they are, and `forkedFor` never changes once set
(`ForkRemembers`, `OwnedRemains`). `TerminatedIsDead` follows from it with
`DeathIsFinal`. `NoLostReap` is inductive with the types: the swap of the flag
precedes the waitpid loop, and the loop ends only when no zombie is left. Each has
one lemma for each group of actions and one step for each action.

`DependenciesFirst` (theorem `ForksInOrder`) is not inductive: a restart checks
nothing, and a Start forks after its check. It needs that the service of a
result or of a restart task was forked before (`RestartsWereForked`), so that its
requirements were, and that between the check and the fork of a Start they were
(`StartsAreChecked`). The theorem takes one hypothesis, that `BootOutcome` has no
set with a service and without one it requires: from such a set `AfterBoot`
itself would violate the property. `BootProofs` proves it from power-on, without
a hypothesis.

`ImplementsContractSafety` is the safety part of the refinement of
`ChildContract`: `Stage` maps each pid, and every step is a birth, a set of
deaths, a collection, the going down, or a stutter. What a pid was is never
undone, and after `reboot(2)` nothing moves.

**`BootProofs`.** A step of `BootSpec` is a step of `Cesar` or of boot alone
(`BootIsCesarOrOnly`), and the second kind keeps the invariants of
`CesarProofs`, which so hold from power-on. For that, `PhaseOK` says where the
main thread is while boot waits for it and that no client is served then,
`LevelOK` that the services in hand are of one level, `ResultsOwned` that the
pids the spawn tasks return are those of their services. With them
`CheckedStaysSatisfied` holds because boot reaps only between levels and
requirements are in earlier ones, `RecordedBeforeReaped` because nobody calls
`waitpid` while results are joined, and `NobodyLeftStarting` because what is
Starting is in `handles` or `results` (`StartingIsInHand`) or has a connection
at it. `ForksInOrderFromBoot` has no hypothesis but the assumption on `Level`
that `BootOrderProofs` proves of the boot order.

`ContractFromBoot` is the refinement of `ChildContract` from power-on: a step of
boot alone is a birth or nothing. The arguments of `TrackingProofs` hold from
power-on, too (`EveryLiveIsTrackedFromBoot`, `NothingOutlivesTheHaltFromBoot`,
`OneInstanceFromBoot`, `OneStarterFromBoot`, `OneInstanceStartedFromBoot`), under
the same hypotheses on the clients. What they need of boot is `AheadIsNew`: what
boot has still to come to was never forked, since it goes through the levels in
one direction and a restart is of a service that was forked before. So the fork
of boot begins the one life of the service; the pid that a join enters is that
of its process, because nobody has waited for it (`RecordedBeforeReaped`); and a
service that is marked Failed and may be started by a client has no process
(`HandsOK`). `AfterBoot` leaves out deaths during boot, these theorems do not.
`CrashesAreTakenOverFromBoot` and `EveryProcessIsKnownFromBoot` need that a join
enters the pid of the one process its service has: nobody has waited for it
(`RecordedBeforeReaped`), and what the table does not have yet is in `results`
(`BootTableKnows`).

**`TrackingProofs`.** Two arguments for two kinds of clients, which `BootProofs`
carries over to power-on.

*Clients that ask for shutdowns and reboots only*, with any policies, deaths,
restarts, reloads and any number of connections: `OneLife` says that a service
is one of a process not waited for, a result of `waitpid`, the result in hand
and a sleeping restart task, and `PidIsCurrent` that a pid in the table is that
of its process. So whoever untracks a name untracks no live process, and
`LiveIsTracked`, `HaltLeavesNothingAlive` and `OneInstance` hold. The hypothesis
is needed: with Start the first two fail as described in section 3 (a quick
crash, a late survivor).

Under the same hypothesis no crash is lost (`CrashesAreTakenOver`, the part of
`CrashReported` that is not liveness): the step that waits for a process of the
table makes a result of it and not an orphan, and the step that drops a result
of a crash has marked its service Failed. `PassesCount` says why: what the
table has is in `RUNNING_CHILDREN` until somebody has waited for it, a restart
task marks what it has pushed, and the copy a pass of `waitpid` goes through has
every child. That a zombie has a pass before it is `ReapsAll`.

*Clients that ask for Start only* (`StartsOnly`: no restart policy, no service
file comes or goes, no SIGTERM; SIGHUP, any deaths and any number of connections
are allowed): the state Starting, set in the critical section of the check, is a
lock. `EngagedAlone` says that one connection at most has it, `EngagedOwns` what
its service is meanwhile (no process but the one it forked, which is in no copy
of the children, so that its death leaves no result that could overwrite the
state), `StartableIsGone` that a service which may be started has no process. So
`OneStarter` and `OneInstance` hold. Each part of `StartsOnly` is needed: a Stop,
a restart task, a reload that removes the service, and the Stopping of a shutdown
each overwrite Starting or fork by themselves, and with any one of the four
allowed in the instance of the run `Starts` TLC finds both invariants violated.

`LiveIsTracked` fails even under `StartsOnly` (section 3, a successor
untracked). What is left of it is `EveryPidIsKnown` (theorem
`EveryProcessIsKnown`): the pid of each process that nobody has waited for is in
the table, or the connection that forked it is at its `mark_running`. For no
step overwrites the record of a service that has such a process: the main thread
marks a service Failed while its result is in hand, when it has no process
(`OneProcess`), and a Start only what may be started.

**`FindCycleProofs`.** The inductive invariant says that the path is a path
of the graph and the stack its set of nodes; that what is visited and not on
the path is *done*: all its edges lead to nodes that are done; and that no set
of done nodes is knotted. When the search ends all nodes are done, hence the
graph has no cycle. That a reported cycle is one follows from the first part.
That the search cannot go on for ever (`SearchGetsFurther`, the part of
`SearchTerminates` that is not liveness) is a measure: nodes met, nodes done
with, edges passed and the answer only grow, each step makes one of them grow
(`StepGrows`), and a finite graph bounds their number.

**`BootOrderProofs`.** The counter of a node is the number of its edges that
have not been counted, a cardinality, so that `*deg -= 1` never underflows. A
node that reached zero has no edge left, hence all its requirements are in
earlier levels. At the end each node that is left has an edge from another
one that is left, which is what `UnresolvedIsExact` asks for. The loop cannot go
on for ever on any finite graph (`OrderGetsFurther`): each step pops a node,
counts an edge or puts a level of new nodes among the scheduled ones.

**`EngineProofs`.** *The live graph:* a subgraph of an acyclic graph is acyclic, whence
removal and a failed build keep the live graph acyclic.

*The boot of `csr`:* the three sets of a level (to visit, to spawn, to join)
and the state in the table say the same of a service (`PlaceOK`), and a Failed
one has a reason: its fork failed, or something it requires is Failed
(`CauseOK`). What is in a level has all it requires in levels before, which are
settled (`SettledOK`). At the end an acyclic graph has no level left
(`Acyclic`: a set that is left would have a minimal member).

**`FileProofs`.** *Replacement:* a file has the name only whole and synced
(`WholeAndSynced` is inductive with the types). So every step is a `Store`, a
`MakeDurable`, a `Crash` or a stutter of `DurableCell`: this refinement is a
theorem, for any number of writers.

*Edits:* the invariant says what the lines that were copied so far have: every
occurrence of the key in the section has the new value, and `replaced` means
that there is one. That is so whatever was read of the file. The section of a
line is that of the last header before it, so that the lemmas are about
appending a line. That no other line is touched (`UpsertTouchesNothingElse`) is
said without a recursive filter: the lines that are not an occurrence of the key
are a set of triples, a line with its place among them and its section. The loop
keeps this set the same for what it has read and what it has written
(`SameSoFar`), and the section it is in the same on both sides, so that a line
goes to the section it came from.

*The log* (`RotationKeepsTheTail`): one logger writes to the file that has the
name whenever it writes (`WritesToLive`); the files are then runs of consecutive
numbers that follow each other, and rotation drops the older one. The hypothesis
is that there is one logger; section 3 says what two do.

*Units:* a command is a list of operations, so the invariant is about what is
left of the list. While an update is under way (`UpdateIsSafe`) the old unit is
at its place as long as the copy to the backup is to be done, and in the backup
after it. While a snapshot is taken or restored, each unit's copy is right or
still in the list (`SnapshotIsRight`, `RestoreIsRight`), and between the two
nothing writes to the snapshot (`SnapshotIsKept`, `WritesWhereItMay`); what a
delete or an import removes of it is no longer promised (`RemovalKeeps`), and an
upgrade changes system files only, which a restore overrides (`Upgraded`). While a
conversion is under way, each unit of the source has its file, or its write is
in the list, or something has failed (`ConvertIsRight`). Each operation that
succeeds takes itself off the list (`JobAdvances`, `Executed`), one that fails
is remembered, a kill empties the list: one lemma for each, for every list, and
one for each command for the list it begins with. The three theorems hold for
any finite set of units and any menu of commands.

**`CommandProofs`.** *Configuration:* `StepFinds` says what each step of restore
finds at the places the step before has left; with it a tree that is moved or
dropped is never the last whole one, even when calls were killed. *Control
socket:* `ServerOK` ties the file to the accept loop, which ends only after a
request to shut down; so an invocation with a connection that finds no file
knows of the shutdown. *Sockets:* of the claimants of one path only the first
binds (`OnePerPath`), and what is published is bound or its process gone.
*Conversion:* the invariant says that what the loop has found is what the lines
before the current one say (`SectionFound`, `CommandFound`, `PolicyFound`,
`DependenciesFound`), and that the file was written with it
(`WrittenAtTheEnd`). `LineRead` has the whole argument for a line, each action
is one case of it, and `FileIsRead` says that parsing the file gives back what
was written, since each key is in it once.

**Only model-checked:** the liveness properties and the fairness of
`ImplementsContract`, which the prover has no rules for (what is not liveness in
`ImplementsContract`, `CrashReported` and `SearchTerminates` are the theorems
`ContractFromBoot`, `CrashesAreTakenOver` and `SearchGetsFurther`). Every invariant and
every action property of the passing runs is stated by a theorem; `OneInstance`,
`LiveIsTracked` and `HaltLeavesNothingAlive` under the hypotheses above, beyond
which they are false (section 3).

## 6. Not modelled, and what follows from it

* A pid is used once. Reuse of a pid between the copy of a pid and the signal
  sent to it needs a wrap of the pid space; nothing is claimed about it.
* A service is one process: descendants of a service are in its group and are
  killed with it, those that leave the group are out of sight. Orphans that PID 1
  reaps change nothing but the moment of a reaping pass.
* SIGKILL takes effect at once. The code sends it and goes on (`main.rs:803-812`),
  but what has been killed executes nothing more, whenever the kernel gets to it:
  nobody whom the properties speak of can tell. A process that outlives SIGKILL by
  two seconds is stuck in the kernel, hence the answer "refused to die"
  (`process.rs:315-319`), after which the service stays as it is in the table and
  tracked, is not modelled.
* `spawn_service_env` fails before or in the fork; a panic in it is caught and
  never happens in the model.
* `Requires` and `Policy` do not change during a behaviour of `Cesar`; what a
  reload does to the graph is in `DagEngine`.
* The stop order of the shutdown is any order that the reversed boot order can
  be for the requirements, which includes the real one.
* Reaped results are handled in any order; the code's is that of `waitpid`.
* Of the commands on units, mask, edit, rename and pin are not modelled: they
  hand the file over to an editor or change a file that nothing reads. Of the
  backups of a unit only the last one is, and two updates or two restores in one
  second, which would share a name, are not.
* `UnitStore` says which file defines a service, not what it says: the values in
  a unit file are abstracted to whole versions. `UnitConversion` has the command,
  the requirements and the restart policy. It leaves out Description, Environment,
  WorkingDirectory and Socket, which are copied; quotes, which `trim_matches`
  takes off a value at both ends and `unquote` takes off again when the file is
  read; a command that is nothing but `-`; and names: a unit whose name
  `validate_service_name` refuses is written and counted as converted, and
  `load_all_services` then skips its file with an error message.
* A file in `AtomicFile` that was not synced is lost whole or torn; the file
  systems that order data before renames are kinder.
* Writes of several processes to one log file do not mix: each entry is one
  `write` on a handle opened for appending.
* Datagram and TCP sockets, and the descriptors that a child inherits over
  `exec`, are not modelled; neither is a service that a reload adds and that has
  a socket (no one binds it before the next boot).
* `csl --follow` keeps an offset that it never resets (`csl.rs:338-347`), so that
  it goes mute after a rotation; the followers of `csr` are the ones modelled.
* Rust panics, memory, the wording of messages, the event bus, health checks,
  Plymouth, formatting, argument parsing, the queries and diagnostics, and the
  mounts of early boot.

## 7. What could follow

The components with state of their own are modelled. What is left is depth:

1. Orphans as an environment action of `Kernel`.
2. `UnitStore` composed with `Supervisor`: a reload that loads the units while a
   command is half through (both sides are modelled, each with the other as an
   environment).
3. Proofs: `OneStarter` with reloads of services nobody starts.
