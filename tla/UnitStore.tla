----------------------------- MODULE UnitStore -----------------------------
(***************************************************************************)
(* The unit files, and the commands of csr that write them: a command is a *)
(* sequence of operations on files, each may fail, and csr may be killed   *)
(* between any two system calls.  PID 1 may load the units at any moment,  *)
(* and the package manager replaces system files at any moment.            *)
(* A unit file is named after the service it defines.                      *)
(***************************************************************************)
EXTENDS FiniteSets, FiniteSetsExt, Sequences, SequencesExt

CONSTANTS
    Unit,       \* names of services
    Version,    \* whole unit files
    NoFile,     \* what a path without a file holds
    HalfFile,   \* an empty or half-written file, which does not parse
    System0,    \* the unit files of the packages at the beginning
    Packaged,   \* bound: the units whose system files come, change and go
    Menus       \* the sets of commands that are tried together

ASSUME UnitAssumption ==
    /\ IsFiniteSet(Unit)
    /\ NoFile \notin Version /\ HalfFile \notin Version /\ NoFile # HalfFile
    /\ System0 \in [Unit -> Version \union {NoFile}]
    /\ Packaged \subseteq Unit

VARIABLES
    disk,       \* the content of every path
    link,       \* where the entry of a unit in /etc/cesar/enabled points to
    systemd,    \* the units of the directory that convert reads, if it exists
    snapDir,    \* the directory of the snapshot exists
    menu,       \* the commands that are issued
    job,        \* the command in progress
    old,        \* history: what an update, if it was the last command, may
                \* not lose
    taken       \* history: what the units in the snapshot defined when it was
                \* taken

unitVars == <<disk, link, systemd, snapDir, menu, job, old, taken>>

Content == Version \union {NoFile, HalfFile}

\* The places of the file of a unit; "given" is the file an argument names.
User(n) == <<"user", n>>
System(n) == <<"system", n>>
Backup(n) == <<"backup", n>>
Snap(n) == <<"snapshot", n>>
Given(v) == <<"given", v>>
Path == {"user", "system", "backup", "snapshot"} \X Unit

\* What load_all_services makes of the files: a user file overrides the
\* system file of the same service, a file that does not parse is skipped.
Definition(n) ==
    IF disk[User(n)] \in Version THEN disk[User(n)]
    ELSE IF disk[System(n)] \in Version THEN disk[System(n)] ELSE NoFile

\* The entries of the directory, dangling ones too; none means all.
Allowlist == {n \in Unit : link[n] # "none"}
Loads(n) ==
    /\ Definition(n) # NoFile
    /\ Allowlist = {} \/ n \in Allowlist

\* found is a history: what a rollback found at the place of the unit.
NoJob == [op |-> "none", name |-> "none", todo |-> <<>>, half |-> FALSE,
          wrote |-> FALSE, failed |-> FALSE, force |-> FALSE, found |-> NoFile]

Idle == job = NoJob

UnitInit ==
    /\ disk = [p \in Path |-> IF p[1] = "system" THEN System0[p[2]] ELSE NoFile]
    /\ link = [n \in Unit |-> "none"]
    /\ systemd \in {{}, Unit}
    /\ snapDir = FALSE
    /\ menu \in Menus
    /\ job = NoJob
    /\ old = [n \in Unit |-> NoFile]
    /\ taken = [n \in Unit |-> NoFile]

-----------------------------------------------------------------------------
\* The operations on files.  If a strict one fails the command stops there.
Copy(from, to) == [do |-> "copy", from |-> from, to |-> to, strict |-> FALSE]
Write(v, to) == [do |-> "write", from |-> Given(v), to |-> to, strict |-> FALSE]
Delete(p) == [do |-> "remove", from |-> p, to |-> p, strict |-> TRUE]
Discard(p) == [Delete(p) EXCEPT !.strict = FALSE]
SkipUnit(n) == [do |-> "skip", from |-> User(n), to |-> User(n), strict |-> FALSE]
Unlink(n) == [do |-> "unlink", from |-> User(n), to |-> User(n), strict |-> FALSE]

\* On the directory of the snapshot: mkdir, rmdir, and rename onto it.
SnapDir == <<"directory", "snapshot">>
OnDir(do, strict) == [do |-> do, from |-> SnapDir, to |-> SnapDir, strict |-> strict]

\* A command that consists of these operations.
Run(op, n, ops, force) ==
    /\ job' = [NoJob EXCEPT !.op = op, !.name = n, !.todo = ops,
                       !.force = force,
                       !.found = IF op = "rollback" THEN disk[User(n)] ELSE NoFile]
    /\ old' = [m \in Unit |-> IF op = "update" /\ m = n THEN disk[User(n)]
                              ELSE NoFile]

Read(p) == IF p[1] = "given" THEN p[2] ELSE disk[p]
Exists(p) == disk[p] # NoFile

\* The files of a directory in the order of their names: any one will do.
EachOf(S, f(_)) == LET s == SetToSeq(S) IN [i \in 1..Len(s) |-> f(s[i])]

-----------------------------------------------------------------------------
\* service create: the check and the write of a file.
Create(n, v) ==
    /\ ~Exists(User(n))
    /\ Run("create", n, <<Write(v, User(n))>>, FALSE)
    /\ UNCHANGED <<disk, link, systemd, snapDir, taken>>

\* service enable: a link to the unit, unless one is there that leads somewhere.
Target(n) == IF Exists(User(n)) THEN "user" ELSE "system"
Enable(n) ==
    /\ Exists(User(n)) \/ Exists(System(n))
    /\ link[n] = "none"
    /\ link' = [link EXCEPT ![n] = Target(n)]
    /\ UNCHANGED <<disk, systemd, snapDir, job, old, taken>>

\* service disable: a dangling link does not "exist" and stays.
Dangling(n) == link[n] # "none" /\ ~Exists(<<link[n], n>>)
Disable(n) ==
    /\ link[n] # "none" /\ ~Dangling(n)
    /\ link' = [link EXCEPT ![n] = "none"]
    /\ UNCHANGED <<disk, systemd, snapDir, job, old, taken>>

\* service rm and daemon uninstall: the unit, and if that worked its link.
Rm(n) ==
    /\ Exists(User(n))
    /\ Run("rm", n, <<Delete(User(n)), Unlink(n)>>, FALSE)
    /\ UNCHANGED <<disk, link, systemd, snapDir, taken>>

\* daemon install
Install(n, v) ==
    /\ Run("install", n, <<Copy(Given(v), User(n))>>, FALSE)
    /\ UNCHANGED <<disk, link, systemd, snapDir, taken>>

\* Mutant: the backup is made of the new file.
UpdateStepsLate(n, v) ==
    <<Copy(Given(v), User(n))>> \o
        (IF Exists(User(n)) THEN <<Copy(User(n), Backup(n))>> ELSE <<>>)

\* daemon update: a backup if there is a file, then the copy over it.  Of the
\* backups only the last is modelled, nothing ever reads one.
UpdateSteps(n, v) ==
    (IF Exists(User(n)) THEN <<Copy(User(n), Backup(n))>> ELSE <<>>)
        \o <<Copy(Given(v), User(n))>>

Update(n, v) ==
    /\ Run("update", n, UpdateSteps(n, v), FALSE)
    /\ UNCHANGED <<disk, link, systemd, snapDir, taken>>

\* daemon rollback: the newest file <name>.*.ini; a backup is called
\* <name>.ini.<time>, so that only <name>.ini itself is found.
Rollback(n) ==
    /\ Exists(User(n))
    /\ Run("rollback", n, <<Copy(User(n), User(n))>>, FALSE)
    /\ UNCHANGED <<disk, link, systemd, snapDir, taken>>

\* Mutant: the directories in the other order.
SnapshotStepsSwapped ==
    EachOf({n \in Unit : Exists(User(n))}, LAMBDA n : Copy(User(n), Snap(n)))
        \o EachOf({n \in Unit : Exists(System(n))}, LAMBDA n : Copy(System(n), Snap(n)))

\* snapshot create: the system files, then the user files over them.
SnapshotSteps ==
    EachOf({n \in Unit : Exists(System(n))}, LAMBDA n : Copy(System(n), Snap(n)))
        \o EachOf({n \in Unit : Exists(User(n))}, LAMBDA n : Copy(User(n), Snap(n)))

\* A user file that is broken is copied, too, over the system file that defines
\* the service meanwhile: of such a unit the snapshot promises nothing.
SnapshotCreate ==
    /\ ~snapDir
    /\ Run("snapshot", "none", <<OnDir("mkdir", TRUE)>> \o SnapshotSteps, FALSE)
    /\ taken' = [n \in Unit |-> IF disk[User(n)] = HalfFile THEN NoFile
                               ELSE Definition(n)]
    /\ UNCHANGED <<disk, link, systemd, snapDir>>

\* snapshot restore --force: every file of the snapshot becomes a user file.
InSnapshot == {n \in Unit : Exists(Snap(n))}
SnapshotRestore ==
    /\ snapDir
    /\ Run("restore", "none", EachOf(InSnapshot, LAMBDA n : Copy(Snap(n), User(n))),
           FALSE)
    /\ UNCHANGED <<disk, link, systemd, snapDir, taken>>

\* snapshot delete --force: remove_dir_all, which stops at the first failure.
SnapshotDelete ==
    /\ snapDir
    /\ Run("delete", "none",
           EachOf(InSnapshot, LAMBDA n : Delete(Snap(n))) \o <<OnDir("rmdir", TRUE)>>,
           FALSE)
    /\ UNCHANGED <<disk, link, systemd, snapDir, taken>>

\* snapshot import of an archive: remove_dir_all, as far as it comes (in any
\* order: any of the files may be left), then the rename of what was unpacked.
\* That is one level deeper than what restore reads.
SnapshotImport ==
    /\ Run("import", "none",
           EachOf(InSnapshot, LAMBDA n : Discard(Snap(n)))
               \o <<OnDir("rmdir", FALSE), OnDir("rename", TRUE)>>,
           FALSE)
    /\ UNCHANGED <<disk, link, systemd, snapDir, taken>>

\* What is no archive may be a directory: its files are copied beside those that
\* restore reads, into the snapshot that is there.
SnapshotImportFiles ==
    /\ snapDir' = TRUE
    /\ UNCHANGED <<disk, link, systemd, job, old, taken>>

\* convert --remove-source: a unit that has a file is skipped unless forced.
\* What convert_systemd_unit makes of a unit is one version or another; what
\* has no ExecStart, skipped or not, counts as failed.
Convert(v, force) ==
    /\ systemd # {}
    /\ Run("convert", "none",
           EachOf(systemd, LAMBDA n : IF force \/ ~Exists(User(n))
                                      THEN Write(v, User(n)) ELSE SkipUnit(n)),
           force)
    /\ UNCHANGED <<disk, link, systemd, snapDir, taken>>

-----------------------------------------------------------------------------
Busy(op) == job.op # "none" /\ job.todo # <<>> /\ Head(job.todo).do = op
Op == Head(job.todo)
Advanced(failed) ==
    [job EXCEPT !.todo = IF failed /\ Op.strict THEN <<>> ELSE Tail(@),
                !.half = FALSE, !.failed = @ \/ failed]

\* fs::copy opens the source, truncates the target and then reads.
CopyOpen ==
    /\ Busy("copy") /\ ~job.half /\ Read(Op.from) # NoFile
    /\ disk' = [disk EXCEPT ![Op.to] = HalfFile]
    /\ job' = [job EXCEPT !.half = TRUE]
    /\ UNCHANGED <<link, systemd, snapDir, old, taken>>

CopyFill ==
    /\ Busy("copy") /\ job.half
    /\ disk' = [disk EXCEPT ![Op.to] = Read(Op.from)]
    /\ job' = Advanced(FALSE)
    /\ UNCHANGED <<link, systemd, snapDir, old, taken>>

\* The snapshot promises nothing of a file it does not have.
Without(p) ==
    IF p[1] = "snapshot" THEN [taken EXCEPT ![p[2]] = NoFile] ELSE taken

\* A failed backup is ignored: from then on nothing keeps the old unit.
CopyFails ==
    /\ Busy("copy")
    /\ old' = IF Op.to[1] = "backup" THEN [old EXCEPT ![job.name] = NoFile] ELSE old
    /\ taken' = Without(Op.to)
    /\ job' = Advanced(TRUE)
    /\ UNCHANGED <<disk, link, systemd, snapDir>>

\* atomic_write: the new content or the old.
WriteWhole ==
    /\ Busy("write")
    /\ disk' = [disk EXCEPT ![Op.to] = Read(Op.from)]
    /\ job' = [Advanced(FALSE) EXCEPT !.wrote = TRUE]
    /\ UNCHANGED <<link, systemd, snapDir, old, taken>>

DeleteUnit ==
    /\ Busy("remove")
    /\ disk' = [disk EXCEPT ![Op.to] = NoFile]
    /\ taken' = Without(Op.to)
    /\ job' = Advanced(FALSE)
    /\ UNCHANGED <<link, systemd, snapDir, old>>

DeleteLink ==
    /\ Busy("unlink")
    /\ link' = [link EXCEPT ![job.name] = "none"]
    /\ job' = Advanced(FALSE)
    /\ UNCHANGED <<disk, systemd, snapDir, old, taken>>

Skipped ==
    /\ Busy("skip")
    /\ job' = Advanced(FALSE)
    /\ UNCHANGED <<disk, link, systemd, snapDir, old, taken>>

\* The directory of the snapshot is made, removed (if it is empty), or replaced
\* (if it is empty, or not there).
MakeDir ==
    /\ Busy("mkdir")
    /\ snapDir' = TRUE
    /\ job' = Advanced(FALSE)
    /\ UNCHANGED <<disk, link, systemd, old, taken>>

RemoveDir ==
    /\ Busy("rmdir") /\ InSnapshot = {}
    /\ snapDir' = FALSE
    /\ job' = Advanced(FALSE)
    /\ UNCHANGED <<disk, link, systemd, old, taken>>

MoveIn ==
    /\ Busy("rename") /\ InSnapshot = {}
    /\ snapDir' = TRUE
    /\ job' = Advanced(FALSE)
    /\ UNCHANGED <<disk, link, systemd, old, taken>>

\* A snapshot whose directory could not be made holds nothing.
Fails ==
    /\ \E op \in {"write", "remove", "unlink", "skip", "mkdir", "rmdir", "rename"} :
          Busy(op)
    /\ job' = Advanced(TRUE)
    /\ taken' = IF Busy("mkdir") THEN [n \in Unit |-> NoFile] ELSE taken
    /\ UNCHANGED <<disk, link, systemd, snapDir, old>>

\* Mutant: failures are only reported.
MayRemoveAnyway == job.wrote \/ job.failed
\* convert removes the directory at the end, all of it or as far as it comes:
\* if there was something to convert, and all of it was, or by force.
MayRemoveSource ==
    /\ job.wrote \/ job.failed
    /\ job.force \/ ~job.failed

Done ==
    /\ ~Idle /\ job.todo = <<>>
    /\ systemd' \in IF job.op = "convert" /\ MayRemoveSource THEN SUBSET systemd
                    ELSE {systemd}
    /\ job' = NoJob
    /\ UNCHANGED <<disk, link, snapDir, old, taken>>

\* A snapshot that was interrupted promises nothing.
Killed ==
    /\ ~Idle
    /\ job' = NoJob
    /\ taken' = IF job.op = "snapshot" THEN [n \in Unit |-> NoFile] ELSE taken
    /\ UNCHANGED <<disk, link, systemd, snapDir, old>>

Command(op) ==
    /\ Idle
    /\ \/ \E n \in Unit :
            \/ op = "enable" /\ (Enable(n) \/ Disable(n))
            \/ op = "rm" /\ Rm(n)
            \/ op = "rollback" /\ Rollback(n)
            \/ \E v \in Version :
                 \/ op = "create" /\ Create(n, v)
                 \/ op = "install" /\ Install(n, v)
                 \/ op = "update" /\ Update(n, v)
       \/ op = "snapshot" /\ SnapshotCreate
       \/ op = "delete" /\ SnapshotDelete
       \/ op = "import" /\ (SnapshotImport \/ SnapshotImportFiles)
       \/ op = "restore" /\ SnapshotRestore
       \/ op = "convert" /\ \E v \in Version, force \in BOOLEAN : Convert(v, force)

FileStep ==
    \/ CopyOpen \/ CopyFill \/ CopyFails \/ WriteWhole \/ DeleteUnit \/ DeleteLink
    \/ Skipped \/ MakeDir \/ RemoveDir \/ MoveIn \/ Fails \/ Done \/ Killed

\* The package manager installs, replaces or removes a system file, in one step.
\* A snapshot that is being taken meanwhile promises nothing of that unit.
Upgrade ==
    /\ "upgrade" \in menu
    /\ \E n \in Packaged, v \in Version \union {NoFile} :
         /\ disk' = [disk EXCEPT ![System(n)] = v]
         /\ taken' = IF job.op = "snapshot" THEN [taken EXCEPT ![n] = NoFile]
                     ELSE taken
    /\ UNCHANGED <<link, systemd, snapDir, job, old>>

UnitNext == (FileStep \/ Upgrade \/ \E op \in menu : Command(op)) /\ UNCHANGED menu
UnitSpec == UnitInit /\ [][UnitNext]_unitVars

-----------------------------------------------------------------------------
\* Whatever fails and whenever csr is killed, the unit that `daemon update`
\* replaces is still whole, at its place or in the backup: unless the copy to
\* the backup failed, which the code ignores.
OldUnitSurvives ==
    \A n \in Unit : old[n] \in Version =>
        old[n] \in {disk[User(n)], disk[Backup(n)]}

\* A restore of which every copy succeeded gives every unit that is in the
\* snapshot the definition it had when the snapshot was taken, from a user or a
\* system file, whatever the packages ship by now.  Nothing is promised of what a
\* snapshot was killed over, has lost to a delete or an import that stopped half
\* way, or holds as the broken file it was: restore takes all of these.
RestoredAsTaken ==
    job.op = "restore" /\ job.todo = <<>> /\ ~job.failed =>
        \A n \in Unit : taken[n] # NoFile => Definition(n) = taken[n]

\* `service convert` without --force removes the source only when each of its
\* units has a unit file.
SourceOutlivesFailures ==
    [][systemd' # systemd /\ ~job.force =>
         \A n \in systemd : disk[User(n)] # NoFile]_unitVars

\* Enabling or disabling a service has no effect on whether another one is
\* loaded ("Creating the directory must never silently disable all boot
\* services", load_all_services).
OthersKeepLoading ==
    [][\A n \in Unit : link'[n] # link[n] =>
         \A m \in Unit \ {n} : Loads(m) => Loads(m)']_unitVars

\* A rollback that reports success ("Rolled back to", daemon rollback) and found
\* a whole unit leaves one.
RollbackKeepsUnit ==
    job.op = "rollback" /\ job.todo = <<>> /\ ~job.failed /\ job.found \in Version =>
        disk[User(job.name)] \in Version
=============================================================================
