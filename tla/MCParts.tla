------------------------------ MODULE MCParts ------------------------------
(***************************************************************************)
(* The parts of the program that run by themselves, each on all its small  *)
(* instances: the algorithms of the dependency engine, what the commands   *)
(* of csr do to files, sockets and the log, and how they reach PID 1.  A   *)
(* behaviour is one of one part; the others stay at a fixed initial state. *)
(***************************************************************************)
EXTENDS FindCycle, BootOrder, DagEngine, CliBoot, IniFile, AtomicFile, UnitStore,
        UnitConversion, ConfigRestore, LogFile, Forwarding, SocketBind

CONSTANTS
    Parts,      \* those a run looks at
    a, b, c, e1, e2, e3, e4, v1, v2, p1, p2

VARIABLE part

engineParts == <<searchVars, orderVars, engineVars, cliVars>>
fileParts == <<iniVars, fileVars, unitVars, restoreVars, conversionVars>>
serverParts == <<logVars, forwardVars, socketVars>>
partsVars == <<part, engineParts, fileParts, serverParts>>

\* The files of up to three lines.
ShortFiles == UNION {[1..n -> Line] : n \in 0..3}

\* The units of up to three lines, and a longer [Service].
ServiceLine == {l \in UnitLine : l.key \in {"exec", "type", "restart"}}
ShortUnits ==
    UNION {[1..n -> UnitLine] : n \in 0..3}
      \union {<<Entry("section", "service")>> \o lines : lines \in [1..4 -> ServiceLine]}

FirstSystem == [n \in Unit |-> IF n = a THEN v1 ELSE NoFile]
SmallMenus == {{"install", "update", "rollback"},
          {"install", "rm", "snapshot", "restore", "delete", "import", "upgrade"},
          {"create", "enable", "rm", "convert"}}
FirstMenu == {{"create", "enable"}}
RollbackMenu == {{"install", "rollback"}}

TwoOnOnePath == [s \in Claimant |-> IF s = c THEN p2 ELSE p1]

\* One initial state of each of the parts that stand still.
StandStill ==
    /\ part # "get_boot_order" => arc = [e \in Edge |-> <<a, b>>]
    /\ part # "find_cycle" => newAdjacency = [n \in Node |-> {}]
    /\ part # "csr" => loaded = {}
    /\ part # "upsert_ini_key" => ini = <<>>
    /\ part # "atomic_write" => /\ target = [content |-> v1, synced |-> TRUE]
                                /\ bytes = [w \in Writer |-> v1]
    /\ part # "units" => /\ menu = CHOOSE m \in Menus : TRUE
                         /\ systemd = {}
    /\ part # "convert" => unit = <<>>
    /\ part # "config" => etc = Whole(v1) /\ backup = NoTree
    /\ part # "forward" => request = [i \in Invocation |-> "query"]
    /\ part # "socket" =>
          listenPath = [o \in Owner |-> IF o \in Claimant THEN PathOf[o] ELSE p1]

PartsInit ==
    /\ part \in Parts
    /\ StandStill
    /\ SearchInit /\ OrderInit /\ EngineInit /\ CliInit
    /\ IniInit /\ FileInit /\ UnitInit /\ RestoreInit /\ ConversionInit
    /\ LogInit /\ ForwardInit /\ SocketInit

EngineRuns ==
    \/ part = "find_cycle" /\ SearchNext
       /\ UNCHANGED <<orderVars, engineVars, cliVars>>
    \/ part = "get_boot_order" /\ OrderNext
       /\ UNCHANGED <<searchVars, engineVars, cliVars>>
    \/ part = "engine" /\ EngineNext /\ UNCHANGED <<searchVars, orderVars, cliVars>>
    \/ part = "csr" /\ CliNext /\ UNCHANGED <<searchVars, orderVars, engineVars>>

FilesRun ==
    \/ part = "upsert_ini_key" /\ IniNext
       /\ UNCHANGED <<fileVars, unitVars, restoreVars, conversionVars>>
    \/ part = "atomic_write" /\ FileNext
       /\ UNCHANGED <<iniVars, unitVars, restoreVars, conversionVars>>
    \/ part = "units" /\ UnitNext
       /\ UNCHANGED <<iniVars, fileVars, restoreVars, conversionVars>>
    \/ part = "config" /\ RestoreNext
       /\ UNCHANGED <<iniVars, fileVars, unitVars, conversionVars>>
    \/ part = "convert" /\ ConversionNext
       /\ UNCHANGED <<iniVars, fileVars, unitVars, restoreVars>>

ServersRun ==
    \/ part = "log" /\ LogNext /\ UNCHANGED <<forwardVars, socketVars>>
    \/ part = "forward" /\ ForwardNext /\ UNCHANGED <<logVars, socketVars>>
    \/ part = "socket" /\ SocketNext /\ UNCHANGED <<logVars, forwardVars>>

PartsNext ==
    /\ \/ EngineRuns /\ UNCHANGED <<fileParts, serverParts>>
       \/ FilesRun /\ UNCHANGED <<engineParts, serverParts>>
       \/ ServersRun /\ UNCHANGED <<engineParts, fileParts>>
    /\ UNCHANGED part

\* The search is run to its end, a follower wakes up every second, and a csr
\* process is scheduled.
PartsSpec ==
    /\ PartsInit /\ [][PartsNext]_partsVars
    /\ WF_searchVars(part = "find_cycle" /\ SearchNext)
    /\ WF_logVars(Follow)
    /\ \A i \in Invocation : WF_forwardVars(Client(i))

-----------------------------------------------------------------------------
\* find_cycle ends with an answer: it neither runs in circles nor comes to a
\* state without a next step.
SearchTerminates == part = "find_cycle" => <>(answer # "searching")

\* log follow, service watch and socket trace do not go mute: however often
\* the log is rotated, cleared and written, the follower comes to its end.
FollowerCatchesUp == []<>(live = 0 \/ lastLen = Size)

\* An invocation of csr ends, whether PID 1 answers, hangs or goes down.
EveryCommandEnds ==
    \A i \in Invocation : cpc[i] # "idle" ~> cpc[i] = "ended" \/ ~Up
=============================================================================
