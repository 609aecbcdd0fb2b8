--------------------------- MODULE UnitConversion ---------------------------
(***************************************************************************)
(* convert_systemd_unit, behind `csr service convert`: one pass over the   *)
(* lines of a systemd unit, then a unit file is written, which             *)
(* parse_config_content reads when PID 1 loads it.                         *)
(*                                                                         *)
(* A line with several names or commands is a line for each; comments and  *)
(* keys that nothing looks at are left out, and so are those that are      *)
(* copied over as they are (Description, Environment, WorkingDirectory).   *)
(***************************************************************************)
EXTENDS Naturals, Sequences

CONSTANTS
    Dependency,     \* what Requires, Wants and After name
    Exec,           \* the commands of ExecStart
    NoExec,         \* an empty command, or ":"
    SystemdUnits    \* bound: the units that are converted

Entry(key, value) == [key |-> key, value |-> value]

UnitLine ==
    {Entry("section", s) : s \in {"unit", "service", "install"}}
      \union {Entry("requires", d) : d \in Dependency}
      \union {Entry("exec", e) : e \in Exec \union {NoExec}}
      \union {Entry("type", t) : t \in {"oneshot", "simple"}}
      \union {Entry("restart", r) : r \in {"always", "no", "on-abort"}}

ASSUME ConversionAssumption ==
    /\ SystemdUnits \subseteq Seq(UnitLine)
    /\ NoExec \notin Exec

VARIABLES
    unit,       \* the lines of the unit
    at,         \* the line the loop looks at
    section,    \* the section it is in
    deps, exec, restart, oneshot,       \* what was found so far
    iniFile     \* the file that was written, or the error

conversionVars == <<unit, at, section, deps, exec, restart, oneshot, iniFile>>

Unwritten == <<>>
NoExecStart == <<"no ExecStart found">>

ConversionInit ==
    /\ unit \in SystemdUnits
    /\ at = 1
    /\ section = "none"
    /\ deps = <<>>
    /\ exec = NoExec
    /\ restart = "never"
    /\ oneshot = FALSE
    /\ iniFile = Unwritten

-----------------------------------------------------------------------------
Has(key) == at <= Len(unit) /\ unit[at].key = key
This == unit[at].value
NextLine == at' = at + 1 /\ UNCHANGED <<unit, iniFile>>

BeginSection ==
    /\ Has("section")
    /\ section' = This
    /\ NextLine /\ UNCHANGED <<deps, exec, restart, oneshot>>

\* Requires, Wants and After alike; a name that is there is not added again.
ReadDependency ==
    /\ Has("requires")
    /\ deps' = IF section = "unit" /\ \A i \in 1..Len(deps) : deps[i] # This
               THEN Append(deps, This) ELSE deps
    /\ NextLine /\ UNCHANGED <<section, exec, restart, oneshot>>

\* The first command is the one.
ReadExec ==
    /\ Has("exec")
    /\ exec' = IF section = "service" /\ exec = NoExec THEN This ELSE exec
    /\ NextLine /\ UNCHANGED <<section, deps, restart, oneshot>>

\* Mutant: a one-shot is not restarted, unless the line is followed by one that
\* says so.
ReadTypeAtOnce ==
    /\ Has("type")
    /\ restart' = IF section = "service" /\ This = "oneshot" THEN "never" ELSE restart
    /\ NextLine /\ UNCHANGED <<section, deps, exec, oneshot>>

ReadType ==
    /\ Has("type")
    /\ oneshot' = IF section = "service" THEN This = "oneshot" ELSE oneshot
    /\ NextLine /\ UNCHANGED <<section, deps, exec, restart>>

PolicyOf(value) ==
    CASE value = "always" -> "always"
      [] value = "no" -> "never"
      [] OTHER -> "on-failure"

ReadRestart ==
    /\ Has("restart")
    /\ restart' = IF section = "service" THEN PolicyOf(This) ELSE restart
    /\ NextLine /\ UNCHANGED <<section, deps, exec, oneshot>>

\* The file is written at the end of the unit.
WriteIni ==
    /\ at > Len(unit) /\ iniFile = Unwritten
    /\ iniFile' =
         IF exec = NoExec THEN NoExecStart
         ELSE <<Entry("Exec", exec)>>
                \o (IF deps = <<>> THEN <<>> ELSE <<Entry("Requires", deps)>>)
                \o <<Entry("Restart", IF oneshot THEN "never" ELSE restart)>>
    /\ UNCHANGED <<unit, at, section, deps, exec, restart, oneshot>>

ConversionNext ==
    \/ BeginSection \/ ReadDependency \/ ReadExec \/ ReadType \/ ReadRestart
    \/ WriteIni

ConversionSpec == ConversionInit /\ [][ConversionNext]_conversionVars

-----------------------------------------------------------------------------
(***************************************************************************)
(* parse_config_content: of each key the last one counts; RestartPolicy's  *)
(* parse takes everything it does not know for Never.                      *)
(***************************************************************************)
LastOf(lines, key, default) ==
    LET places == {i \in 1..Len(lines) : lines[i].key = key}
    IN  IF places = {} THEN default
        ELSE lines[CHOOSE i \in places : \A j \in places : j <= i].value

RestartPolicy(value) ==
    CASE value = "on-failure" -> "OnFailure"
      [] value = "always" -> "Always"
      [] OTHER -> "Never"

\* The policy of a file without the key.
Unset == ""

Parsed(lines) ==
    [exec |-> LastOf(lines, "Exec", NoExec),
     requires |-> LastOf(lines, "Requires", <<>>),
     restart |-> RestartPolicy(LastOf(lines, "Restart", Unset))]

-----------------------------------------------------------------------------
(***************************************************************************)
(* What a unit says, without a loop.                                       *)
(***************************************************************************)
\* The j-th line is one with the key, in the section s.
Says(j, s, key) ==
    /\ unit[j].key = key
    /\ \E h \in 1..j : /\ unit[h].key = "section" /\ unit[h].value = s
                       /\ \A m \in h + 1..j : unit[m].key # "section"

SaysCommand(j) == Says(j, "service", "exec") /\ unit[j].value # NoExec

\* The last line with the key in [Service] has the value; there is none.
LastSays(key, value) ==
    \E j \in 1..Len(unit) :
        /\ Says(j, "service", key) /\ unit[j].value = value
        /\ \A i \in j + 1..Len(unit) : ~Says(i, "service", key)

Oneshot == LastSays("type", "oneshot")

\* The file that `service convert` writes is read as the service the unit
\* describes, in whatever order its sections and keys come and however often: it
\* runs the first command; it is restarted as the last Restart says, and never if
\* the last Type says oneshot; it requires what any line of [Unit] names, each
\* once.  A unit without a command, and no other one, is refused.
ConvertedAsDescribed ==
    iniFile # Unwritten =>
      IF \A j \in 1..Len(unit) : ~SaysCommand(j) THEN iniFile = NoExecStart
      ELSE LET read == Parsed(iniFile) IN
        /\ \E j \in 1..Len(unit) :
              /\ SaysCommand(j) /\ read.exec = unit[j].value
              /\ \A i \in 1..j - 1 : ~SaysCommand(i)
        /\ read.restart = "Always" <=> LastSays("restart", "always") /\ ~Oneshot
        /\ read.restart = "OnFailure" <=> LastSays("restart", "on-abort") /\ ~Oneshot
        /\ {read.requires[i] : i \in 1..Len(read.requires)}
              = {unit[j].value : j \in {k \in 1..Len(unit) : Says(k, "unit", "requires")}}
        /\ \A i, j \in 1..Len(read.requires) :
              read.requires[i] = read.requires[j] => i = j
=============================================================================
