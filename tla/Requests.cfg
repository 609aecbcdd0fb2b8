SPECIFICATION FairSpec
CONSTANTS
    a = a
    b = b
    Service = {a}
    Policy <- AllOnFailure
    Requires <- ReqNone
    BootOutcome <- AllUp
    MaxPid = 2
    SlowChild = FALSE
    MaxRestarts = 1
    Worker = {w1}
    Operation = {"Start", "Stop", "Restart"}
    Reloadable = {a}
    Signals = {"SIGHUP"}
INVARIANT TypeOK
INVARIANT TerminatedIsDead
PROPERTY Answered
