SPECIFICATION FairSpec
CONSTANTS
    a = a
    b = b
    Service = {a, b}
    Policy <- OnlyB
    Requires <- ReqNone
    BootOutcome <- AllUp
    MaxPid = 3
    SlowChild = FALSE
    MaxRestarts = 1
    Worker = {w1}
    Operation = {"Shutdown"}
    Reloadable = {}
    Signals = {}
PROPERTY ImplementsContract
PROPERTY CrashReported
PROPERTY ShutdownCompletes
