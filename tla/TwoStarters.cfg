SPECIFICATION Spec
CONSTANTS
    a = a
    b = b
    Service = {a}
    Policy <- AllNever
    Requires <- ReqNone
    BootOutcome <- DownOrUp
    MaxPid = 3
    SlowChild = TRUE
    MaxRestarts = 1
    Worker = {w1, w2}
    Operation = {"Start", "Stop"}
    Reloadable = {}
    Signals = {}
INVARIANT OneStarter
