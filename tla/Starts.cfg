SPECIFICATION Spec
CONSTANTS
    a = a
    b = b
    Service = {a}
    Policy <- AllNever
    Requires <- ReqNone
    BootOutcome <- DownOrUp
    MaxPid = 3
    SlowChild = TRUE
    MaxRestarts = 1
    Worker = {w1, w2}
    Operation = {"Start"}
    Reloadable = {}
    Signals = {}
INVARIANT OneInstance
INVARIANT OneStarter
INVARIANT EveryPidIsKnown
