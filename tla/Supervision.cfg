SPECIFICATION Spec
CONSTANTS
    a = a
    b = b
    Service = {a, b}
    Policy <- Mixed
    Requires <- ReqChain
    BootOutcome <- AllUp
    MaxPid = 4
    SlowChild = FALSE
    MaxRestarts = 1
    Worker = {w1}
    Operation = {"Shutdown", "Reboot"}
    Reloadable = {}
    Signals = {"SIGTERM"}
INVARIANT NoLostReap
INVARIANT LiveIsTracked
INVARIANT HaltLeavesNothingAlive
