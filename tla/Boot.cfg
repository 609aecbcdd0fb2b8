SPECIFICATION BootFairSpec
CONSTANTS
    a = a
    b = b
    c = c
    Service = {a, b, c}
    Policy <- AllOnFailure
    Requires <- ReqChain
    Level <- TwoLevels
    BootOutcome <- NoneYet
    MaxPid = 3
    SlowChild = FALSE
    MaxRestarts = 1
    Worker = {w1}
    Operation = {}
    Reloadable = {}
    Signals = {"SIGHUP", "SIGTERM"}
INVARIANT DependenciesFirst
INVARIANT CheckedStaysSatisfied
INVARIANT RecordedBeforeReaped
INVARIANT NobodyLeftStarting
PROPERTY BootCompletes
