SPECIFICATION PartsSpec
CONSTANTS
    Parts = {"units"}
    a = a
    b = b
    c = c
    e1 = e1
    e2 = e2
    e3 = e3
    e4 = e4
    v1 = v1
    v2 = v2
    p1 = p1
    p2 = p2
    Node = {a, b, c}
    Edge = {e1, e2, e3, e4}
    Section = {s1, s2}
    Key = {k1, k2}
    Val = {v1, v2}
    TheSection = s1
    TheKey = k1
    TheValue = v1
    NoName = NoName
    Contents <- ShortFiles
    Writer = {w1, w2}
    Value = {v1, v2}
    Torn = Torn
    Unit = {a, b}
    Version = {v1, v2}
    NoFile = NoFile
    HalfFile = HalfFile
    System0 <- FirstSystem
    Packaged = {a}
    Menus <- FirstMenu
    Dependency = {a, b}
    Exec = {v1, v2}
    NoExec = NoExec
    SystemdUnits <- ShortUnits
    Tree = {v1, v2}
    NoTree = NoTree
    MaxCalls = 3
    Logger = {w1}
    LogMaxBytes = 1
    MaxEntries = 4
    Invocation = {i1, i2}
    Request = {"query", "start", "stop", "halt"}
    Claimant = {a, b, c}
    PathOf <- TwoOnOnePath
    Csr = {i1}
    NoSocket = NoSocket
CHECK_DEADLOCK FALSE
PROPERTY OthersKeepLoading
