SPECIFICATION LiveSpec
CONSTANTS
    w1 = w1
    w2 = w2
    w3 = w3
    Caller = {w1, w2, w3}
    N = 3
    Item = {1, 2, 3}
    MaxAsk = 4
    g1 = g1
    ec = ec
    drv = drv
    Nobody = Nobody
    Gpe = {g1}
    Client = {ec, drv}
    GpeOf <- MCGpeOf
    Level = {g1}
    MaxQueue = 1
    None = None
    Half = {"a", "b"}
    Has <- TwoBlocks
    Events <- ButtonAndLock
    RunGpe = {"gpe_run"}
    WakeGpe = {"gpe_wake"}
    RegisterOf <- Registers
    SleepState = {3, 5}
    Object <- Objects
    HostHandler = {"h1"}
    MaxPolls = 1
    MaxCalls = 2
    Lines <- MCLines
    MaxStages = 3
    MaxChain = 2
    MaxRedirects = 2
    MaxBgJobs = 1
    MaxLines = 3
    u1 = u1
    u2 = u2
    FsThread = {u1, u2}
    Stopper = stopper
    MaxFsOps = 4
INVARIANTS RemovalSafe EventsSafe PowerSafe ShellSafe
PROPERTIES IsQueue WritesOnlyNamed WaitsEnd Settles
CHECK_DEADLOCK FALSE
