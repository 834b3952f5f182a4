CONSTANTS
    r1 = r1
    r2 = r2
    w1 = w1
    w2 = w2
    Reader = {r1, r2}
    Writer = {w1, w2}
    Capacity = 2
    MaxLen = 2
    MaxSent = 3
    Faulty = {r1, r2, w1, w2}
    IoThread = {r1, r2}
    IrpId = {w1, w2}
    Dw = Dw
    Pnp = Pnp
    Killer = Killer
    NoIrp = NoIrp
    MaxPending = 2
    MaxKeys = 1
    MaxStops = 1
    f1 = f1
    f2 = f2
    NoOne = NoOne
    FatThread = {f1, f2}
    NumClusters = 4
    SlotsPer = 2
    Name = {1, 2}
    ParentPath <- TwoDirs
    FatOps = {"create", "mkdir", "delete", "rename", "open", "write"}
    MaxCalls = 3
    MaxIndex = 1
    PThread = {1, 2, 3}
    Racers = {1, 2}
    MaxCondCalls = 1
    MaxHandles = 5
SPECIFICATION KernelSpec
SYMMETRY Symm
INVARIANTS
    CountMatchesHandles
    Delivers
    Serves
    RequestsSound
    FatSound
    PthreadSound
CHECK_DEADLOCK FALSE
