CONSTANTS
    IoThread = {t1, t2}
    IrpId = {i1, i2}
    Dw = Dw
    Pnp = Pnp
    Killer = Killer
    NoIrp = NoIrp
    MaxPending = 2
    MaxKeys = 1
    MaxStops = 1
SPECIFICATION IrpSpec
SYMMETRY IrpSymm
CHECK_DEADLOCK FALSE
INVARIANT CompletedOnce
