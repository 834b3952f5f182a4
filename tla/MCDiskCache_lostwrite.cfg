SPECIFICATION DiskSpec
CONSTANTS
    d1 = d1
    d2 = d2
    Junk = Junk
    Requester = {d1, d2}
    Lba = {1, 2}
    CacheSize = 1
    DiskOps = {"write"}
    MaxRequests = 3
INVARIANT NoWriteLost
CHECK_DEADLOCK FALSE
