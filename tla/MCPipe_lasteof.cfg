CONSTANTS
    Reader = {r1, r2}
    Writer = {w1, w2}
    Capacity = 2
    MaxLen = 2
    MaxSent = 1
    Faulty = {}
    r1 = r1
    r2 = r2
    w1 = w1
    w2 = w2
SPECIFICATION Spec
SYMMETRY Symm
INVARIANT EofWakesReaders
