SPECIFICATION OneSpec
CONSTANTS
    c1 = c1
    c2 = c2
    t1 = t1
    t2 = t2
    t3 = t3
    t4 = t4
    m = m
    e = e
    NoTask = NoTask
    NoSem = NoSem
    Cpu = {c1, c2}
    Task = {t1, t2, t3}
    Sem = {m}
    Mutex = {}
    Kind <- MCAuto
    MaxCount <- MCOne
    InitCount <- MCOne
    Core <- FirstAlone
    UserTask = {}
    HeldTask = {}
    Killable = {t3}
    Boot = {t1, t2, t3}
    TermEvent <- NoTerm
    MaxTicks = 0
INVARIANTS CounterMatchesWaiters

CHECK_DEADLOCK FALSE
