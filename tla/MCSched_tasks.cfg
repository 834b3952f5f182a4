SPECIFICATION TasksSpec
CONSTANTS
    c1 = c1
    c2 = c2
    t1 = t1
    t2 = t2
    t3 = t3
    t4 = t4
    m = m
    e = e
    NoTask = NoTask
    NoSem = NoSem
    Cpu = {c1, c2}
    Task = {t1, t2, t3}
    Sem = {e}
    Mutex = {}
    Kind <- MCManual
    MaxCount <- MCOne
    InitCount <- MCOne
    Core <- FirstAlone
    UserTask = {t2, t3}
    HeldTask = {t3}
    Killable = {}
    Boot = {t1, t2}
    TermEvent <- JoinLast
    MaxTicks = 1
INVARIANTS OnePlace WakeUpsKept WaitsSurviveKills
PROPERTY DeadStaysDead

CHECK_DEADLOCK FALSE
