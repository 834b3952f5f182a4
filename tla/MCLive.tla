------------------------------- MODULE MCLive -------------------------------
(***************************************************************************)
(* One instance of each part in which something must eventually happen:    *)
(* the removal lock, ACPICA's event delivery and its sleep and fixed-event *)
(* code, the shell with its processes, stop_fs, and the scheduler's        *)
(* timeouts and joins; and the ring buffer with the queue it implements.   *)
(* A behaviour belongs to one part; the others are idle.                   *)
(***************************************************************************)
EXTENDS KernelLib, FsStop, Shell, AcpiEvents, TLC

-----------------------------------------------------------------------------
CONSTANTS g1, ec, drv
MCGpeOf == [c \in Client |-> IF c = ec THEN g1 ELSE Nobody]

-----------------------------------------------------------------------------
(***************************************************************************)
(* Small machines to sleep on: two PM1 blocks that share the events        *)
(* between them, a GPE that is only enabled for wake in a register of its  *)
(* own, and sleep objects of both shapes.                                  *)
(***************************************************************************)

TwoBlocks ==
    [h \in Half |-> {"wak", "reserved"} \cup
        (IF h = "a" THEN {"power", "sci_en", "t0", "t1"} ELSE {"global", "t1", "t2"})]

ButtonAndLock == <<"global", "power">>

Registers == "gpe_run" :> 1 @@ "gpe_wake" :> 2

\* S5, the state the kernel shuts down in, named by one integer, S0 by two,
\* and S3 by two of which one is out of range.
Objects ==
    0 :> [kind |-> "two", e1 |-> <<{}, {}>>, e2 |-> <<{}, {}>>]
    @@ 3 :> [kind |-> "two", e1 |-> <<{"t0"}, {}>>, e2 |-> <<INVALID, {}>>]
    @@ 5 :> [kind |-> "one", e1 |-> <<{"t1"}, {"t2"}>>, e2 |-> <<{}, {}>>]

-----------------------------------------------------------------------------

\* A step in progress may change these bits of a register.
Names(reg, b) ==
    \E a \in Actor :
        \/ Step(a, "write bits") /\ Now(a).reg = reg /\ b \in Now(a).bits
        \/ Step(a, "clear status") /\ reg = "status"

\* When SLP_EN goes to the first block of PM1 control, both blocks already
\* hold the type that the sleep object names for them, the machine is marked
\* as not awake, and only the GPEs enabled for wake are armed.
\* AcpiHwLegacySleep in hardware/hwsleep.c ("Write #1", "Write #2").
SleepAsAsked ==
    /\ Step("thread", "write pm1") /\ Now("thread").en # {} =>
          /\ \A h \in Half : pm[h].control \cap Types = asked.types[h] \cap Has[h]
          /\ gpe = WakeGpe /\ ~awake
    /\ Reduced /\ asleep => x.control = asked.types.a

\* Awake, with no call under way, the GPEs armed are exactly those enabled
\* for run, after any number of sleeps.
\* AcpiHwLegacyWake in hardware/hwsleep.c.
AwakeRunsGpes ==
    awake /\ todo["thread"] = <<>> /\ asked.stage = "none" => gpe = RunGpe

\* The SCI handler calls no host handler whose memory was freed.
\* AcpiEvSciDispatch in events/evsci.c, AcpiRemoveSciHandler in evxface.c.
HostHandlerLive == Step("sci", "host") => Now("sci").e \in live

\* The SCI is raised by an event that nobody handles.
Unanswered(e) ==
    LET s == GetEventStatus(e)
    IN s.enabled /\ s.pending /\ ~s.handler /\ ReadBitRegister("control", "sci_en")

-----------------------------------------------------------------------------
MCLines == {<<>>, <<"word", "&", "word">>, <<"word", ">">>, <<"word", "&&">>,
            <<"cd", "word", "&&", "word">>,
            <<"word", "|", "word", "|", "word">>,
            <<"word", ">", "word", ">&", "|", "word", "<", "word", "&">>}

-----------------------------------------------------------------------------

VARIABLES part,
          counter, signalled, blocked, status, place, arg, running, active,   \* Sched
          waitingQ, suspendedQ, terminatedQ, waitSem, timers, cause, notified,
          expired, broadcast, pendingKill, safeToKill, leftover, flipFlop,
          freed, timerOn, ipi, resumed, holds

NobodyAtAll == {}
Cpus == {"c1", "c2"}
Tasks == {"t1", "t2", "t3"}
TermEvents == {"e"}
ManualReset == "e" :> "manual"
Once == "e" :> 1
CoreOf == "t1" :> "c1" @@ "t2" :> "c2" @@ "t3" :> "c2"
JoinThird == "t1" :> "no semaphore" @@ "t2" :> "no semaphore" @@ "t3" :> "e"

Live == INSTANCE Sched WITH
            NoTask <- "no task", NoSem <- "no semaphore",
            Cpu <- Cpus, Task <- Tasks, Sem <- TermEvents, Mutex <- NobodyAtAll,
            Kind <- ManualReset, MaxCount <- Once, InitCount <- Once, Core <- CoreOf,
            UserTask <- NobodyAtAll, HeldTask <- NobodyAtAll, Killable <- NobodyAtAll,
            Boot <- Tasks, TermEvent <- JoinThird, MaxTicks <- 2, pc <- place, events <- notified

----------------------------------------------------------------------------
(* One part at a time *)

schedVars == <<counter, signalled, blocked, status, place, arg, running, active, waitingQ,
               suspendedQ, terminatedQ, waitSem, timers, cause, notified, expired, broadcast,
               pendingKill, safeToKill, leftover, flipFlop, freed, timerOn, ipi, resumed, holds>>

IdleRing == ring = NewRing(N, 1) /\ out = << >>
IdleEvents == gpes = 0 /\ saved = 0 /\ allInit = 0 /\ head = 0 /\ next = 0 /\ notifyRefs = 0
              /\ queue = 0 /\ worker = 0 /\ client = 0
IdlePower == pm = 0 /\ x = 0 /\ gpe = 0 /\ handler = 0 /\ host = 0 /\ live = 0 /\ locks = 0
             /\ todo = 0 /\ got = 0 /\ typ = 0 /\ awake = 0 /\ mode = 0 /\ asleep = 0
             /\ asked = 0 /\ calls = 0
IdleShell == shell = 0 /\ proc = 0 /\ held = 0 /\ jobs = 0 /\ fg = 0 /\ typed = 0
IdleFs == stopFs = 0 /\ opCount = 0 /\ stopEvent = 0 /\ opAt = 0 /\ stopAt = 0 /\ fsOps = 0
IdleSched == counter = 0 /\ signalled = 0 /\ blocked = 0 /\ status = 0 /\ place = 0 /\ arg = 0
             /\ running = 0 /\ active = 0 /\ waitingQ = 0 /\ suspendedQ = 0 /\ terminatedQ = 0
             /\ waitSem = 0 /\ timers = 0 /\ cause = 0 /\ notified = 0 /\ expired = 0
             /\ broadcast = 0 /\ pendingKill = 0 /\ safeToKill = 0 /\ leftover = 0
             /\ flipFlop = 0 /\ freed = 0 /\ timerOn = 0 /\ ipi = 0 /\ resumed = 0 /\ holds = 0

LiveInit ==
    /\ part \in {"remove lock", "ring", "events", "power", "shell", "stop_fs", "sched"}
    /\ Init
    /\ IF part = "ring" THEN RingInit ELSE IdleRing
    /\ IF part = "events" THEN EventsInit ELSE IdleEvents
    /\ IF part = "power" THEN PowerInit ELSE IdlePower
    /\ IF part = "shell" THEN ShellInit ELSE IdleShell
    /\ IF part = "stop_fs" THEN FsInit ELSE IdleFs
    /\ IF part = "sched" THEN Live!Init ELSE IdleSched

OthersIdle ==
    /\ UNCHANGED part
    /\ IF part = "remove lock" THEN TRUE ELSE UNCHANGED vars
    /\ IF part = "ring" THEN TRUE ELSE UNCHANGED ringVars
    /\ IF part = "events" THEN TRUE ELSE UNCHANGED eventVars
    /\ IF part = "power" THEN TRUE ELSE UNCHANGED powerVars
    /\ IF part = "shell" THEN TRUE ELSE UNCHANGED shellVars
    /\ IF part = "stop_fs" THEN TRUE ELSE UNCHANGED fsVars
    /\ IF part = "sched" THEN TRUE ELSE UNCHANGED schedVars

LiveNext ==
    \/ part = "remove lock" /\ Next /\ OthersIdle
    \/ part = "ring" /\ RingNext /\ OthersIdle
    \/ part = "events" /\ EventsNext /\ OthersIdle
    \/ part = "power" /\ PowerNext /\ OthersIdle
    \/ part = "shell" /\ ShellNext /\ OthersIdle
    \/ part = "stop_fs" /\ FsNext /\ OthersIdle
    \/ part = "sched" /\ Live!Next /\ OthersIdle

liveVars == <<part, vars, ringVars, eventVars, powerVars, shellVars, fsVars, schedVars>>

(***************************************************************************)
(* What the schedulers of the code guarantee.  Callers of a removal lock   *)
(* come to their release (RemoveLock).  The thread of WORK_QUEUE runs, an  *)
(* interrupt whose line is raised is taken, and a driver that has begun to *)
(* stop goes on; so do the SCI handler and the thread that goes to sleep,  *)
(* the shell, an operation of the file system and stop_fs.  As long as     *)
(* processes of the shell can end, one of them does.  In the scheduler     *)
(* interrupts that are enabled arrive, and a CPU inside schedule() or a    *)
(* Wake::All loop goes on, since nothing else runs on it.  Nobody is       *)
(* assumed to begin anything.                                              *)
(***************************************************************************)
LiveFairness ==
    /\ Fairness
    /\ WF_eventVars(part = "events" /\ Worker)
    /\ \A g \in Gpe : WF_eventVars(part = "events" /\ Sci(g))
    /\ \A c \in Client : WF_eventVars(part = "events" /\ Stop(c))
    /\ WF_powerVars(part = "power" /\ SciNext)
    /\ WF_powerVars(part = "power" /\ ThreadStep)
    /\ WF_shellVars(part = "shell" /\ ShellStep)
    /\ WF_shellVars(part = "shell" /\ \E p \in DOMAIN proc : ProcExit(p))
    /\ \A t \in FsThread : WF_fsVars(part = "stop_fs" /\ FsOpStep(t))
    /\ WF_fsVars(part = "stop_fs" /\ FsStopStep)
    /\ \A c \in Cpus :
          /\ WF_schedVars(part = "sched" /\ Live!HandleIpi(c))
          /\ WF_schedVars(part = "sched" /\ (Live!ScheduleTick(c) \/ Live!Schedule(c)))
          /\ WF_schedVars(part = "sched" /\ Live!NotifyWatchers(c))
          /\ WF_schedVars(part = "sched" /\ Live!Broadcast(c))

LiveSpec == LiveInit /\ [][LiveNext]_liveVars /\ LiveFairness

----------------------------------------------------------------------------
(* Properties *)

\* A GPE is armed only while it is referenced and has a handler or method,
\* and one that is referenced but not armed has work in flight that arms it
\* again (events/evgpe.c); AcpiEvNotifyDispatch walks no freed handler
\* (events/evmisc.c).
EventsSafe == part = "events" => ArmedWhenReferenced /\ WalksLiveHandlers

\* A machine sleeps in the state that was asked for with only its wake GPEs
\* armed, runs with its run GPEs armed after waking, and no freed SCI
\* handler is called.  hardware/hwsleep.c, events/evsci.c.
PowerSafe == part = "power" => SleepAsAsked /\ AwakeRunsGpes /\ HostHandlerLive

\* No register write clears or enables an event it does not name, although
\* two actors write whole registers (hardware/hwxface.c, hwregs.c).
WritesOnlyNamed ==
    [][part = "power" =>
          \A b \in Event \cup {"wak"} :
              /\ b \in HwRegisterRead("status") /\ b \notin HwRegisterRead("status")'
                 => Names("status", b)
              /\ (b \in HwRegisterRead("enable")) # (b \in HwRegisterRead("enable")')
                 => Names("enable", b)]_powerVars

\* At its prompt the shell holds no handle of an earlier line and owns the
\* terminal.  userspace/sh.
ShellSafe == part = "shell" => PromptIsClean

\* What somebody waits for.  In the scheduler, each thread: the end of a wait
\* that has a timeout, or that joins a thread which has ended.
Due(t) ==
    CASE part = "sched" -> /\ status[t] \in Live!Waits
                           /\ \/ \E r \in timers : r[1] = t
                              \/ waitSem[t] = "e" /\ status["t3"] \in {"Terminated", "Reaped"}
      [] part = "events" -> gpes[g1].status /\ gpes[g1].count > 0
      [] part = "shell" -> shell.at # "prompt"
      [] OTHER -> FALSE
Over(t) ==
    CASE part = "sched" -> status[t] \notin Live!Waits
      [] part = "events" -> ~gpes[g1].status \/ gpes[g1].count = 0
      [] part = "shell" -> shell.at = "prompt"
      [] OTHER -> FALSE

\* No wait lasts for ever, however often it happens: a thread's wait with a
\* timeout ends, and a join returns once the thread has ended
\* (scheduler.rs, semaphore.rs); a pending event of a referenced GPE is served
\* (events/evgpe.c); and every line comes back to the prompt, a pipeline is
\* never kept waiting by an end of its own pipes that the shell or another
\* stage forgot to close (userspace/sh).
WaitsEnd == \A t \in Tasks : Due(t) ~> Over(t)

\* What takes a part down comes to its end: data marked for removal is
\* dropped (remove_lock.rs), stop_fs returns whatever operations are under
\* way (fs/mod.rs), a driver that removes its handlers gets
\* through AcpiOsWaitEventsComplete (osl.rs), and a fixed event that nobody
\* handles is disabled for good (events/evevent.c).
Settled ==
    CASE part = "remove lock" -> removing => frees = 1
      [] part = "stop_fs" -> stopFs => stopAt = "returned"
      [] part = "events" -> \A c \in Client : client[c] \notin Stopping
      [] part = "power" -> \A ev \in Event : ~Unanswered(ev)
      [] OTHER -> TRUE
Settles == <>[]Settled
=============================================================================
