-------------------------------- MODULE Sched -------------------------------
(***************************************************************************)
(* The scheduler of kernel/src/sched/scheduler.rs together with the        *)
(* semaphores and events it blocks tasks on: per-CPU run queues, blocking  *)
(* and waking, timeouts, immediate and deferred kills, process suspension  *)
(* at start-up, thread join, and putting an idle CPU's timer to sleep.     *)
(*                                                                         *)
(* A step is a maximal section of code that runs under one spinlock (with  *)
(* interrupts off) and has one effect another CPU can see.  The locks      *)
(* themselves are not modelled; a section in which a lock is released and  *)
(* another taken is two steps, and pc says where the task is in between.   *)
(***************************************************************************)
EXTENDS Integers, Sequences, FiniteSets

-----------------------------------------------------------------------------
(***************************************************************************)
(* The synchronisation objects of kernel/src/sync/semaphore.rs: counting   *)
(* semaphores (KSem) and auto- and manual-reset events (KEvent).  Both are *)
(* one KSemInner: a state and a FIFO list of blocked tasks, changed only   *)
(* under the object's spinlock.  This section has the objects' state and   *)
(* what each entry point does to it; the next ones say when an entry point *)
(* runs and what it does to the tasks.                                     *)
(***************************************************************************)

CONSTANTS
    Task,       \* threads, the elements of TASKS
    Sem,        \* synchronisation objects
    Kind,       \* Kind[s]: "sem", "auto" or "manual"
    MaxCount,   \* MaxCount[s]: max_count of a semaphore
    InitCount   \* InitCount[s]: init_count of a semaphore

ASSUME KindAssumption == Kind \in [Sem -> {"sem", "auto", "manual"}]

ASSUME CountAssumption ==
    /\ MaxCount \in [Sem -> Nat \ {0}]
    /\ InitCount \in [Sem -> Nat]
    /\ \A s \in Sem : InitCount[s] <= MaxCount[s]

VARIABLES
    counter,    \* counter[s] of a semaphore, negative while tasks are blocked
    signalled,  \* signalled[s] of an event
    blocked     \* blocked[s]: blocked_list, oldest waiter first

semVars == <<counter, signalled, blocked>>

IsSem(s) == Kind[s] = "sem"

KSemInit ==
    /\ counter = InitCount
    /\ signalled = [s \in Sem |-> FALSE]
    /\ blocked = [s \in Sem |-> << >>]

-----------------------------------------------------------------------------
(* Lists.  find_and_remove takes the first match out of a list and keeps   *)
(* the order of the rest.                                                   *)

Elems(q) == {q[i] : i \in DOMAIN q}

NoRepeats(q) == \A i, j \in DOMAIN q : q[i] = q[j] => i = j

PositionOf(q, t) == CHOOSE i \in DOMAIN q : q[i] = t

DropAt(q, i) == [j \in 1 .. (Len(q) - 1) |-> IF j < i THEN q[j] ELSE q[j + 1]]

Without(q, t) == IF t \in Elems(q) THEN DropAt(q, PositionOf(q, t)) ELSE q

Capped(s, n) == IF n > MaxCount[s] THEN MaxCount[s] ELSE n

-----------------------------------------------------------------------------
(* do_wait.  A wait would succeed at once if a unit is left, or the event   *)
(* is signalled; taking it consumes the unit, or an auto-reset signal.      *)

CanTake(s) == IF IsSem(s) THEN counter[s] >= 1 ELSE signalled[s]

Take(s) ==
    /\ CanTake(s)
    /\ counter' = IF IsSem(s) THEN [counter EXCEPT ![s] = @ - 1] ELSE counter
    /\ signalled' = IF Kind[s] = "auto"
                    THEN [signalled EXCEPT ![s] = FALSE] ELSE signalled
    /\ UNCHANGED blocked

\* The blocking half of do_wait: the counter has been decremented and the
\* scheduler agreed to block the task.  When the scheduler refuses, do_wait
\* rolls the counter back and the object is as before.
Block(s, t) ==
    /\ ~CanTake(s)
    /\ counter' = IF IsSem(s) THEN [counter EXCEPT ![s] = @ - 1] ELSE counter
    /\ blocked' = [blocked EXCEPT ![s] = Append(@, t)]
    /\ UNCHANGED signalled

-----------------------------------------------------------------------------
(* do_signal.  A semaphore gets its unit back and wakes one task if some    *)
(* were owed one; an auto-reset event wakes one task or stays signalled; a  *)
(* manual-reset event wakes tasks one after the other (see Sched!Broadcast) *)
(* and is signalled at the end.                                             *)

WantsWake(s) == Kind[s] = "auto" \/ (IsSem(s) /\ Capped(s, counter[s] + 1) <= 0)

AddUnit(s) ==
    counter' = IF IsSem(s)
               THEN [counter EXCEPT ![s] = Capped(s, @ + 1)] ELSE counter

\* wake_task woke the head of the list.
SignalWoke(s) ==
    /\ AddUnit(s)
    /\ blocked' = [blocked EXCEPT ![s] = Tail(@)]
    /\ UNCHANGED signalled

\* No task was woken: none was owed a unit, or wake_task failed.
SignalKept(s) ==
    /\ AddUnit(s)
    /\ signalled' = IF Kind[s] = "auto"
                    THEN [signalled EXCEPT ![s] = TRUE] ELSE signalled
    /\ UNCHANGED blocked

\* Mutant: the unit of a waiter that leaves is not given back.
WithdrawKeepsUnit(s, t) ==
    /\ blocked' = [blocked EXCEPT ![s] = Without(@, t)]
    /\ UNCHANGED <<counter, signalled>>

\* do_signal_on_task after a successful wake_task, and drop_task of a task
\* that is still listed: the waiter leaves and its unit comes back.
Withdraw(s, t) ==
    /\ AddUnit(s)
    /\ blocked' = [blocked EXCEPT ![s] = Without(@, t)]
    /\ UNCHANGED signalled

\* One turn of the Wake::All loop, and its end.
BroadcastWoke(s) ==
    /\ blocked' = [blocked EXCEPT ![s] = Tail(@)]
    /\ UNCHANGED <<counter, signalled>>

BroadcastDone(s) ==
    /\ signalled' = [signalled EXCEPT ![s] = TRUE]
    /\ UNCHANGED <<counter, blocked>>

\* KEvent::reset
Reset(s) ==
    /\ ~IsSem(s)
    /\ signalled' = [signalled EXCEPT ![s] = FALSE]
    /\ UNCHANGED <<counter, blocked>>

-----------------------------------------------------------------------------

CONSTANTS
    Cpu,
    Core,        \* Core[t]: the CPU a task was assigned when it was created
    UserTask,    \* tasks of user processes: killed by marking them
    HeldTask,    \* tasks of processes that are created suspended
    Killable,    \* kernel tasks that other threads kill at once
    Boot,        \* tasks that exist when the model starts
    Mutex,       \* semaphores that only their holder signals (ConfigGuard)
    TermEvent,   \* TermEvent[t]: term_notify, or NoSem when nobody looks
    MaxTicks,    \* bound: longest timeout, in scheduler quanta
    NoTask,      \* running_task = None: the CPU is in its idle task
    NoSem

ASSUME TaskAssumption ==
    /\ Core \in [Task -> Cpu]
    /\ UserTask \subseteq Task
    /\ HeldTask \subseteq UserTask
    /\ Killable \subseteq Task \ UserTask
    /\ Boot \subseteq Task
    /\ NoTask \notin Task
    /\ IsFiniteSet(Task)

ASSUME SemAssumption ==
    /\ NoSem \notin Sem
    /\ Mutex \subseteq {s \in Sem : IsSem(s)}
    /\ \A s \in Mutex : InitCount[s] = MaxCount[s]
    /\ TermEvent \in [Task -> Sem \cup {NoSem}]
    /\ \A t \in Task : TermEvent[t] \in Sem => Kind[TermEvent[t]] = "manual"
    /\ \A t, u \in Task : TermEvent[t] = TermEvent[u] /\ TermEvent[t] # NoSem => t = u
    /\ MaxTicks \in Nat

VARIABLES
    status,       \* status[t]: TaskStatus; "New" before start_task, "Reaped"
                  \* once reap_tasks took the task out of TASKS
    pc,           \* pc[t]: where the task is in the code, see PcValues
    arg,          \* arg[t]: <<task, object>> of the call the task is inside
    running,      \* running[c]: running_task
    active,       \* active[c]: active_tasks, next to run first
    waitingQ,     \* waiting_tasks of all CPUs (a task's own CPU is Core[t])
    suspendedQ,   \* suspended_tasks
    terminatedQ,  \* terminated_tasks
    waitSem,      \* waitSem[t]: the entry of wait_semaphores, or NoSem
    timers,       \* timer_list of all CPUs: <<task, object, ticks left>>
    cause,        \* cause[t]: signal_cause of the last wait
    events,       \* events[c]: notifier_list taken by schedule(), unsignalled
    expired,      \* expired[c]: timer_notifier_list taken by schedule()
    broadcast,    \* broadcast[c]: the object whose Wake::All loop c is in
    pendingKill,  \* tasks with pending_kill set
    safeToKill,   \* tasks with is_safe_to_kill set
    leftover,     \* leftover[c]: tasks whose stack is in leftover_stack
    flipFlop,     \* flipFlop[c]: flip_flop
    freed,        \* tasks whose kernel stack has been unmapped
    timerOn,      \* timerOn[c]: the scheduler timer interrupt is enabled
    ipi,          \* ipi[c]: a SchedChange interrupt is on its way to c
    resumed,      \* held tasks whose process resume_process made Ready
    holds         \* holds[t]: mutexes a wait of t was granted and t not yet
                  \* gave back (the ConfigGuards alive on its stack)

queueVars  == <<running, active, waitingQ, suspendedQ, terminatedQ>>
killVars   == <<pendingKill, safeToKill>>
stackVars  == <<leftover, flipFlop, freed>>
clockVars  == <<timerOn, ipi>>
notifyVars == <<events, expired, broadcast>>
waitVars   == <<waitSem, timers, cause, holds>>

vars == <<semVars, status, pc, arg, queueVars, waitVars, notifyVars, killVars,
          stackVars, clockVars, resumed>>

Waits == {"Waiting", "WaitingInterruptible"}

PcValues == {
    "user",       \* in user mode
    "held",       \* user_init_handler of a process created suspended
    "init",       \* user_init_handler, about to transfer control to user mode
    "kern",       \* in kernel code, between two calls
    "waityield",  \* do_wait has queued the task and is about to yield
    "waitret",    \* scheduled out inside do_wait, or back from it
    "suspyield",  \* suspend_process is about to yield
    "drop",       \* kill_thread, preemption off, about to call drop_task
    "intr",       \* safe_kill_thread, about to interrupt the victim's wait
    "resume",     \* resume_process, process lock released
    "exit"}       \* about to yield for the last time

Init ==
    /\ KSemInit
    /\ status = [t \in Task |-> IF t \in Boot THEN "Active" ELSE "New"]
    /\ pc = [t \in Task |-> IF t \in HeldTask THEN "held"
                            ELSE IF t \in UserTask THEN "init" ELSE "kern"]
    /\ arg = [t \in Task |-> <<NoTask, NoSem>>]
    /\ running = [c \in Cpu |-> NoTask]
    /\ \E q \in [Cpu -> UNION {[1 .. n -> Boot] : n \in 0 .. Cardinality(Boot)}] :
          /\ \A c \in Cpu : /\ Elems(q[c]) = {t \in Boot : Core[t] = c}
                            /\ NoRepeats(q[c])
          /\ active = q
    /\ waitingQ = {}
    /\ suspendedQ = {}
    /\ terminatedQ = {}
    /\ waitSem = [t \in Task |-> NoSem]
    /\ timers = {}
    /\ cause = [t \in Task |-> "Normal"]
    /\ events = [c \in Cpu |-> {}]
    /\ expired = [c \in Cpu |-> {}]
    /\ broadcast = [c \in Cpu |-> NoSem]
    /\ pendingKill = {}
    /\ safeToKill = {}
    /\ leftover = [c \in Cpu |-> {}]
    /\ flipFlop = [c \in Cpu |-> FALSE]
    /\ freed = {}
    /\ timerOn = [c \in Cpu |-> TRUE]
    /\ ipi = [c \in Cpu |-> FALSE]
    /\ resumed = {}
    /\ holds = [t \in Task |-> {}]

-----------------------------------------------------------------------------
(* Who can take a step.                                                     *)

\* schedule() signals its notifiers after the queue lock is released but
\* with interrupts off, and a Wake::All loop runs under the object's lock:
\* until they are done the CPU does nothing else.
CpuFree(c) == events[c] = {} /\ expired[c] = {} /\ broadcast[c] = NoSem

\* An object whose Wake::All loop is running is locked.
Locked(s) == \E c \in Cpu : broadcast[c] = s

\* t is executing on c.  A task killed by another CPU keeps executing until
\* the next schedule() of its own CPU.
At(c, t, where) ==
    /\ running[c] = t
    /\ t # NoTask
    /\ CpuFree(c)
    /\ status[t] \in {"Running", "Terminated"}
    /\ pc[t] = where

Goto(t, where, what) ==
    /\ pc' = [pc EXCEPT ![t] = where]
    /\ arg' = [arg EXCEPT ![t] = what]

Nothing == <<NoTask, NoSem>>

\* notify_other_cpu(d), called on c: make sure d's scheduler timer runs.
NotifyOtherCpu(c, d) ==
    IF d = c
    THEN /\ timerOn' = [timerOn EXCEPT ![c] = TRUE]
         /\ UNCHANGED ipi
    ELSE /\ ipi' = [ipi EXCEPT ![d] = TRUE]
         /\ UNCHANGED timerOn

\* The SchedChange interrupt arrives.
HandleIpi(c) ==
    /\ CpuFree(c)
    /\ ipi[c]
    /\ ipi' = [ipi EXCEPT ![c] = FALSE]
    /\ timerOn' = [timerOn EXCEPT ![c] = TRUE]
    /\ UNCHANGED <<semVars, status, pc, arg, queueVars, waitVars, notifyVars,
                   killVars, stackVars, resumed>>

-----------------------------------------------------------------------------
(* Waking.                                                                  *)

\* remove_wait_semaphore drops the timer of this task and this object.
TimersWithout(t, s) == {r \in timers : ~(r[1] = t /\ r[2] = s)}

\* signal_waiting_task for a task that waits: a task that schedule() has
\* put away becomes the next to run, one that is still on its CPU goes on.
\* h is what the tasks hold before the wake-up.
WakeTask(c, t, s, why, h) ==
    /\ IF t \in waitingQ
       THEN /\ status' = [status EXCEPT ![t] = "Active"]
            /\ active' = [active EXCEPT ![Core[t]] = <<t>> \o @]
            /\ waitingQ' = waitingQ \ {t}
       ELSE /\ status' = [status EXCEPT ![t] = "Running"]
            /\ UNCHANGED <<active, waitingQ>>
    /\ timers' = TimersWithout(t, s)
    /\ waitSem' = [waitSem EXCEPT ![t] = NoSem]
    /\ cause' = [cause EXCEPT ![t] = why]
    /\ holds' = IF why = "Normal" /\ s \in Mutex
                THEN [h EXCEPT ![t] = @ \cup {s}] ELSE h
    /\ NotifyOtherCpu(c, Core[t])

NoWake == UNCHANGED <<status, active, waitingQ, timers, waitSem, cause, clockVars>>

\* Mutant: a terminated task that is still listed is woken as well.
CanWakeDead(s) ==
    blocked[s] # << >> /\ status[Head(blocked[s])] \in Waits \cup {"Terminated"}

\* signal_waiting_task fails for a task that is terminated or gone.
CanWake(s) == blocked[s] # << >> /\ status[Head(blocked[s])] \in Waits

\* do_signal(s) on CPU c.
DoSignal(c, s, h) ==
    /\ ~Locked(s)
    /\ \/ /\ Kind[s] = "manual"
          /\ broadcast' = [broadcast EXCEPT ![c] = s]
          /\ holds' = h
          /\ NoWake
          /\ UNCHANGED semVars
       \/ /\ Kind[s] # "manual"
          /\ WantsWake(s) /\ CanWake(s)
          /\ SignalWoke(s)
          /\ WakeTask(c, Head(blocked[s]), s, "Normal", h)
          /\ UNCHANGED broadcast
       \/ /\ Kind[s] # "manual"
          /\ ~(WantsWake(s) /\ CanWake(s))
          /\ SignalKept(s)
          /\ holds' = h
          /\ NoWake
          /\ UNCHANGED broadcast

\* Mutant: a manual-reset event wakes one task only.
BroadcastOnce(c) ==
    /\ broadcast[c] # NoSem
    /\ LET s == broadcast[c] IN
       \/ /\ CanWake(s)
          /\ blocked' = [blocked EXCEPT ![s] = Tail(@)]
          /\ signalled' = [signalled EXCEPT ![s] = TRUE]
          /\ WakeTask(c, Head(blocked[s]), s, "Normal", holds)
          /\ broadcast' = [broadcast EXCEPT ![c] = NoSem]
          /\ UNCHANGED counter
       \/ /\ ~CanWake(s)
          /\ BroadcastDone(s)
          /\ broadcast' = [broadcast EXCEPT ![c] = NoSem]
          /\ holds' = holds
          /\ NoWake
    /\ UNCHANGED <<pc, arg, running, suspendedQ, terminatedQ, events, expired,
                   killVars, stackVars, resumed>>

\* The Wake::All loop of do_signal: wake heads until one cannot be woken.
Broadcast(c) ==
    /\ broadcast[c] # NoSem
    /\ LET s == broadcast[c] IN
       \/ /\ CanWake(s)
          /\ BroadcastWoke(s)
          /\ WakeTask(c, Head(blocked[s]), s, "Normal", holds)
          /\ UNCHANGED broadcast
       \/ /\ ~CanWake(s)
          /\ BroadcastDone(s)
          /\ broadcast' = [broadcast EXCEPT ![c] = NoSem]
          /\ holds' = holds
          /\ NoWake
    /\ UNCHANGED <<pc, arg, running, suspendedQ, terminatedQ, events, expired,
                   killVars, stackVars, resumed>>

\* do_signal_on_task(s, t) on CPU c, for an expired timer or an interruption.
Wakeable(t, why) ==
    status[t] \in (IF why = "Interruption" THEN {"WaitingInterruptible"} ELSE Waits)

DoSignalOnTask(c, s, t, why) ==
    /\ ~Locked(s)
    /\ \/ /\ t \in Elems(blocked[s]) /\ Wakeable(t, why)
          /\ Withdraw(s, t)
          /\ WakeTask(c, t, s, why, holds)
       \/ /\ ~(t \in Elems(blocked[s]) /\ Wakeable(t, why))
          /\ holds' = holds
          /\ NoWake
          /\ UNCHANGED semVars

\* notify_watchers: first the events of reaped tasks, then expired timers.
NotifyWatchers(c) ==
    /\ broadcast[c] = NoSem
    /\ \/ \E s \in events[c] :
             /\ events' = [events EXCEPT ![c] = @ \ {s}]
             /\ DoSignal(c, s, holds)
             /\ UNCHANGED expired
       \/ /\ events[c] = {}
          /\ \E r \in expired[c] :
                /\ expired' = [expired EXCEPT ![c] = @ \ {r}]
                /\ DoSignalOnTask(c, r[2], r[1], "TimerExpiry")
          /\ UNCHANGED <<events, broadcast>>
    /\ UNCHANGED <<pc, arg, running, suspendedQ, terminatedQ, killVars,
                   stackVars, resumed>>

-----------------------------------------------------------------------------
(* schedule().                                                              *)

\* pending_kill and is_safe_to_kill, or the saved context is user mode.
KillReady(t) == t \in pendingKill /\ (t \in safeToKill \/ pc[t] = "user")

\* kill_thread runs with preemption disabled until drop_task is done.
PreemptionOff(c) == running[c] # NoTask /\ pc[running[c]] = "drop"

\* Mutant: a CPU goes to sleep with a timeout still armed.
CanSleepIgnoresTimers(c, flip, ts) == ~flip

CanSleep(c, flip, ts) == ~flip /\ \A r \in ts : Core[r[1]] # c

\* update_timers
Ticked(c) == {<<r[1], r[2], r[3] - 1>> : r \in {x \in timers : Core[x[1]] = c}}

TickTimers(c) ==
    /\ timers' = {r \in timers : Core[r[1]] # c} \cup {r \in Ticked(c) : r[3] > 0}
    /\ expired' = [expired EXCEPT ![c] = {<<r[1], r[2]>> : r \in {x \in Ticked(c) : x[3] = 0}}]

\* pop_next_active_task skips, and reaps, the candidates whose kill is ready:
\* the first n of them.
Skipped(q, n) ==
    /\ \A i \in 1 .. n : KillReady(q[i])
    /\ n < Len(q) => ~KillReady(q[n + 1])

\* schedule() is entered from the timer interrupt or from yield_cpu().
Entered(c) ==
    /\ CpuFree(c)
    /\ \/ timerOn[c]
       \/ /\ running[c] # NoTask
          /\ pc[running[c]] \in {"waityield", "suspyield", "exit"}

\* With preemption disabled schedule() only lets time pass.
ScheduleTick(c) ==
    /\ Entered(c) /\ PreemptionOff(c)
    /\ TickTimers(c)
    /\ UNCHANGED <<semVars, status, pc, arg, queueVars, waitSem, cause, holds,
                   events, broadcast, killVars, stackVars, clockVars, resumed>>

\* The running task must give up the CPU: it does not run any more, or its
\* kill can be carried out.  Otherwise it is switched out when its quanta
\* are used up, which is left open.
MustLeave(t) == t = NoTask \/ status[t] # "Running" \/ KillReady(t)

AfterYield(t) ==
    CASE pc[t] = "waityield" -> "waitret"
      [] pc[t] = "suspyield" -> "init"
      [] OTHER -> pc[t]

\* Mutant: the stack of the task that is just being left is freed at once.
ReapTasksNoFlip(c, dead, doomed) ==
    LET left == leftover[c] \cup doomed
    IN  /\ terminatedQ' = {t \in terminatedQ : Core[t] # c}
        /\ leftover' = [leftover EXCEPT ![c] = {}]
        /\ flipFlop' = [flipFlop EXCEPT ![c] = FALSE]
        /\ freed' = freed \cup left \cup dead
        /\ events' = [events EXCEPT ![c] = {TermEvent[t] : t \in dead} \ {NoSem}]

\* The end of a schedule() that takes old off the CPU or keeps it: dead are
\* the tasks reap_tasks finds in terminated_tasks, doomed is old if its
\* pending kill was carried out just now.  A stack that was in use when this
\* schedule() began is kept until the next one (flip_flop).
ReapTasks(c, dead, doomed) ==
    LET left == leftover[c] \cup doomed
        flip == flipFlop[c] \/ doomed # {}
    IN  /\ terminatedQ' = {t \in terminatedQ : Core[t] # c}
        /\ leftover' = [leftover EXCEPT ![c] = IF flip THEN left ELSE {}]
        /\ flipFlop' = [flipFlop EXCEPT ![c] = FALSE]
        /\ freed' = freed \cup (IF flip THEN {} ELSE left) \cup (dead \ left)
        /\ events' = [events EXCEPT ![c] = {TermEvent[t] : t \in dead} \ {NoSem}]

\* What a schedule() on c that looks for another task (switch) and skips the
\* first n candidates does with the CPU: the task it runs next, whether the
\* running task leaves the CPU, keeps its turn, or dies, and who is reaped.
Found(c, switch, n) == switch /\ n < Len(active[c])

NextTask(c, switch, n) ==
    IF Found(c, switch, n) THEN active[c][n + 1]
    ELSE IF MustLeave(running[c]) THEN NoTask ELSE running[c]

Leaves(c, switch, n) == running[c] # NoTask /\ NextTask(c, switch, n) # running[c]

Requeued(c, switch, n) == Leaves(c, switch, n) /\ ~MustLeave(running[c])

Doomed(c, switch, n) ==
    IF Leaves(c, switch, n) /\ KillReady(running[c]) THEN {running[c]} ELSE {}

Dead(c, switch, n) ==
    {active[c][i] : i \in 1 .. n}
    \cup {t \in terminatedQ : Core[t] = c}
    \cup Doomed(c, switch, n)
    \cup {t \in Task : /\ t = running[c] /\ Leaves(c, switch, n)
                       /\ status[t] = "Terminated"}

\* The running task, if it is put away into the list of tasks with a status
\* in st.
PutAway(c, switch, n, st) ==
    {t \in Task : /\ t = running[c] /\ Leaves(c, switch, n)
                  /\ ~KillReady(t) /\ status[t] \in st}

Rest(c, switch, n) ==
    SubSeq(active[c], IF Found(c, switch, n) THEN n + 2 ELSE n + 1, Len(active[c]))

SwitchTasks(c, switch, n) ==
    LET old  == running[c]
        next == NextTask(c, switch, n)
        dead == Dead(c, switch, n)
    IN  /\ MustLeave(old) => switch
        /\ IF switch THEN Skipped(active[c], n) ELSE n = 0
        /\ status' = [t \in Task |->
                         IF t \in dead THEN "Reaped"
                         ELSE IF t = next THEN "Running"
                         ELSE IF t = old /\ Requeued(c, switch, n) THEN "Active"
                         ELSE status[t]]
        /\ running' = [running EXCEPT ![c] = next]
        /\ active' = [active EXCEPT ![c] = IF Requeued(c, switch, n)
                                           THEN Append(Rest(c, switch, n), old)
                                           ELSE Rest(c, switch, n)]
        /\ waitingQ' = waitingQ \cup PutAway(c, switch, n, Waits)
        /\ suspendedQ' = suspendedQ \cup PutAway(c, switch, n, {"Suspended"})
        /\ ReapTasks(c, dead, Doomed(c, switch, n))
        /\ timerOn' = IF /\ next = NoTask
                         /\ CanSleep(c, flipFlop[c] \/ Doomed(c, switch, n) # {}, timers')
                      THEN [timerOn EXCEPT ![c] = FALSE] ELSE timerOn
        /\ pc' = IF switch /\ old # NoTask
                 THEN [pc EXCEPT ![old] = AfterYield(old)] ELSE pc

Schedule(c) ==
    /\ Entered(c) /\ ~PreemptionOff(c)
    /\ TickTimers(c)
    /\ \E switch \in BOOLEAN, n \in 0 .. Len(active[c]) : SwitchTasks(c, switch, n)
    /\ UNCHANGED <<semVars, arg, waitSem, cause, holds, broadcast, killVars,
                   ipi, resumed>>

-----------------------------------------------------------------------------
(* What a task executing on CPU c may do.                                   *)

\* create_thread + start_task: the new task goes to the tail of its CPU.
StartTask(c, t, new) ==
    /\ At(c, t, "kern")
    /\ status[new] = "New"
    /\ status' = [status EXCEPT ![new] = "Active"]
    /\ active' = [active EXCEPT ![Core[new]] = Append(@, new)]
    /\ NotifyOtherCpu(c, Core[new])
    /\ UNCHANGED <<semVars, pc, arg, running, waitingQ, suspendedQ, terminatedQ,
                   waitVars, notifyVars, killVars, stackVars, resumed>>

\* do_wait that does not block, with any timeout (a try_wait included).
WaitTake(c, t, s) ==
    /\ At(c, t, "kern")
    /\ s \notin holds[t]
    /\ ~Locked(s)
    /\ Take(s)
    /\ cause' = [cause EXCEPT ![t] = "Normal"]
    /\ holds' = IF s \in Mutex THEN [holds EXCEPT ![t] = @ \cup {s}] ELSE holds
    /\ UNCHANGED <<status, pc, arg, queueVars, waitSem, timers, notifyVars,
                   killVars, stackVars, clockVars, resumed>>

\* do_wait that would block but does not: a try_wait, a task that has been
\* terminated, or an interruptible wait of a task marked to die.
WaitRefused(c, t, s, ticks, intr) ==
    \/ ticks = 0
    \/ status[t] = "Terminated"
    \/ intr /\ t \in pendingKill

WaitFail(c, t, s, ticks, intr) ==
    /\ At(c, t, "kern")
    /\ s \notin holds[t]
    /\ ~Locked(s)
    /\ ~CanTake(s)
    /\ WaitRefused(c, t, s, ticks, intr)
    /\ cause' = [cause EXCEPT ![t] = "Normal"]
    /\ UNCHANGED <<semVars, status, pc, arg, queueVars, waitSem, timers, holds,
                   notifyVars, killVars, stackVars, clockVars, resumed>>

\* do_wait that blocks: add_cur_task_to_wait_queue and the object's list, in
\* one critical section of the object's lock.  ticks = -1 is no timeout.
WaitBlock(c, t, s, ticks, intr) ==
    /\ At(c, t, "kern")
    /\ s \notin holds[t]
    /\ ~Locked(s)
    /\ ~WaitRefused(c, t, s, ticks, intr)
    /\ Block(s, t)
    /\ status' = [status EXCEPT ![t] = IF intr THEN "WaitingInterruptible" ELSE "Waiting"]
    /\ waitSem' = [waitSem EXCEPT ![t] = s]
    /\ timers' = timers \cup (IF ticks > 0 THEN {<<t, s, ticks>>} ELSE {})
    /\ cause' = [cause EXCEPT ![t] = "Normal"]
    /\ Goto(t, "waityield", <<NoTask, s>>)
    /\ UNCHANGED <<queueVars, holds, notifyVars, killVars, stackVars, clockVars,
                   resumed>>

Wait(c, t, s) ==
    \E ticks \in (-1) .. MaxTicks, intr \in (IF t \in UserTask THEN BOOLEAN ELSE {FALSE}) :
        WaitFail(c, t, s, ticks, intr) \/ WaitBlock(c, t, s, ticks, intr)

\* do_wait returns the result that signal_cause tells.
WaitReturn(c, t) ==
    /\ At(c, t, "waitret")
    /\ Goto(t, "kern", Nothing)
    /\ UNCHANGED <<semVars, status, queueVars, waitVars, notifyVars, killVars,
                   stackVars, clockVars, resumed>>

\* signal(); the drop of a ConfigGuard if the object is a mutex.  The term
\* events are only signalled by the scheduler.
Signal(c, t, s) ==
    /\ At(c, t, "kern")
    /\ s \in Mutex => s \in holds[t]
    /\ \A u \in Task : s # TermEvent[u]
    /\ DoSignal(c, s, [holds EXCEPT ![t] = @ \ {s}])
    /\ UNCHANGED <<pc, arg, running, suspendedQ, terminatedQ, events, expired,
                   killVars, stackVars, resumed>>

ResetEvent(c, t, s) ==
    /\ At(c, t, "kern")
    /\ ~Locked(s)
    /\ \A u \in Task : s # TermEvent[u]
    /\ Reset(s)
    /\ UNCHANGED <<status, pc, arg, queueVars, waitVars, notifyVars, killVars,
                   stackVars, clockVars, resumed>>

-----------------------------------------------------------------------------
(* Killing.                                                                 *)

Alive(t) == status[t] \notin {"New", "Reaped"}

\* Mutant: the timer of a waiting task stays armed.
TerminateLeavesTimer(c, v) ==
    /\ status' = [status EXCEPT ![v] = "Terminated"]
    /\ active' = [active EXCEPT ![Core[v]] = IF status[v] = "Active" THEN Without(@, v) ELSE @]
    /\ waitingQ' = waitingQ \ {v}
    /\ suspendedQ' = suspendedQ \ {v}
    /\ terminatedQ' = terminatedQ \cup
          (IF status[v] = "Active" \/ v \in waitingQ \cup suspendedQ THEN {v} ELSE {})
    /\ NotifyOtherCpu(c, Core[v])
    /\ UNCHANGED <<timers, leftover, flipFlop>>

\* The part of kill_thread that runs under the victim's queue lock.  A task
\* that is running keeps its stack until its CPU has left it.
Terminate(c, v) ==
    /\ status' = [status EXCEPT ![v] = "Terminated"]
    /\ active' = [active EXCEPT ![Core[v]] = IF status[v] = "Active" THEN Without(@, v) ELSE @]
    /\ waitingQ' = waitingQ \ {v}
    /\ suspendedQ' = suspendedQ \ {v}
    /\ terminatedQ' = terminatedQ \cup
          (IF status[v] = "Active" \/ v \in waitingQ \cup suspendedQ THEN {v} ELSE {})
    /\ timers' = IF status[v] \in Waits THEN {r \in timers : r[1] # v} ELSE timers
    /\ IF status[v] = "Running"
       THEN /\ leftover' = [leftover EXCEPT ![Core[v]] = @ \cup {v}]
            /\ flipFlop' = [flipFlop EXCEPT ![Core[v]] = TRUE]
       ELSE UNCHANGED <<leftover, flipFlop>>
    /\ IF status[v] = "Terminated" THEN UNCHANGED clockVars ELSE NotifyOtherCpu(c, Core[v])

\* kill_thread of a kernel thread by another thread.  If the victim was
\* waiting, drop_task follows.
KillThread(c, t, v) ==
    /\ At(c, t, "kern")
    /\ v \in Killable \ {t} /\ Alive(v)
    /\ Terminate(c, v)
    /\ IF status[v] \in Waits THEN Goto(t, "drop", <<v, NoSem>>) ELSE UNCHANGED <<pc, arg>>
    /\ UNCHANGED <<semVars, running, waitSem, cause, holds, notifyVars, killVars,
                   freed, resumed>>

\* KSem::drop_task for the entry of the victim's wait_semaphores.
DropTask(c, t) ==
    LET v == arg[t][1]
        s == waitSem[v]
    IN  /\ At(c, t, "drop")
        /\ \/ /\ s # NoSem /\ ~Locked(s) /\ v \in Elems(blocked[s])
              /\ Withdraw(s, v)
           \/ /\ s = NoSem \/ v \notin Elems(blocked[s])
              /\ UNCHANGED semVars
        /\ waitSem' = [waitSem EXCEPT ![v] = NoSem]
        /\ Goto(t, "kern", Nothing)
        /\ UNCHANGED <<status, queueVars, timers, cause, holds, notifyVars, killVars,
                       stackVars, clockVars, resumed>>

\* exit_thread, sys_exit: the task kills itself, and yields for good.
ExitThread(c, t) ==
    /\ At(c, t, "kern")
    /\ holds[t] = {}
    /\ Terminate(c, t)
    /\ Goto(t, "exit", Nothing)
    /\ UNCHANGED <<semVars, running, waitSem, cause, holds, notifyVars, killVars,
                   freed, resumed>>

\* safe_kill_thread: a user thread is only marked; if it is in an
\* interruptible wait its wait is interrupted in a second step.
SafeKill(c, t, v) ==
    /\ At(c, t, "kern")
    /\ v \in UserTask /\ Alive(v)
    /\ status[v] # "Terminated" /\ v \notin pendingKill
    /\ pendingKill' = pendingKill \cup {v}
    /\ IF status[v] = "WaitingInterruptible"
       THEN Goto(t, "intr", <<v, waitSem[v]>>) ELSE UNCHANGED <<pc, arg>>
    /\ UNCHANGED <<semVars, status, queueVars, waitVars, notifyVars, safeToKill,
                   stackVars, clockVars, resumed>>

InterruptWait(c, t) ==
    /\ At(c, t, "intr")
    /\ DoSignalOnTask(c, arg[t][2], arg[t][1], "Interruption")
    /\ Goto(t, "kern", Nothing)
    /\ UNCHANGED <<running, suspendedQ, terminatedQ, notifyVars, killVars,
                   stackVars, resumed>>

-----------------------------------------------------------------------------
(* User mode.                                                               *)

\* transfer_control_to_user, at the end of user_init_handler.
TransferToUser(c, t) ==
    /\ At(c, t, "init")
    /\ Goto(t, "user", Nothing)
    /\ UNCHANGED <<semVars, status, queueVars, waitVars, notifyVars, killVars,
                   stackVars, clockVars, resumed>>

SyscallEnter(c, t) ==
    /\ At(c, t, "user")
    /\ Goto(t, "kern", Nothing)
    /\ UNCHANGED <<semVars, status, queueVars, waitVars, notifyVars, killVars,
                   stackVars, clockVars, resumed>>

\* check_pending_kill_at_syscall_exit: a task marked to die never returns.
SyscallExit(c, t) ==
    /\ At(c, t, "kern")
    /\ t \in UserTask
    /\ holds[t] = {}
    /\ IF t \in pendingKill
       THEN Goto(t, "exit", Nothing) /\ safeToKill' = safeToKill \cup {t}
       ELSE Goto(t, "user", Nothing) /\ UNCHANGED safeToKill
    /\ UNCHANGED <<semVars, status, queueVars, waitVars, notifyVars, pendingKill,
                   stackVars, clockVars, resumed>>

-----------------------------------------------------------------------------
(* Suspension of a process at start-up.                                     *)

SuspendProcess(c, t) ==
    /\ At(c, t, "held")
    /\ IF t \notin resumed /\ status[t] = "Running"
       THEN /\ status' = [status EXCEPT ![t] = "Suspended"]
            /\ Goto(t, "suspyield", Nothing)
       ELSE /\ UNCHANGED status
            /\ Goto(t, "init", Nothing)
    /\ UNCHANGED <<semVars, queueVars, waitVars, notifyVars, killVars, stackVars,
                   clockVars, resumed>>

\* resume_process, under the process lock and then under the queue lock.
ResumeProcess(c, t, v) ==
    /\ At(c, t, "kern")
    /\ v \in HeldTask /\ Alive(v)
    /\ resumed' = resumed \cup {v}
    /\ Goto(t, "resume", <<v, NoSem>>)
    /\ UNCHANGED <<semVars, status, queueVars, waitVars, notifyVars, killVars,
                   stackVars, clockVars>>

\* Mutant: a resumed task is queued also if it is still on its CPU.
ResumeTaskAlwaysQueues(c, t) ==
    LET v == arg[t][1]
    IN  /\ At(c, t, "resume")
        /\ IF status[v] # "Suspended"
           THEN UNCHANGED <<status, active, suspendedQ, clockVars>>
           ELSE /\ status' = [status EXCEPT ![v] = "Active"]
                /\ active' = [active EXCEPT ![Core[v]] = <<v>> \o @]
                /\ suspendedQ' = suspendedQ \ {v}
                /\ NotifyOtherCpu(c, Core[v])
        /\ Goto(t, "kern", Nothing)
        /\ UNCHANGED <<semVars, running, waitingQ, terminatedQ, waitVars, notifyVars,
                       killVars, stackVars, resumed>>

ResumeTask(c, t) ==
    LET v == arg[t][1]
    IN  /\ At(c, t, "resume")
        /\ IF status[v] # "Suspended"
           THEN UNCHANGED <<status, active, suspendedQ, clockVars>>
           ELSE /\ IF v \in suspendedQ
                   THEN /\ status' = [status EXCEPT ![v] = "Active"]
                        /\ active' = [active EXCEPT ![Core[v]] = <<v>> \o @]
                        /\ suspendedQ' = suspendedQ \ {v}
                   ELSE /\ status' = [status EXCEPT ![v] = "Running"]
                        /\ UNCHANGED <<active, suspendedQ>>
                /\ NotifyOtherCpu(c, Core[v])
        /\ Goto(t, "kern", Nothing)
        /\ UNCHANGED <<semVars, running, waitingQ, terminatedQ, waitVars, notifyVars,
                       killVars, stackVars, resumed>>

-----------------------------------------------------------------------------
CpuStep(c) ==
    \/ HandleIpi(c)
    \/ ScheduleTick(c)
    \/ Schedule(c)
    \/ NotifyWatchers(c)
    \/ Broadcast(c)

TaskStep(c, t) ==
    \/ \E s \in Sem : WaitTake(c, t, s) \/ Wait(c, t, s) \/ Signal(c, t, s) \/ ResetEvent(c, t, s)
    \/ \E v \in Task : \/ StartTask(c, t, v) \/ KillThread(c, t, v)
                       \/ SafeKill(c, t, v)  \/ ResumeProcess(c, t, v)
    \/ WaitReturn(c, t)
    \/ DropTask(c, t)
    \/ InterruptWait(c, t)
    \/ ResumeTask(c, t)
    \/ ExitThread(c, t)
    \/ TransferToUser(c, t)
    \/ SyscallEnter(c, t)
    \/ SyscallExit(c, t)
    \/ SuspendProcess(c, t)

Next == \E c \in Cpu : CpuStep(c) \/ \E t \in Task : TaskStep(c, t)

Spec == Init /\ [][Next]_vars

-----------------------------------------------------------------------------
(* Properties.                                                              *)

TypeOK ==
    /\ status \in [Task -> Waits \cup {"New", "Active", "Running", "Suspended",
                                       "Terminated", "Reaped"}]
    /\ pc \in [Task -> PcValues]
    /\ arg \in [Task -> (Task \cup {NoTask}) \X (Sem \cup {NoSem})]
    /\ running \in [Cpu -> Task \cup {NoTask}]
    /\ active \in [Cpu -> Seq(Task)]
    /\ waitingQ \subseteq Task
    /\ suspendedQ \subseteq Task
    /\ terminatedQ \subseteq Task
    /\ waitSem \in [Task -> Sem \cup {NoSem}]
    /\ timers \subseteq Task \X Sem \X Nat
    /\ cause \in [Task -> {"Normal", "TimerExpiry", "Interruption"}]
    /\ events \in [Cpu -> SUBSET Sem]
    /\ expired \in [Cpu -> SUBSET (Task \X Sem)]
    /\ broadcast \in [Cpu -> Sem \cup {NoSem}]
    /\ pendingKill \subseteq UserTask
    /\ safeToKill \subseteq UserTask
    /\ leftover \in [Cpu -> SUBSET Task]
    /\ flipFlop \in [Cpu -> BOOLEAN]
    /\ freed \subseteq Task
    /\ timerOn \in [Cpu -> BOOLEAN]
    /\ ipi \in [Cpu -> BOOLEAN]
    /\ resumed \subseteq Task
    /\ holds \in [Task -> SUBSET Mutex]
    /\ counter \in [Sem -> Int]
    /\ signalled \in [Sem -> BOOLEAN]
    /\ blocked \in [Sem -> Seq(Task)]

QueuedOnce ==
    \A c \in Cpu :
        /\ \A t \in Elems(active[c]) : Core[t] = c /\ status[t] = "Active"
        /\ NoRepeats(active[c])

OnItsCpu ==
    \A c \in Cpu : running[c] # NoTask =>
        /\ Core[running[c]] = c
        /\ status[running[c]] \in Waits \cup {"Running", "Suspended", "Terminated"}

Here(t) == running[Core[t]] = t

Placed(t) ==
    /\ status[t] = "Active" => t \in Elems(active[Core[t]])
    /\ status[t] = "Running" => Here(t)
    /\ (status[t] \in Waits /\ ~Here(t)) <=> t \in waitingQ
    /\ (status[t] = "Suspended" /\ ~Here(t)) <=> t \in suspendedQ
    /\ (status[t] = "Terminated" /\ ~Here(t)) <=> t \in terminatedQ

\* A task is where its status says, and nowhere else: an active task is
\* queued once on its own CPU, a running one is on its CPU, a waiting,
\* suspended or terminated one is on its CPU until schedule() put it away
\* and in the matching list after.  It is what the asserts on a popped task
\* and on find_and_remove in kill_thread rely on.
OnePlace == QueuedOnce /\ OnItsCpu /\ \A t \in Task : Placed(t)

\* What OnePlace and TypeOK need to be inductive.  A call that works on
\* another task knows which, and the victim of a drop_task is dead by then;
\* a waiting task has an entry in wait_semaphores.
CallArgs ==
    \A t \in Task :
        /\ pc[t] \in {"drop", "intr", "resume"} => arg[t][1] \in Task
        /\ pc[t] = "intr" => arg[t][2] \in Sem
        /\ pc[t] = "drop" => status[arg[t][1]] \in {"Terminated", "Reaped"}

WaitsForObject == \A t \in Task : status[t] \in Waits => waitSem[t] \in Sem

PlaceInv == TypeOK /\ OnePlace /\ CallArgs /\ WaitsForObject

\* u is between terminating t and taking it off its blocked_list.
DroppingTask(u, t) == pc[u] = "drop" /\ arg[u][1] = t /\ running[Core[u]] = u

NoKillUnderWay == \A u \in Task : pc[u] # "drop" \/ status[u] = "Reaped"

\* A task is on an object's blocked_list exactly while it waits for it, once;
\* signal_waiting_task panics on a listed task that does not wait.  A killed
\* task may be listed as long as its killer has not reached drop_task.
BlockedWait ==
    /\ \A s \in Sem :
          /\ \A t \in Elems(blocked[s]) :
                /\ waitSem[t] = s
                /\ \/ status[t] \in Waits
                   \/ /\ status[t] \in {"Terminated", "Reaped"}
                      /\ \E u \in Task : DroppingTask(u, t)
          /\ NoRepeats(blocked[s])
    /\ \A t \in Task : status[t] \in Waits =>
          waitSem[t] # NoSem /\ t \in Elems(blocked[waitSem[t]])

\* A semaphore's counter is negative by exactly the number of its waiters:
\* a unit is never kept from a waiting task, and no waiter's unit is lost,
\* whether waits end by a signal, a timeout, an interruption or a kill.
CounterMatchesWaiters ==
    \A s \in Sem : IsSem(s) /\ NoKillUnderWay =>
        /\ counter[s] <= MaxCount[s]
        /\ Len(blocked[s]) = (IF counter[s] < 0 THEN -counter[s] ELSE 0)

\* An event that is signalled has no waiters left behind: do_signal sets it
\* only when no task could be woken, "so that the signal is not lost".
SignalLeavesNoWaiter ==
    \A s \in Sem : ~IsSem(s) /\ signalled[s] /\ ~Locked(s) /\ NoKillUnderWay =>
        blocked[s] = << >>

Holders(s) == {t \in Task : s \in holds[t]}

\* Between the units left, the waiters and the holders no unit of a mutex is
\* made or lost; in particular no more tasks hold it than it has units.
UnitsConserved ==
    \A s \in Mutex :
        /\ Cardinality(Holders(s)) <= MaxCount[s]
        /\ counter[s] + Cardinality(Holders(s)) + Len(blocked[s]) = MaxCount[s]

\* A wait for a mutex that is over reports success exactly when it was
\* granted: a timeout or an interruption that races the hand-over of the
\* mutex neither takes it away nor hides it.
ResultMatchesGrant ==
    \A t \in Task :
        /\ pc[t] \in {"waityield", "waitret"} /\ status[t] \in {"Active", "Running"}
        /\ arg[t][2] \in Mutex
        => (cause[t] = "Normal" <=> arg[t][2] \in holds[t])

\* A timer in timer_list belongs to the wait its task is in now, and so does
\* one schedule() has taken out, unless its task has been woken and has not
\* run since: a timer never ends a later wait.
TimersCurrent ==
    /\ \A r \in timers : status[r[1]] \in Waits /\ waitSem[r[1]] = r[2]
    /\ \A r, x \in timers : r[1] = x[1] => r = x
    /\ \A c \in Cpu : \A r \in expired[c] :
          \/ status[r[1]] \in Waits /\ waitSem[r[1]] = r[2]
          \/ status[r[1]] = "Active" /\ pc[r[1]] = "waitret" /\ arg[r[1]][2] = r[2]
          \/ status[r[1]] \in {"Terminated", "Reaped"}
          \/ running[c] = r[1] /\ pc[r[1]] \in {"waityield", "waitret"} /\ arg[r[1]][2] = r[2]

\* A task marked to die that is in an interruptible wait is about to be
\* interrupted: the mark and the interruption are two steps, and no order of
\* them with a wake-up and a new wait leaves the task asleep.
DyingIsInterrupted ==
    \A t \in pendingKill : status[t] = "WaitingInterruptible" =>
        \E u \in Task : /\ pc[u] = "intr" /\ arg[u] = <<t, waitSem[t]>>
                        /\ status[u] \in {"Running", "Active"}

\* Semaphores and mutexes keep their units and tell their waiters the truth,
\* although waits end by signals, timeouts, interruptions and marks to die
\* that race each other on several CPUs.
SemaphoresSound ==
    CounterMatchesWaiters /\ UnitsConserved /\ ResultMatchesGrant /\ DyingIsInterrupted

\* A CPU whose scheduler timer is off has nothing to do, or is about to be
\* told: an idle CPU never sleeps on a runnable task, an armed timeout, a
\* task to reap or a stack to free.
SleepsOnlyWhenIdle ==
    \A c \in Cpu : ~timerOn[c] /\ ~ipi[c] =>
        /\ running[c] = NoTask
        /\ active[c] = << >>
        /\ \A r \in timers : Core[r[1]] # c
        /\ \A t \in terminatedQ : Core[t] # c
        /\ leftover[c] = {}

\* A join never returns early: the term event of a task is signalled, or a
\* waiter of it woken, only once the task was reaped.
JoinAfterReap ==
    \A t \in Task : TermEvent[t] # NoSem =>
        /\ signalled[TermEvent[t]] => status[t] = "Reaped"
        /\ Locked(TermEvent[t]) => status[t] = "Reaped"

\* A resume is not lost: a task of a resumed process is suspended only until
\* the resume_process that made the process Ready has taken the queue lock,
\* whichever of suspend_process and resume_process came first.
ResumeNotLost ==
    \A t \in resumed : status[t] = "Suspended" =>
        \E u \in Task : pc[u] = "resume" /\ arg[u][1] = t /\ status[u] \in {"Running", "Active"}

\* The scheduler never unmaps the stack it is executing on: schedule() runs
\* on the stack of the task it interrupted until it returns.
KeepsOwnStack ==
    [][\A c \in Cpu : running[c] # NoTask => running[c] \notin freed']_vars

\* TERMINATED > WAITING, TERMINATED > SUSPENDED: nothing brings a terminated
\* task back.
DeadStaysDead ==
    [][\A t \in Task : status[t] \in {"Terminated", "Reaped"} =>
          status'[t] \in {status[t], "Reaped"}]_vars

\* A user task dies, and its stack goes, only where nothing needs them any
\* more. A user task that others kill dies in user mode or at the end of a
\* syscall, holding no mutex and waiting for nothing (safe_kill_thread), and
\* no stack is unmapped while a core still executes on it (reap_tasks).
DiesSafely ==
    [][/\ \A t \in UserTask : status[t] # "Terminated" /\ status'[t] \in {"Terminated", "Reaped"} =>
             \/ pc[t] \in {"user", "exit"} /\ holds[t] = {} /\ waitSem[t] = NoSem
             \/ pc'[t] = "exit" /\ running[Core[t]] = t
       /\ \A c \in Cpu : running[c] # NoTask => running[c] \notin freed']_vars

-----------------------------------------------------------------------------
(* What the properties above need to be inductive when no kernel task is   *)
(* killed from outside (Killable = {}), so that every task dies in its own *)
(* exit_thread or where safe_kill_thread waits for it.                     *)

\* Where in the code a task of each status is, and what it then has.
StatusMatchesPc(t) ==
    /\ pc[t] # "drop"
    /\ status[t] \in Waits => pc[t] \in {"waityield", "waitret"} /\ arg[t][2] = waitSem[t]
    /\ waitSem[t] # NoSem => status[t] \in Waits
    /\ status[t] = "New" => pc[t] \in {"held", "init", "kern"}
    /\ status[t] = "Suspended" => pc[t] \in {"suspyield", "init"}
    /\ status[t] = "Terminated" => pc[t] = "exit"
    /\ status[t] = "Reaped" => pc[t] \in {"user", "exit"}
    /\ t \in safeToKill => pc[t] = "exit"
    /\ pc[t] \in {"user", "held", "init", "suspyield", "exit"} => holds[t] = {}

\* A blocked_list has the tasks that wait for its object, once, and none of
\* them holds it.
ListsWaiters(s) ==
    /\ \A t \in Elems(blocked[s]) : waitSem[t] = s /\ s \notin holds[t]
    /\ \A t \in Task : waitSem[t] = s => t \in Elems(blocked[s])
    /\ NoRepeats(blocked[s])

\* CounterMatchesWaiters, UnitsConserved and SignalLeavesNoWaiter of one object.
UnitsSound(s) ==
    /\ IsSem(s) => /\ counter[s] <= MaxCount[s]
                   /\ Len(blocked[s]) = (IF counter[s] < 0 THEN -counter[s] ELSE 0)
    /\ s \in Mutex => counter[s] + Cardinality(Holders(s)) + Len(blocked[s]) = MaxCount[s]
    /\ ~IsSem(s) /\ signalled[s] => blocked[s] = << >>

\* The scheduler signals manual-reset events only, those of tasks it reaped.
NotifiesReaped ==
    \A c \in Cpu :
        /\ broadcast[c] # NoSem => Kind[broadcast[c]] = "manual"
        /\ \A s \in events[c] : Kind[s] = "manual"
        /\ \A t \in Task : TermEvent[t] \in events[c] => status[t] = "Reaped"

\* The stacks to free are those of reaped tasks, and that of the dead task a
\* CPU is still on, which flip_flop protects.
StacksSound ==
    /\ \A t \in freed : status[t] = "Reaped"
    /\ \A c \in Cpu : \A t \in leftover[c] :
          status[t] = "Reaped" \/ (running[c] = t /\ status[t] = "Terminated" /\ flipFlop[c])
    /\ \A c \in Cpu : running[c] # NoTask /\ status[running[c]] = "Terminated" =>
          running[c] \in leftover[c] /\ flipFlop[c]

SafeInv ==
    /\ \A t \in Task : StatusMatchesPc(t)
    /\ \A s \in Sem : ListsWaiters(s) /\ UnitsSound(s)
    /\ NotifiesReaped /\ JoinAfterReap /\ StacksSound
    /\ ResultMatchesGrant /\ DyingIsInterrupted /\ ResumeNotLost
=============================================================================
