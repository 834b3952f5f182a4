----------------------------- MODULE AcpiEvents -----------------------------
(***************************************************************************)
(* ACPI events: general-purpose events (events/evgpe.c, evxfgpe.c,         *)
(* evxface.c, evgpeblk.c and hardware/hwgpe.c), notifications (evmisc.c,   *)
(* evxface.c) and the one-thread work queue of the kernel's OS layer on    *)
(* which both defer (acpica/osl.rs).  A client is a driver of the life     *)
(* cycle of drivers/ec: it installs a notify handler and, when it owns a   *)
(* GPE, a GPE handler, and takes them away again when it is stopped.       *)
(*                                                                         *)
(* A step that runs under AcpiGbl_GpeLock or ACPI_MTX_NAMESPACE is one     *)
(* action.  The worker is taken to wake whenever the queue is not empty:   *)
(* the auto-reset event it sleeps on is signalled after every insertion.   *)
(***************************************************************************)
EXTENDS Naturals, Sequences

CONSTANTS
    Gpe, Client, Nobody,
    GpeOf,       \* the GPE a client handles, or None
    Level,       \* the GPEs whose device holds its line until it is served
    MaxQueue     \* bound on the work queue, for the sources of new events

\* The notify lists of a node: system and device notifications.
NotifyList == {0, 1}

VARIABLES
    gpes,      \* per GPE: ACPI_GPE_EVENT_INFO, its register bits, its device
    saved,    \* per GPE: what ACPI_GPE_HANDLER_INFO keeps of the replaced dispatch
    allInit,  \* AcpiGbl_AllGpesInitialized
    head,     \* ObjDesc->CommonNotify.NotifyList
    next,     \* Notify.Next of each client's handler object
    notifyRefs,     \* reference count of each client's handler object, 0 when freed
    queue,    \* WORK_QUEUE
    worker,   \* the item being run, or None
    client    \* where each client is in its life

eventVars == <<gpes, saved, allInit, head, next, notifyRefs, queue, worker, client>>

EventsInit ==
    /\ gpes \in [Gpe -> {[disp |-> d, level |-> l, count |-> 0, mask |-> FALSE,
                         enable |-> FALSE, status |-> FALSE, line |-> FALSE] :
                            d \in {"none", "method"}, l \in BOOLEAN}]
    /\ \A g \in Gpe : gpes[g].level = (gpes[g].disp = "method" /\ g \in Level)
    /\ saved = [g \in Gpe |-> [disp |-> "none", level |-> FALSE, enabled |-> FALSE]]
    /\ allInit = FALSE
    /\ head = [i \in NotifyList |-> Nobody]
    /\ next = [c \in Client |-> [i \in NotifyList |-> Nobody]]
    /\ notifyRefs = [c \in Client |-> 0]
    /\ queue = <<>>
    /\ worker = Nobody
    /\ client = [c \in Client |-> "off"]

-----------------------------------------------------------------------------
(* The hardware register bits of a GPE.                                    *)

\* AcpiHwLowSetGpe.
LowSetGpe(r, action) ==
    CASE action = "enable" -> [r EXCEPT !.enable = TRUE]
      [] action = "disable" -> [r EXCEPT !.enable = FALSE]
      [] action = "conditional" -> [r EXCEPT !.enable = @ \/ r.mask]

\* AcpiHwClearGpe: write 1 to clear; a line still held sets the bit again.
HwClearGpe(r) == [r EXCEPT !.status = r.line]

\* AcpiEvUpdateGpeEnableMask.
UpdateGpeEnableMask(r) == [r EXCEPT !.mask = r.count > 0]

\* AcpiEvAddGpeReference: the first reference arms the GPE.
AddGpeReference(r, clear) ==
    LET n == [r EXCEPT !.count = @ + 1]
        c == IF clear THEN HwClearGpe(n) ELSE n
    IN IF n.count = 1 THEN LowSetGpe(UpdateGpeEnableMask(c), "enable") ELSE n

\* AcpiEvRemoveGpeReference: the last reference disarms it.
RemoveGpeReference(r) ==
    LET n == [r EXCEPT !.count = @ - 1]
    IN IF r.count = 0 THEN r
       ELSE IF n.count = 0 THEN LowSetGpe(UpdateGpeEnableMask(n), "disable") ELSE n

\* AcpiEvFinishGpe.  DisableForDispatch, which only AcpiMaskGpe reads (the
\* kernel has no caller of it), is left out.
FinishGpe(r) ==
    LowSetGpe(IF r.level THEN HwClearGpe(r) ELSE r, "conditional")

\* The device is served: it lets go of its line.
Served(r) == [r EXCEPT !.line = FALSE]

Exec(g) == [k |-> "exec", g |-> g]
EnableItem(g) == [k |-> "enable", g |-> g]
Fence(c) == [k |-> "fence", c |-> c]

\* AcpiOsExecute: the end of the queue.
OsExecute(item) == queue' = Append(queue, item)

-----------------------------------------------------------------------------
(* Interrupts.                                                             *)

\* A device raises its event.
RaiseGpe(g) ==
    /\ ~gpes[g].status /\ Len(queue) < MaxQueue
    /\ gpes' = [gpes EXCEPT ![g].status = TRUE, ![g].line = g \in Level]
    /\ UNCHANGED <<saved, allInit, head, next, notifyRefs, queue, worker, client>>

\* AcpiEvGpeDispatch with the GPE disarmed, and cleared when it is an edge.
Dispatched(r) ==
    LET d == LowSetGpe(r, "disable") IN IF r.level THEN d ELSE HwClearGpe(d)

\* AcpiEvGpeDetect skips a register none of whose GPEs is enabled for run.
RegisterActive == \E g \in Gpe : gpes[g].mask

\* The SCI: AcpiEvDetectGpe finds the event enabled and pending, and
\* AcpiEvGpeDispatch runs the handler in place (it asks for the GPE to be
\* enabled again) or queues the method.
Sci(g) ==
    /\ RegisterActive /\ gpes[g].status /\ gpes[g].enable
    /\ LET r == Dispatched(gpes[g])
       IN \/ /\ r.disp = "handler"
             /\ gpes' = [gpes EXCEPT ![g] = FinishGpe(Served(r))]
             /\ UNCHANGED queue
          \/ /\ r.disp = "method"
             /\ gpes' = [gpes EXCEPT ![g] = r]
             /\ OsExecute(Exec(g))
    /\ UNCHANGED <<saved, allInit, head, next, notifyRefs, worker, client>>

-----------------------------------------------------------------------------
(* The worker.                                                             *)

\* work_queue_worker takes the oldest item.
Take ==
    /\ worker = Nobody /\ queue # <<>>
    /\ worker' = Head(queue)
    /\ queue' = Tail(queue)
    /\ UNCHANGED <<gpes, saved, allInit, head, next, notifyRefs, client>>

\* AcpiEvAsynchExecuteGpeMethod reads the dispatch type, without the lock.
ExecGpe ==
    /\ worker # Nobody /\ worker.k = "exec"
    /\ LET g == worker.g
       IN \/ /\ gpes[g].disp = "method"
             /\ worker' = [k |-> "eval", g |-> g]
             /\ UNCHANGED gpes
          \/ /\ gpes[g].disp # "method"
             /\ gpes' = [gpes EXCEPT ![g] = FinishGpe(@)]
             /\ worker' = Nobody
    /\ UNCHANGED <<saved, allInit, head, next, notifyRefs, queue, client>>

\* ... and evaluates the method, then defers the re-enable behind the
\* notifications the method queued.  When a handler took the dispatch word
\* meanwhile, what is evaluated is no method and the device is not served.
EvalGpe ==
    /\ worker # Nobody /\ worker.k = "eval"
    /\ LET g == worker.g
       IN /\ gpes' = [gpes EXCEPT ![g] = IF @.disp = "method" THEN Served(@) ELSE @]
          /\ OsExecute(EnableItem(g))
    /\ worker' = Nobody
    /\ UNCHANGED <<saved, allInit, head, next, notifyRefs, client>>

\* AcpiEvAsynchEnableGpe.
AsynchEnableGpe ==
    /\ worker # Nobody /\ worker.k = "enable"
    /\ gpes' = [gpes EXCEPT ![worker.g] = FinishGpe(@)]
    /\ worker' = Nobody
    /\ UNCHANGED <<saved, allInit, head, next, notifyRefs, queue, client>>

\* AcpiEvNotifyDispatch calls the handler it is at and goes to the next one.
NotifyDispatch ==
    /\ worker # Nobody /\ worker.k = "notify"
    /\ LET n == next[worker.h][worker.i]
       IN worker' = IF n = Nobody THEN Nobody ELSE [worker EXCEPT !.h = n]
    /\ UNCHANGED <<gpes, saved, allInit, head, next, notifyRefs, queue, client>>

\* fence_routine wakes the thread in AcpiOsWaitEventsComplete.
RunFence ==
    /\ worker # Nobody /\ worker.k = "fence"
    /\ client' = [client EXCEPT ![worker.c] =
                    CASE @ = "fence_gpe" -> "unlink0"
                      [] @ = "fence0" -> "deref0"
                      [] @ = "fence1" -> "deref1"]
    /\ worker' = Nobody
    /\ UNCHANGED <<gpes, saved, allInit, head, next, notifyRefs, queue>>

-----------------------------------------------------------------------------
(* Clients.                                                                *)

\* AcpiEvQueueNotifyRequest: AML notifies the node, under the namespace
\* mutex; the head of the list is read now and walked later.
QueueNotify(i) ==
    /\ Len(queue) < MaxQueue
    /\ head[i] # Nobody
    /\ OsExecute([k |-> "notify", h |-> head[i], i |-> i])
    /\ UNCHANGED <<gpes, saved, allInit, head, next, notifyRefs, worker, client>>

\* AcpiInstallNotifyHandler for ACPI_ALL_NOTIFY: one object on both lists.
InstallNotifyHandler(c) ==
    /\ client[c] = "off"
    /\ next' = [next EXCEPT ![c] = head]
    /\ head' = [i \in NotifyList |-> c]
    /\ notifyRefs' = [notifyRefs EXCEPT ![c] = 2]
    /\ client' = [client EXCEPT ![c] = IF GpeOf[c] = Nobody THEN "on" ELSE "install"]
    /\ UNCHANGED <<gpes, saved, allInit, queue, worker>>

\* AcpiInstallGpeHandler: an enabled method gives up its reference.
InstallGpeHandler(c) ==
    /\ client[c] = "install"
    /\ client' = [client EXCEPT ![c] = "enable"]
    /\ LET g == GpeOf[c]
           r == gpes[g]
           was == r.disp = "method" /\ r.count > 0
           n == IF was THEN RemoveGpeReference(r) ELSE r
       IN IF r.disp = "handler" THEN UNCHANGED <<gpes, saved>>
          ELSE /\ saved' = [saved EXCEPT ![g] =
                     [disp |-> r.disp, level |-> r.level, enabled |-> was]]
               /\ gpes' = [gpes EXCEPT ![g] =
                     [n EXCEPT !.disp = "handler", !.level = TRUE]]
    /\ UNCHANGED <<allInit, head, next, notifyRefs, queue, worker>>

\* AcpiEnableGpe: refused when the GPE has neither handler nor method.
EnableGpe(c) ==
    /\ client[c] = "enable"
    /\ client' = [client EXCEPT ![c] = "on"]
    /\ gpes' = [gpes EXCEPT ![GpeOf[c]] =
                 IF @.disp = "none" THEN @ ELSE AddGpeReference(@, TRUE)]
    /\ UNCHANGED <<saved, allInit, head, next, notifyRefs, queue, worker>>

\* AcpiEvInitializeGpeBlock: a GPE with a method gets its first reference.
InitializeGpe(r) == IF r.disp = "method" THEN AddGpeReference(r, FALSE) ELSE r

\* AcpiUpdateAllGpes, once.
UpdateAllGpes ==
    /\ ~allInit
    /\ allInit' = TRUE
    /\ gpes' = [g \in Gpe |-> InitializeGpe(gpes[g])]
    /\ UNCHANGED <<saved, head, next, notifyRefs, queue, worker, client>>

\* The driver is stopped: AcpiDisableGpe.
DisableGpe(c) ==
    /\ client[c] = "on"
    /\ IF GpeOf[c] = Nobody
       THEN /\ client' = [client EXCEPT ![c] = "unlink0"]
            /\ UNCHANGED gpes
       ELSE /\ client' = [client EXCEPT ![c] = "remove"]
            /\ gpes' = [gpes EXCEPT ![GpeOf[c]] = RemoveGpeReference(@)]
    /\ UNCHANGED <<saved, allInit, head, next, notifyRefs, queue, worker>>

\* AcpiRemoveGpeHandler: the dispatch before the handler, and its reference.
Restored(r, s) ==
    LET n == [r EXCEPT !.disp = s.disp, !.level = s.level]
    IN IF s.disp = "method" /\ s.enabled THEN AddGpeReference(n, FALSE) ELSE n

\* ... then AcpiOsWaitEventsComplete, before the handler is freed.
RemoveGpeHandler(c) ==
    /\ client[c] = "remove"
    /\ LET g == GpeOf[c]
       IN gpes' = [gpes EXCEPT ![g] = Restored(@, saved[g])]
    /\ OsExecute(Fence(c))
    /\ client' = [client EXCEPT ![c] = "fence_gpe"]
    /\ UNCHANGED <<saved, allInit, head, next, notifyRefs, worker>>

\* The list without c: its predecessor, or the head, skips it.
UnlinkHead(c, i) == IF head[i] = c THEN next[c][i] ELSE head[i]
UnlinkNext(c, i) ==
    [d \in Client |-> IF next[d][i] = c /\ head[i] # c
                      THEN [next[d] EXCEPT ![i] = next[c][i]] ELSE next[d]]

\* Mutant: the handler is unlinked and released without the fence.
UnlinkNoFence(c, i) ==
    /\ client[c] = <<"unlink0", "unlink1">>[i + 1]
    /\ head' = [head EXCEPT ![i] = UnlinkHead(c, i)]
    /\ next' = UnlinkNext(c, i)
    /\ client' = [client EXCEPT ![c] = <<"deref0", "deref1">>[i + 1]]
    /\ UNCHANGED <<gpes, saved, allInit, notifyRefs, queue, worker>>

\* AcpiRemoveNotifyHandler, list i: unlink under the namespace mutex, then
\* AcpiOsWaitEventsComplete.
Unlink(c, i) ==
    /\ client[c] = <<"unlink0", "unlink1">>[i + 1]
    /\ head' = [head EXCEPT ![i] = UnlinkHead(c, i)]
    /\ next' = UnlinkNext(c, i)
    /\ OsExecute(Fence(c))
    /\ client' = [client EXCEPT ![c] = <<"fence0", "fence1">>[i + 1]]
    /\ UNCHANGED <<gpes, saved, allInit, notifyRefs, worker>>

\* ... and drop this list's reference to the handler object.
Dereference(c, i) ==
    /\ client[c] = <<"deref0", "deref1">>[i + 1]
    /\ notifyRefs' = [notifyRefs EXCEPT ![c] = @ - 1]
    /\ client' = [client EXCEPT ![c] = <<"unlink1", "gone">>[i + 1]]
    /\ UNCHANGED <<gpes, saved, allInit, head, next, queue, worker>>

-----------------------------------------------------------------------------
Worker == Take \/ ExecGpe \/ EvalGpe \/ AsynchEnableGpe \/ NotifyDispatch \/ RunFence

Start(c) == InstallNotifyHandler(c) \/ InstallGpeHandler(c) \/ EnableGpe(c)

\* The rest of a stop that has begun.
Stop(c) ==
    \/ RemoveGpeHandler(c)
    \/ \E i \in NotifyList : Unlink(c, i) \/ Dereference(c, i)

EventsNext ==
    \/ \E g \in Gpe : RaiseGpe(g) \/ Sci(g)
    \/ Worker
    \/ UpdateAllGpes
    \/ \E i \in NotifyList : QueueNotify(i)
    \/ \E c \in Client : Start(c) \/ DisableGpe(c) \/ Stop(c)

\* A driver that is being stopped.
Stopping ==
    {"remove", "fence_gpe", "unlink0", "fence0", "deref0", "unlink1", "fence1", "deref1"}

-----------------------------------------------------------------------------
(* Properties.                                                             *)

InFlight(g) ==
    \/ worker # Nobody /\ worker.k \in {"exec", "eval", "enable"} /\ worker.g = g
    \/ \E n \in 1..Len(queue) : queue[n].k \in {"exec", "enable"} /\ queue[n].g = g

\* A GPE is armed in hardware only while somebody references it and there is
\* a handler or a method to run (AcpiEvGpeDispatch: "We will not allow a GPE
\* to be enabled if it has no handler or method"), and a referenced GPE that
\* is not armed has work in flight that will arm it again: no interleaving of
\* interrupt, worker and handler replacement leaves an event source dead.
ArmedWhenReferenced ==
    \A g \in Gpe :
        /\ gpes[g].enable => gpes[g].count > 0 /\ gpes[g].disp # "none"
        /\ gpes[g].count > 0 /\ ~gpes[g].enable => InFlight(g)

\* The handlers AcpiEvNotifyDispatch will still walk from h.
RECURSIVE ReachedFrom(_, _)
ReachedFrom(h, i) == IF h = Nobody THEN {} ELSE {h} \cup ReachedFrom(next[h][i], i)

\* AcpiEvNotifyDispatch walks, from a list head read when the request was
\* queued, only handler objects that are still allocated, and whose driver has
\* not been told that its handler is removed.
WalksLiveHandlers ==
    worker # Nobody /\ worker.k = "notify" =>
        \A c \in ReachedFrom(worker.h, worker.i) : notifyRefs[c] > 0 /\ client[c] # "gone"

-----------------------------------------------------------------------------
(***************************************************************************)
(* The PM1 registers and who writes them: bit registers (hardware/hwregs.c,*)
(* hwxface.c), fixed events and the SCI (events/evevent.c, evsci.c,        *)
(* evxfevnt.c, evxface.c), the switch to ACPI mode (hardware/hwacpi.c) and *)
(* sleeping and waking (hwsleep.c, hwesleep.c, hwxfsleep.c).               *)
(*                                                                         *)
(* Each PM1 register is split between two blocks; a bit is implemented by  *)
(* one of them or by both, and a register is the set of its one bits.  A   *)
(* call is the sequence of its register accesses and assignments, each an  *)
(* atomic step: the thread that calls and the SCI handler, on another      *)
(* processor, are only kept apart by AcpiGbl_HardwareLock and              *)
(* AcpiGbl_GpeLock.  Accesses to validated registers do not fail.          *)
(***************************************************************************)

CONSTANTS
    Half,        \* the PM1 blocks: the first always exists, the second may not
    Has,         \* the bits each block implements
    Events,      \* the fixed events, in the order of AcpiGbl_FixedEventInfo
    RunGpe,      \* the GPEs enabled for run and not masked
    WakeGpe,     \* the GPEs enabled for wake
    RegisterOf,  \* the GPE register of each GPE
    SleepState,  \* the sleeping states used
    Object,      \* what \_Sx evaluates to, for those and for S0
    HostHandler, \* handlers that the host may attach to the SCI
    MaxPolls,    \* the attempts of AcpiHwSetMode, 3000 in the code
    MaxCalls,    \* bound on the calls the thread begins
    None

Event == {Events[i] : i \in DOMAIN Events}

Actor == {"thread", "sci"}
Types == {"t0", "t1", "t2"}   \* the three bits of SLP_TYP
INVALID == {"invalid"}        \* a sleep type above ACPI_SLEEP_TYPE_MAX

VARIABLES
    pm,       \* per block: the status, enable and control registers
    x,        \* AcpiGbl_ReducedHardware, and its sleep control and wake status
    gpe,      \* the GPEs enabled in hardware
    handler,  \* the events with a handler, AcpiGbl_FixedEventHandlers
    host,     \* AcpiGbl_SciHandlerList
    live,     \* the host handlers whose memory is allocated
    locks,    \* per lock: its holder
    todo,     \* per actor: the rest of its call
    got,      \* per actor: the register value read last
    typ,      \* AcpiGbl_SleepTypeA, ..B, ..AS0, ..BS0
    awake,    \* AcpiGbl_SystemAwakeAndRunning
    mode,     \* the mode the firmware was last told, and has entered
    asleep,   \* whether the machine was told to sleep
    asked,    \* the state of the sleep under way, or None, and its stage
    calls     \* calls begun

powerVars == <<pm, x, gpe, handler, host, live, locks, todo, got, typ, awake, mode,
               asleep, asked, calls>>

-----------------------------------------------------------------------------
(* The registers.                                                          *)

Reduced == x.reduced

WriteOnly == {"gbl_rls", "slp_en"}
Preserved == {"reserved"}     \* bits 3-9, 14 and 15 of the control register

\* AcpiHwReadMultiple: the two blocks are combined.
HwReadMultiple(reg) == UNION {pm[h][reg] : h \in Half}

\* AcpiHwRegisterRead.
HwRegisterRead(reg) ==
    IF reg = "control" THEN HwReadMultiple(reg) \ WriteOnly ELSE HwReadMultiple(reg)

\* A block stores the bits it implements; a one clears a status bit, and
\* SLP_EN and GBL_RLS are not kept.
Stored(h, reg, value) ==
    IF reg = "status" THEN pm[h].status \ value
    ELSE (value \cap Has[h]) \ WriteOnly

\* AcpiHwWriteMultiple.
HwWriteMultiple(reg, value) == [h \in Half |-> [pm[h] EXCEPT ![reg] = Stored(h, reg, value)]]

\* AcpiHwRegisterWrite.
HwRegisterWrite(reg, value) ==
    HwWriteMultiple(reg,
        CASE reg = "status" -> value \ {"reserved"}
          [] reg = "enable" -> value
          [] reg = "control" -> (value \ Preserved) \cup (HwReadMultiple(reg) \cap Preserved))

\* AcpiHwWritePm1Control, one block: the second has a value of its own.
HwWritePm1Control(h, value) == [pm EXCEPT ![h].control = Stored(h, "control", value)]

\* AcpiReadBitRegister.
ReadBitRegister(reg, bit) == bit \in HwRegisterRead(reg)

\* AcpiGetEventStatus.
GetEventStatus(e) ==
    [handler |-> e \in handler, enabled |-> ReadBitRegister("enable", e),
     pending |-> ReadBitRegister("status", e)]

\* AcpiHwGetMode.
HwGetMode ==
    IF Reduced \/ ReadBitRegister("control", "sci_en") THEN "acpi" ELSE "legacy"

-----------------------------------------------------------------------------
(* The steps of a call.                                                    *)

W(reg, bits, on) == [op |-> "write bits", reg |-> reg, bits |-> bits, on |-> on]
Do(op) == [op |-> op]
On(op, e) == [op |-> op, e |-> e]
Pm1(h, type, en) == [op |-> "write pm1", h |-> h, type |-> type, en |-> en]

Step(a, op) == todo[a] # <<>> /\ Head(todo[a]).op = op
Now(a) == Head(todo[a])
PowerDone(a) == todo' = [todo EXCEPT ![a] = Tail(@)]
Abandon(a) == todo' = [todo EXCEPT ![a] = <<>>]
Then(a, more) == todo' = [todo EXCEPT ![a] = more \o Tail(@)]

\* Mutant: the value is read before the lock is taken.
MayEnterAlways(lock, a) == TRUE

\* AcpiOsAcquireLock.
MayEnter(lock, a) == locks[lock] = None

\* AcpiWriteBitRegister, under the lock: status bits are cleared by writing
\* them, other registers are read ...
WriteBitRegister(a) ==
    /\ Step(a, "write bits") /\ got[a] = {None} /\ MayEnter("hardware", a)
    /\ IF Now(a).reg = "status"
       THEN /\ pm' = HwRegisterWrite("status", Now(a).bits)
            /\ PowerDone(a)
            /\ UNCHANGED <<locks, got>>
       ELSE /\ locks' = [locks EXCEPT !["hardware"] = a]
            /\ got' = [got EXCEPT ![a] = HwRegisterRead(Now(a).reg)]
            /\ UNCHANGED <<pm, todo>>
    /\ UNCHANGED <<x, gpe, handler, host, live, typ, awake, mode, asleep, asked, calls>>

\* ... and written back with the new bits, and the lock is released.
WriteBack(a) ==
    /\ Step(a, "write bits") /\ got[a] # {None}
    /\ pm' = HwRegisterWrite(Now(a).reg, IF Now(a).on THEN got[a] \cup Now(a).bits
                                         ELSE got[a] \ Now(a).bits)
    /\ locks' = [locks EXCEPT !["hardware"] = None]
    /\ got' = [got EXCEPT ![a] = {None}]
    /\ PowerDone(a)
    /\ UNCHANGED <<x, gpe, handler, host, live, typ, awake, mode, asleep, asked, calls>>

Enable(e) == W("enable", {e}, TRUE)
Disable(e) == W("enable", {e}, FALSE)
ClearStatus(bits) == W("status", bits, TRUE)

-----------------------------------------------------------------------------
(* The SCI.                                                                *)

\* A device raises a fixed event in the block that implements it.
Raise(e) ==
    /\ \E h \in Half :
          /\ e \in Has[h] /\ e \notin pm[h].status
          /\ pm' = [pm EXCEPT ![h].status = @ \cup {e}]
    /\ UNCHANGED <<x, gpe, handler, host, live, locks, todo, got, typ, awake, mode, asleep,
                   asked, calls>>

\* AcpiEvSciXruptHandler: the fixed events, then the host handlers.  The
\* GPEs in between are those of AcpiEvents.
SciXruptHandler ==
    /\ todo["sci"] = <<>> /\ ReadBitRegister("control", "sci_en") /\ ~Reduced
    /\ HwRegisterRead("status") \cap HwRegisterRead("enable") \cap Event # {}
    /\ todo' = [todo EXCEPT !["sci"] = <<Do("read status"), Do("detect"), Do("sci dispatch")>>]
    /\ UNCHANGED <<pm, x, gpe, handler, host, live, locks, got, typ, awake, mode, asleep,
                   asked, calls>>

\* AcpiEvFixedEventDetect reads the status register ...
FixedEventStatus ==
    /\ Step("sci", "read status")
    /\ got' = [got EXCEPT !["sci"] = HwRegisterRead("status")]
    /\ PowerDone("sci")
    /\ UNCHANGED <<pm, x, gpe, handler, host, live, locks, typ, awake, mode, asleep, asked, calls>>

\* What AcpiEvFixedEventDispatch does first about an event found.
Dispatch(e) == <<ClearStatus({e}), On("call", e)>>

RECURSIVE DispatchAll(_, _)
DispatchAll(found, i) ==
    IF i > Len(Events) THEN <<>>
    ELSE (IF Events[i] \in found THEN Dispatch(Events[i]) ELSE <<>>) \o DispatchAll(found, i + 1)

\* ... then the enable register, and dispatches every event set in both.
FixedEventDetect ==
    /\ Step("sci", "detect")
    /\ Then("sci", DispatchAll(got["sci"] \cap HwRegisterRead("enable"), 1))
    /\ got' = [got EXCEPT !["sci"] = {None}]
    /\ UNCHANGED <<pm, x, gpe, handler, host, live, locks, typ, awake, mode, asleep, asked, calls>>

\* An event without a handler is disabled.
Unhandled(e) == <<Disable(e)>>

\* AcpiEvFixedEventDispatch, its end: the handler runs.
FixedEventDispatch ==
    /\ Step("sci", "call")
    /\ LET e == Now("sci").e
       IN IF e \in handler THEN PowerDone("sci") ELSE Then("sci", Unhandled(e))
    /\ UNCHANGED <<pm, x, gpe, handler, host, live, locks, got, typ, awake, mode, asleep,
                   asked, calls>>

\* AcpiEvSciDispatch: the walk of the list begins, under AcpiGbl_GpeLock.
SciDispatch ==
    /\ Step("sci", "sci dispatch") /\ MayEnter("gpe", "sci")
    /\ locks' = [locks EXCEPT !["gpe"] = "sci"]
    /\ Then("sci", [i \in DOMAIN host |-> On("host", host[i])] \o <<Do("unlock")>>)
    /\ UNCHANGED <<pm, x, gpe, handler, host, live, got, typ, awake, mode, asleep, asked, calls>>

\* One host handler is called.
CallHost ==
    /\ Step("sci", "host")
    /\ PowerDone("sci")
    /\ UNCHANGED <<pm, x, gpe, handler, host, live, locks, got, typ, awake, mode, asleep,
                   asked, calls>>

SciDispatchEnd ==
    /\ Step("sci", "unlock")
    /\ locks' = [locks EXCEPT !["gpe"] = IF @ = "sci" THEN None ELSE @]
    /\ PowerDone("sci")
    /\ UNCHANGED <<pm, x, gpe, handler, host, live, got, typ, awake, mode, asleep, asked, calls>>

-----------------------------------------------------------------------------
(* Calls of the thread.                                                    *)

Begin(steps) ==
    /\ todo["thread"] = <<>> /\ asked.stage = "none" /\ calls < MaxCalls
    /\ calls' = calls + 1
    /\ todo' = [todo EXCEPT !["thread"] = steps]

Same == UNCHANGED <<pm, x, gpe, handler, host, live, locks, got, typ, awake, mode, asleep, asked>>

\* AcpiEnableEvent and AcpiDisableEvent: the register is read again, to see
\* whether the hardware took the bit.
EnableEvent(e) == <<Enable(e), On("check enabled", e)>>
DisableEvent(e) == <<Disable(e), On("check disabled", e)>>

\* The handlers of an event are changed while the SCI handler is not at it:
\* the call that AcpiEvFixedEventDispatch makes takes no lock.
NotDispatching(e) ==
    \A i \in DOMAIN todo["sci"] : todo["sci"][i] \notin
        {On("call", e), Disable(e), Do("read status"), Do("detect")}

\* AcpiInstallFixedEventHandler.
InstallFixedEventHandler(e) ==
    /\ e \notin handler /\ ~Reduced /\ NotDispatching(e)
    /\ Begin(EnableEvent(e))
    /\ handler' = handler \cup {e}
    /\ UNCHANGED <<pm, x, gpe, host, live, locks, got, typ, awake, mode, asleep, asked>>

\* The hardware has not taken the enable bit: the handler is taken back.
CheckEnabled ==
    /\ Step("thread", "check enabled")
    /\ handler' = IF ReadBitRegister("enable", Now("thread").e) THEN handler
                  ELSE handler \ {Now("thread").e}
    /\ PowerDone("thread")
    /\ UNCHANGED <<pm, x, gpe, host, live, locks, got, typ, awake, mode, asleep, asked, calls>>

\* AcpiRemoveFixedEventHandler: the event is disabled first, and the handler
\* goes whatever came of that.
RemoveFixedEventHandler(e) ==
    /\ e \in handler /\ ~Reduced
    /\ Begin(DisableEvent(e))
    /\ Same

CheckDisabled ==
    /\ Step("thread", "check disabled") /\ NotDispatching(Now("thread").e)
    /\ handler' = handler \ {Now("thread").e}
    /\ PowerDone("thread")
    /\ UNCHANGED <<pm, x, gpe, host, live, locks, got, typ, awake, mode, asleep, asked, calls>>

\* AcpiClearEvent.
ClearEvent(e) == ~Reduced /\ Begin(<<ClearStatus({e})>>) /\ Same

\* AcpiInstallSciHandler: at the head of the list, unless it is there.
InstallSciHandler(c) ==
    /\ MayEnter("gpe", "thread") /\ c \notin live
    /\ Begin(<<>>)
    /\ host' = <<c>> \o host
    /\ live' = live \cup {c}
    /\ UNCHANGED <<pm, x, gpe, handler, locks, got, typ, awake, mode, asleep, asked>>

\* AcpiRemoveSciHandler: unlinked under the lock, freed after it.
RemoveSciHandler(c) ==
    /\ MayEnter("gpe", "thread") /\ \E i \in DOMAIN host : host[i] = c
    /\ Begin(<<On("free", c)>>)
    /\ host' = SelectSeq(host, LAMBDA d : d # c)
    /\ UNCHANGED <<pm, x, gpe, handler, live, locks, got, typ, awake, mode, asleep, asked>>

Free ==
    /\ Step("thread", "free")
    /\ live' = live \ {Now("thread").e}
    /\ PowerDone("thread")
    /\ UNCHANGED <<pm, x, gpe, handler, host, locks, got, typ, awake, mode, asleep, asked, calls>>

\* AcpiEnable and AcpiDisable, AcpiHwSetMode: the firmware is asked, and the
\* mode polled until it changes or the attempts are used up.
SetMode(m) ==
    /\ HwGetMode # m /\ ~Reduced
    /\ Begin(<<On("smi", m)>> \o [i \in 1 .. MaxPolls |-> On("poll", m)])
    /\ Same

SmiCommand ==
    /\ Step("thread", "smi")
    /\ mode' = [mode EXCEPT !.told = Now("thread").e]
    /\ PowerDone("thread")
    /\ UNCHANGED <<pm, x, gpe, handler, host, live, locks, got, typ, awake, asleep, asked, calls>>

PollMode ==
    /\ Step("thread", "poll")
    /\ IF HwGetMode = Now("thread").e THEN Abandon("thread") ELSE PowerDone("thread")
    /\ UNCHANGED <<pm, x, gpe, handler, host, live, locks, got, typ, awake, mode, asleep,
                   asked, calls>>

\* The firmware obeys, in its own time.
Firmware ==
    /\ mode.told # mode.entered
    /\ mode' = [mode EXCEPT !.entered = mode.told]
    /\ pm' = [h \in Half |-> [pm[h] EXCEPT !.control =
                 IF mode.told = "acpi" THEN @ \cup ({"sci_en"} \cap Has[h]) ELSE @ \ {"sci_en"}]]
    /\ UNCHANGED <<x, gpe, handler, host, live, locks, todo, got, typ, awake, asleep, asked, calls>>

-----------------------------------------------------------------------------
(* Sleeping and waking.                                                    *)

\* AcpiGetSleepTypeData: the two types that \_Sx names.  An element is an
\* integer given by its two low bytes; the values are left alone on error.
GetSleepTypeData(s, a, b) ==
    LET o == Object[s]
    IN CASE o.kind = "one" -> [ok |-> TRUE, a |-> o.e1[1], b |-> o.e1[2]]
         [] o.kind = "two" -> [ok |-> TRUE, a |-> o.e1[1], b |-> o.e2[1]]
         [] OTHER -> [ok |-> FALSE, a |-> a, b |-> b]

\* AcpiEnterSleepStatePrep: the types of the state and of S0.
EnterSleepStatePrep(s) ==
    LET t == GetSleepTypeData(s, typ.a, typ.b)
        t0 == GetSleepTypeData(0, typ.a0, typ.b0)
    IN /\ Begin(<<>>)
       /\ typ' = IF t.ok THEN [a |-> t.a, b |-> t.b, a0 |-> IF t0.ok THEN t0.a ELSE INVALID,
                               b0 |-> t0.b]
                 ELSE typ
       /\ asked' = IF t.ok THEN [s |-> s, stage |-> "prepared", types |-> [a |-> t.a, b |-> t.b]]
                   ELSE asked
       /\ UNCHANGED <<pm, x, gpe, handler, host, live, locks, got, awake, mode, asleep>>

FixedStatus == Event \cup {"bm", "wak"}

\* Mutant: type and enable are written at once.
LegacySleepAtOnce(s) ==
    <<ClearStatus({"wak"}), Do("disable gpes"), Do("clear status"), Do("not awake"),
      Do("wake gpes"), Do("read control"),
      Pm1("a", typ.a, {"slp_en"}), Pm1("b", typ.b, {"slp_en"})>>
    \o (IF s > 3 THEN <<Do("retry")>> ELSE <<>>) \o <<Do("await wake")>>

\* AcpiHwLegacySleep: the types first, then the types with SLP_EN; a state
\* above S3 that has not been entered after ten seconds is tried again.
LegacySleep(s) ==
    <<ClearStatus({"wak"}), Do("disable gpes"), Do("clear status"), Do("not awake"),
      Do("wake gpes"), Do("read control"),
      Pm1("a", typ.a, {}), Pm1("b", typ.b, {}),
      Pm1("a", typ.a, {"slp_en"}), Pm1("b", typ.b, {"slp_en"})>>
    \o (IF s > 3 THEN <<Do("retry")>> ELSE <<>>) \o <<Do("await wake")>>

\* AcpiHwExtendedSleep.
ExtendedSleep(s) == <<Do("x clear"), Do("not awake"), Do("x sleep"), Do("x await wake")>>

\* AcpiEnterSleepStateS4bios.
SleepStateS4bios ==
    <<ClearStatus({"wak"}), Do("clear status"), Do("disable gpes"), Do("not awake"),
      Do("wake gpes"), Do("s4bios"), Do("await wake")>>

\* AcpiHwLegacyWakePrep: SLP_TYP is set back to that of S0.
LegacyWakePrep ==
    IF typ.a0 = INVALID THEN <<>>
    ELSE <<Do("read control"), Pm1("a", typ.a0, {}), Pm1("b", typ.b0, {})>>

\* AcpiHwExtendedWakePrep.
ExtendedWakePrep == IF typ.a0 = INVALID THEN <<>> ELSE <<Do("x s0")>>

Buttons == SelectSeq(Events, LAMBDA e : e \in {"power", "sleep"})

RECURSIVE ArmButtons(_)
ArmButtons(i) ==
    IF i > Len(Buttons) THEN <<>>
    ELSE <<Enable(Buttons[i]), ClearStatus({Buttons[i]})>> \o ArmButtons(i + 1)

\* AcpiHwLegacyWake: the run GPEs come back, and the buttons are armed.
LegacyWake ==
    <<Do("forget types"), Do("disable gpes"), Do("run gpes"), ClearStatus({"wak"}),
      Do("awake")>> \o ArmButtons(1)

\* AcpiHwExtendedWake.
ExtendedWake == <<Do("forget types"), Do("x clear"), Do("awake")>>

\* AcpiHwSleepDispatch.
SleepDispatch(legacy, extended) == IF Reduced THEN extended ELSE legacy

\* The next call of the thread in the course of a sleep.
Continue(stage, then, steps) ==
    /\ todo["thread"] = <<>> /\ asked.stage = stage
    /\ asked' = [asked EXCEPT !.stage = then]
    /\ todo' = [todo EXCEPT !["thread"] = steps]
    /\ UNCHANGED <<pm, x, gpe, handler, host, live, locks, got, typ, awake, mode, asleep, calls>>

\* AcpiEnterSleepState: refuses types out of range.
EnterSleepState ==
    IF INVALID \in {typ.a, typ.b} THEN Continue("prepared", "none", <<>>)
    ELSE Continue("prepared", "sleeping",
                  SleepDispatch(LegacySleep(asked.s), ExtendedSleep(asked.s)))

EnterSleepStateS4bios == ~Reduced /\ Continue("prepared", "sleeping", SleepStateS4bios)

\* AcpiLeaveSleepStatePrep and AcpiLeaveSleepState.
LeaveSleepStatePrep ==
    Continue("sleeping", "leaving", SleepDispatch(LegacyWakePrep, ExtendedWakePrep))
LeaveSleepState ==
    Continue("leaving", "none", SleepDispatch(LegacyWake, ExtendedWake))

\* AcpiHwDisableAllGpes, AcpiHwEnableAllWakeupGpes, AcpiHwEnableAllRuntimeGpes:
\* the last leaves a register with no GPE enabled for run as it is.
GpeStep ==
    /\ \/ Step("thread", "disable gpes") /\ gpe' = {}
       \/ Step("thread", "wake gpes") /\ gpe' = WakeGpe
       \/ /\ Step("thread", "run gpes")
          /\ gpe' = {g \in gpe : \A r \in RunGpe : RegisterOf[r] # RegisterOf[g]} \cup RunGpe
    /\ PowerDone("thread")
    /\ UNCHANGED <<pm, x, handler, host, live, locks, got, typ, awake, mode, asleep, asked, calls>>

\* AcpiHwClearAcpiStatus, under the lock.
HwClearAcpiStatus ==
    /\ Step("thread", "clear status") /\ MayEnter("hardware", "thread")
    /\ pm' = HwRegisterWrite("status", FixedStatus)
    /\ PowerDone("thread")
    /\ UNCHANGED <<x, gpe, handler, host, live, locks, got, typ, awake, mode, asleep, asked, calls>>

\* The assignments to globals.
Assign ==
    /\ \/ Step("thread", "not awake") /\ awake' = FALSE /\ UNCHANGED typ
       \/ Step("thread", "awake") /\ awake' = TRUE /\ UNCHANGED typ
       \/ Step("thread", "forget types") /\ typ' = [typ EXCEPT !.a = INVALID] /\ UNCHANGED awake
    /\ PowerDone("thread")
    /\ UNCHANGED <<pm, x, gpe, handler, host, live, locks, got, mode, asleep, asked, calls>>

\* The control register is read, without the lock, and its SLP fields cleared.
ReadControl ==
    /\ Step("thread", "read control")
    /\ got' = [got EXCEPT !["thread"] = HwRegisterRead("control") \ (Types \cup {"slp_en"})]
    /\ PowerDone("thread")
    /\ UNCHANGED <<pm, x, gpe, handler, host, live, locks, typ, awake, mode, asleep, asked, calls>>

\* One of the writes of AcpiHwWritePm1Control; the second block is skipped
\* where there is none.  SLP_EN sends the machine to sleep.
WritePm1 ==
    /\ Step("thread", "write pm1")
    /\ LET s == Now("thread")
       IN /\ pm' = IF s.h \in Half
                   THEN HwWritePm1Control(s.h, got["thread"] \cup s.type \cup s.en) ELSE pm
          /\ asleep' = (asleep \/ (s.h \in Half /\ s.en # {}))
    /\ got' = [got EXCEPT !["thread"] =
                 IF Len(todo["thread"]) > 1 /\ todo["thread"][2].op = "write pm1" THEN @ ELSE {None}]
    /\ PowerDone("thread")
    /\ UNCHANGED <<x, gpe, handler, host, live, locks, typ, awake, mode, asked, calls>>

\* The second attempt to reach S4 or S5: SLP_EN alone, through
\* AcpiHwRegisterWrite.
RetrySleep ==
    /\ Step("thread", "retry")
    /\ pm' = HwRegisterWrite("control", {"slp_en"})
    /\ asleep' = TRUE
    /\ PowerDone("thread")
    /\ UNCHANGED <<x, gpe, handler, host, live, locks, got, typ, awake, mode, asked, calls>>

\* The SMI command that asks the firmware for S4.
S4biosRequest ==
    /\ Step("thread", "s4bios")
    /\ asleep' = TRUE
    /\ PowerDone("thread")
    /\ UNCHANGED <<pm, x, gpe, handler, host, live, locks, got, typ, awake, mode, asked, calls>>

\* The sleep registers of reduced hardware.
XStep ==
    /\ \/ Step("thread", "x clear") /\ x' = [x EXCEPT !.wake = FALSE] /\ UNCHANGED asleep
       \/ Step("thread", "x sleep") /\ x' = [x EXCEPT !.control = typ.a] /\ asleep' = TRUE
       \/ Step("thread", "x s0") /\ x' = [x EXCEPT !.control = typ.a0] /\ UNCHANGED asleep
    /\ PowerDone("thread")
    /\ UNCHANGED <<pm, gpe, handler, host, live, locks, got, typ, awake, mode, asked, calls>>

\* The loops that wait for the wake status.
AwaitWake ==
    /\ \/ Step("thread", "await wake") /\ ReadBitRegister("status", "wak")
       \/ Step("thread", "x await wake") /\ x.wake
    /\ PowerDone("thread")
    /\ UNCHANGED <<pm, x, gpe, handler, host, live, locks, got, typ, awake, mode, asleep,
                   asked, calls>>

\* Something wakes the machine.
Wake ==
    /\ asleep
    /\ asleep' = FALSE
    /\ x' = [x EXCEPT !.wake = Reduced]
    /\ pm' = [h \in Half |-> [pm[h] EXCEPT !.status = @ \cup (IF Reduced THEN {} ELSE {"wak"} \cap Has[h])]]
    /\ UNCHANGED <<gpe, handler, host, live, locks, todo, got, typ, awake, mode, asked, calls>>

-----------------------------------------------------------------------------

\* AcpiEvFixedEventInitialize has left every event disabled and without a
\* handler; AcpiEvInstallXruptHandlers has then installed the one of the
\* global lock, where the machine has that.  The wake status is pending.
PowerInit ==
    /\ handler \in {{}, {"global"}}
    /\ pm = [h \in Half |-> [status |-> {"wak"} \cap Has[h], enable |-> handler \cap Has[h],
                             control |-> {"sci_en", "reserved"} \cap Has[h]]]
    /\ x \in [reduced : BOOLEAN, control : {{}}, wake : {FALSE}]
    /\ gpe = RunGpe
    /\ host = <<>> /\ live = {}
    /\ locks = [l \in {"hardware", "gpe"} |-> None]
    /\ todo = [a \in Actor |-> <<>>]
    /\ got = [a \in Actor |-> {None}]
    /\ typ = [a |-> {}, b |-> {}, a0 |-> {}, b0 |-> {}]
    /\ awake = TRUE
    /\ mode = [told |-> "acpi", entered |-> "acpi"]
    /\ asleep = FALSE
    /\ asked = [s |-> 0, stage |-> "none", types |-> [a |-> {}, b |-> {}]]
    /\ calls = 0

SciNext ==
    \/ SciXruptHandler \/ FixedEventStatus \/ FixedEventDetect \/ FixedEventDispatch
    \/ SciDispatch \/ CallHost \/ SciDispatchEnd
    \/ WriteBitRegister("sci") \/ WriteBack("sci")

ThreadStep ==
    \/ WriteBitRegister("thread") \/ WriteBack("thread")
    \/ CheckEnabled \/ CheckDisabled \/ Free \/ SmiCommand \/ PollMode
    \/ EnterSleepState \/ EnterSleepStateS4bios \/ LeaveSleepStatePrep \/ LeaveSleepState
    \/ GpeStep \/ HwClearAcpiStatus \/ Assign \/ ReadControl \/ WritePm1 \/ RetrySleep
    \/ S4biosRequest \/ XStep \/ AwaitWake

Call ==
    \/ \E e \in Event : InstallFixedEventHandler(e) \/ RemoveFixedEventHandler(e) \/ ClearEvent(e)
    \/ \E c \in HostHandler : InstallSciHandler(c) \/ RemoveSciHandler(c)
    \/ \E m \in {"acpi", "legacy"} : SetMode(m)
    \/ \E s \in SleepState : EnterSleepStatePrep(s)

PowerNext ==
    \/ SciNext \/ ThreadStep \/ Call
    \/ \E e \in Event : Raise(e)
    \/ Firmware \/ Wake
=============================================================================
