--------------------------------- MODULE Irp --------------------------------
(***************************************************************************)
(* Requests to a device, from the thread that issues one                   *)
(* (io/driver.rs: io_request_sync) through the driver that queues it to    *)
(* its completion or cancellation (sched/scheduler.rs: io_complete,        *)
(* cancel_irp), while the device is stopped, started and removed.  The     *)
(* driver is the keyboard driver, drivers/i8042; tty and input queue their *)
(* reads in the same way.                                                  *)
(*                                                                         *)
(* A step is what runs under one lock, or between two.  request_lock makes *)
(* the admission of a request one step.  An IRP is allocated once, so that *)
(* a use of it after it was freed is visible.  A step that would use a     *)
(* freed IRP or the freed context of the driver (ctx), or would fail an    *)
(* assertion, is not taken: the properties hold up to such a step, and the *)
(* states before it are reachable.  The store that io_complete makes to    *)
(* is_completed after deallocate_irp is left out.                          *)
(***************************************************************************)
EXTENDS AutoEvent, FiniteSets, TLC

CONSTANTS
    IoThread,    \* user threads that read from the device
    IrpId,       \* IRPs, one for each request
    Dw,          \* the core that runs the driver workers (keyboard_dw)
    Pnp,         \* the PnP worker, and the IRP it sends to the driver
    Killer,      \* a thread that kills the readers
    NoIrp,
    MaxPending,  \* MAX_PENDING
    MaxKeys,     \* bound: key strokes
    MaxStops     \* bound: times the device is stopped

Actor == IoThread \cup {Dw, Pnp, Killer}

\* The workers and the killer are not readers, and names are not shared.
ASSUME IrpAssumption ==
    /\ Dw \notin IoThread /\ Pnp \notin IoThread /\ Killer \notin IoThread
    /\ Dw # Pnp /\ Dw # Killer /\ Pnp # Killer
    /\ Pnp \notin IrpId /\ NoIrp \notin IrpId
    /\ MaxPending \in Nat

VARIABLES
    devState,    \* state of the device
    devPending,  \* pending_irps of the device
    drained,     \* pending_irps_drained_event
    stops,       \* times the device was stopped
    irp,         \* the IRPs, see NewIrp
    issued,      \* issued_irps of a thread
    req,         \* the request a thread is waiting for in io_request_sync
    dying,       \* pending_kill
    queue,       \* ctx.pending of the driver
    keys,        \* key strokes in ks_ring
    scan,        \* key strokes in sc_pending
    pressed,     \* keys pressed so far
    works,       \* calls of keyboard_dw that are queued
    refs,        \* references of remove_lock
    removing,    \* REMOVING bit of remove_lock
    ctx,         \* the context of the driver: "live" or "freed"
    intr,        \* keyboard_isr is installed
    step,        \* where an actor is
    cur,         \* the IRP it is completing or cancelling
    todo,        \* IRPs it has taken out of a list to work on
    call         \* its call of io_complete: status, is_cancelled, and where
                 \* to go on

devVars  == <<devState, devPending, drained, stops>>
kbdVars  == <<keys, scan, pressed, works, refs, removing, ctx, intr>>
reqVars  == <<irp, issued, req, dying>>
actVars  == <<step, cur, todo, call>>
irpVars  == <<devVars, kbdVars, reqVars, actVars, queue>>

NoCall == [status |-> "Pending", skip |-> FALSE, ret |-> "idle"]

\* Irp::new: mem tells whether the memory is allocated, done is the event of
\* the request, lock the holder of cancel_lock.
NewIrp(t) == [mem |-> "live", owner |-> t, cancelled |-> FALSE, routine |-> FALSE,
              completed |-> FALSE, done |-> FALSE, lock |-> NoIrp]

Unused == [NewIrp(NoIrp) EXCEPT !.mem = "unused"]

\* A device that was started and has no request yet.
IrpInit ==
    /\ devState = "Started" /\ devPending = {} /\ drained = NewEvent /\ stops = 0
    /\ irp = [i \in IrpId |-> Unused]
    /\ issued = [t \in IoThread |-> {}]
    /\ req = [t \in IoThread |-> NoIrp]
    /\ dying = [t \in IoThread |-> FALSE]
    /\ queue = << >> /\ keys = 0 /\ scan = 0 /\ pressed = 0
    /\ works = 0 /\ refs = 0 /\ removing = FALSE /\ ctx = "live" /\ intr = TRUE
    /\ step = [a \in Actor |-> "idle"]
    /\ cur = [a \in Actor |-> NoIrp]
    /\ todo = [a \in Actor |-> {}]
    /\ call = [a \in Actor |-> NoCall]

Allocated(i) == irp[i].mem = "live"

Unlocked(i) == irp[i].lock = NoIrp

\* What is left of an IRP that is freed: its event, which the thread shares.
Freed(i) == [Unused EXCEPT !.mem = "freed", !.done = irp[i].done]

StepTo(a, where) == step' = [step EXCEPT ![a] = where]

Elems(q) == {q[k] : k \in DOMAIN q}

-----------------------------------------------------------------------------
(* Completion.                                                              *)

\* io_complete_irp: actor a completes IRP i and goes on at ret.
Complete(a, i, status, ret) ==
    /\ StepTo(a, "enter")
    /\ cur' = [cur EXCEPT ![a] = i]
    /\ call' = [call EXCEPT ![a] = [status |-> status, skip |-> FALSE, ret |-> ret]]

\* io_complete up to release_irp_tracking: the assertion, and is_cancelled
\* read without cancel_lock.
Enter(a) ==
    /\ step[a] = "enter"
    /\ Allocated(cur[a]) /\ ~irp[cur[a]].completed
    /\ call' = [call EXCEPT ![a].skip = irp[cur[a]].cancelled]
    /\ StepTo(a, "release")
    /\ UNCHANGED <<devVars, kbdVars, reqVars, queue, cur, todo>>

\* release_irp_tracking of IRP i: the second time it finds device cleared.
ReleaseTracking(i) ==
    /\ issued' = [issued EXCEPT ![irp[i].owner] = @ \ {i}]
    /\ devPending' = devPending \ {i}
    /\ drained' = IF devPending = {i} THEN Signal(drained) ELSE drained

Release(a) ==
    /\ step[a] = "release" /\ Allocated(cur[a])
    /\ ReleaseTracking(cur[a])
    /\ StepTo(a, "finish")
    /\ UNCHANGED <<devState, stops, kbdVars, irp, req, dying, queue, cur, todo, call>>

\* The rest of io_complete: the result is handed over unless the request was
\* cancelled, the event is signalled, and deallocate_irp frees the IRP unless
\* the status is Cancelled.
Finish(a) ==
    /\ step[a] = "finish" /\ Allocated(cur[a])
    /\ irp' = [irp EXCEPT ![cur[a]] = IF call[a].status = "Cancelled"
                                      THEN [@ EXCEPT !.done = TRUE, !.completed = TRUE]
                                      ELSE [Freed(cur[a]) EXCEPT !.done = TRUE]]
    /\ StepTo(a, call[a].ret)
    /\ cur' = [cur EXCEPT ![a] = IF call[a].ret = "unlock" THEN @ ELSE NoIrp]
    /\ call' = [call EXCEPT ![a] = NoCall]
    /\ UNCHANGED <<devVars, kbdVars, issued, req, dying, queue, todo>>

-----------------------------------------------------------------------------
(* io_request_sync and dispatch_read.                                       *)

\* allowed_in_state: the state of the device that each request needs.
AllowedIn == [Read |-> "Started", Start |-> "Stopped", Stop |-> "Stopping",
              Remove |-> "Removing"]

\* allocate_irp, which refuses a thread that is dying: the IRP is listed with
\* the device and with the thread.
AllocateIrp(t, i) ==
    /\ ~dying[t] /\ irp[i].mem = "unused"
    /\ irp' = [irp EXCEPT ![i] = NewIrp(t)]
    /\ devPending' = devPending \cup {i}
    /\ issued' = [issued EXCEPT ![t] = @ \cup {i}]

\* io_request_sync up to dispatch: admission under request_lock.
Request(t, i) ==
    /\ step[t] = "idle"
    /\ devState = AllowedIn.Read
    /\ AllocateIrp(t, i)
    /\ req' = [req EXCEPT ![t] = i]
    /\ StepTo(t, "dispatch")
    /\ UNCHANGED <<devState, drained, stops, kbdVars, dying, queue, cur, todo, call>>

\* dispatch_read up to the end of the locked section: a key stroke is there,
\* or the request is queued.
DispatchRead(t) ==
    /\ step[t] = "dispatch"
    /\ \/ /\ keys > 0
          /\ keys' = keys - 1
          /\ Complete(t, req[t], "Success", "return")
          /\ UNCHANGED queue
       \/ /\ keys = 0 /\ Len(queue) < MaxPending
          /\ queue' = Append(queue, req[t])
          /\ StepTo(t, "setcancel")
          /\ UNCHANGED <<keys, cur, call>>
    /\ UNCHANGED <<devVars, reqVars, scan, pressed, works, refs, removing, ctx, intr, todo>>

\* A buffer of a size the driver does not accept, or a list that is full.
DispatchRefused(t) ==
    /\ step[t] = "dispatch"
    /\ Complete(t, req[t], "Failed", "return")
    /\ UNCHANGED <<devVars, kbdVars, reqVars, queue, todo>>

\* io_set_cancel_routine, of a request that is on the list already.
SetCancelRoutine(t) ==
    /\ step[t] = "setcancel" /\ Allocated(req[t]) /\ Unlocked(req[t])
    /\ IF irp[req[t]].cancelled
       THEN StepTo(t, "undo") /\ UNCHANGED irp
       ELSE StepTo(t, "wait") /\ irp' = [irp EXCEPT ![req[t]].routine = TRUE]
    /\ UNCHANGED <<devVars, kbdVars, issued, req, dying, queue, cur, todo, call>>

\* remove_pending: the last entry takes the place of the one that leaves.
Unqueue(i) ==
    queue' = IF i \in Elems(queue)
             THEN LET k == CHOOSE n \in DOMAIN queue : queue[n] = i IN
                  SubSeq([queue EXCEPT ![k] = queue[Len(queue)]], 1, Len(queue) - 1)
             ELSE queue

\* Cancelled before the routine was set: dispatch_read takes the request back.
UndoQueue(t) ==
    /\ step[t] = "undo" /\ ctx = "live"
    /\ Unqueue(req[t])
    /\ Complete(t, req[t], "Cancelled", "return")
    /\ UNCHANGED <<devVars, kbdVars, reqVars, todo>>

\* The request is over: not pending, or the event was signalled.
ReturnToCaller(t) ==
    /\ step[t] = "return" \/ (step[t] = "wait" /\ irp[req[t]].done)
    /\ req' = [req EXCEPT ![t] = NoIrp]
    /\ StepTo(t, "idle")
    /\ UNCHANGED <<devVars, kbdVars, irp, issued, dying, queue, cur, todo, call>>

\* event.wait fails: a signal, or the thread is dying.  cancel_pending_irp
\* takes a snapshot of the requests of the thread.
Interrupted(t) ==
    /\ step[t] = "wait"
    /\ todo' = [todo EXCEPT ![t] =
                  IF devState \in {"Removing", "Removed"} THEN {}
                  ELSE {i \in IrpId \cap devPending : irp[i].owner = t}]
    /\ StepTo(t, "cancel")
    /\ UNCHANGED <<devVars, kbdVars, reqVars, queue, cur, call>>

-----------------------------------------------------------------------------
(* Cancellation: by the thread itself, or by safe_kill_thread.              *)

\* safe_kill_thread and kill_sweep_irps: the thread is marked and its list
\* taken.  That its wait is interrupted then is Interrupted.
Kill(t) ==
    /\ step[Killer] = "idle" /\ ~dying[t]
    /\ dying' = [dying EXCEPT ![t] = TRUE]
    /\ issued' = [issued EXCEPT ![t] = {}]
    /\ todo' = [todo EXCEPT ![Killer] =
                  IF devState \in {"Removing", "Removed"} THEN {} ELSE issued[t]]
    /\ StepTo(Killer, "cancel")
    /\ UNCHANGED <<devVars, kbdVars, irp, req, queue, cur, call>>

\* cancel_irp: without a cancel routine the IRP is only marked.  Otherwise
\* the routine is called with cancel_lock held.
CancelIrp(a, i) ==
    /\ step[a] = "cancel" /\ i \in todo[a] /\ Allocated(i) /\ Unlocked(i)
    /\ todo' = [todo EXCEPT ![a] = @ \ {i}]
    /\ IF ~irp[i].routine \/ irp[i].cancelled
       THEN /\ irp' = [irp EXCEPT ![i].cancelled = TRUE]
            /\ UNCHANGED <<step, cur>>
       ELSE /\ irp' = [irp EXCEPT ![i].cancelled = TRUE, ![i].lock = a]
            /\ cur' = [cur EXCEPT ![a] = i]
            /\ StepTo(a, "routine")
    /\ UNCHANGED <<devVars, kbdVars, issued, req, dying, queue, call>>

\* i8042_cancel
CancelRoutine(a) ==
    /\ step[a] = "routine" /\ ctx = "live"
    /\ Unqueue(cur[a])
    /\ Complete(a, cur[a], "Cancelled", "unlock")
    /\ UNCHANGED <<devVars, kbdVars, reqVars, todo>>

\* cancel_irp releases cancel_lock, which is in the IRP.
CancelUnlock(a) ==
    /\ step[a] = "unlock" /\ Allocated(cur[a])
    /\ irp' = [irp EXCEPT ![cur[a]].lock = NoIrp]
    /\ StepTo(a, "cancel")
    /\ cur' = [cur EXCEPT ![a] = NoIrp]
    /\ UNCHANGED <<devVars, kbdVars, issued, req, dying, queue, todo, call>>

\* Everything is cancelled: the thread returns the error to its caller.
CancelDone(a) ==
    /\ step[a] = "cancel" /\ todo[a] = {}
    /\ req' = [t \in IoThread |-> IF t = a THEN NoIrp ELSE req[t]]
    /\ StepTo(a, "idle")
    /\ UNCHANGED <<devVars, kbdVars, irp, issued, dying, queue, cur, todo, call>>

-----------------------------------------------------------------------------
(* Interrupts.                                                              *)

\* keyboard_isr: the key stroke is stored and a worker is queued, with a
\* reference to the context; queueing it may fail.
KeyboardIsr(queued) ==
    /\ intr /\ ~removing /\ pressed < MaxKeys
    /\ pressed' = pressed + 1
    /\ scan' = scan + 1
    /\ IF queued THEN works' = works + 1 /\ refs' = refs + 1
                 ELSE UNCHANGED <<works, refs>>
    /\ UNCHANGED <<devVars, reqVars, actVars, queue, keys, removing, ctx, intr>>

\* keyboard_dw under the lock: every key stroke goes to the oldest request.
DwCollect ==
    /\ step[Dw] = "idle" /\ works > 0
    /\ works' = works - 1
    /\ LET avail == keys + scan
           n == IF avail < Len(queue) THEN avail ELSE Len(queue) IN
       /\ todo' = [todo EXCEPT ![Dw] = {queue[k] : k \in 1 .. n}]
       /\ queue' = SubSeq(queue, n + 1, Len(queue))
       /\ keys' = avail - n
    /\ scan' = 0
    /\ StepTo(Dw, "start")
    /\ UNCHANGED <<devVars, reqVars, pressed, refs, removing, ctx, intr, cur, call>>

\* io_start_processing: a cancelled IRP is deallocated, any other one loses
\* its cancel routine and is completed.
DwStart(i) ==
    /\ step[Dw] = "start" /\ i \in todo[Dw] /\ Unlocked(i)
    /\ todo' = [todo EXCEPT ![Dw] = @ \ {i}]
    /\ IF irp[i].cancelled
       THEN /\ ReleaseTracking(i)
            /\ irp' = [irp EXCEPT ![i] = Freed(i)]
            /\ UNCHANGED <<step, cur, call>>
       ELSE /\ irp' = [irp EXCEPT ![i].routine = FALSE]
            /\ Complete(Dw, i, "Success", "start")
            /\ UNCHANGED <<issued, devPending, drained>>
    /\ UNCHANGED <<devState, stops, kbdVars, req, dying, queue>>

\* keyboard_dw gives its reference back, and may be the one to free ctx.
DwEnd ==
    /\ step[Dw] = "start" /\ todo[Dw] = {}
    /\ refs' = refs - 1
    /\ ctx' = IF removing /\ refs = 1 THEN "freed" ELSE ctx
    /\ StepTo(Dw, "idle")
    /\ UNCHANGED <<devVars, reqVars, queue, keys, scan, pressed, works, removing, intr,
                   cur, todo, call>>

-----------------------------------------------------------------------------
(* stop_self, do_start and remove_device of the PnP worker.  The IRP it     *)
(* sends to the driver stands on pending_irps as Pnp.                       *)

\* quiesce_requests, and the admission of the Stop request.
StopSelf ==
    /\ step[Pnp] = "idle" /\ devState = "Started" /\ stops < MaxStops
    /\ devState' = "Stopping" /\ stops' = stops + 1
    /\ devPending' = devPending \cup {Pnp}
    /\ StepTo(Pnp, "stop")
    /\ UNCHANGED <<drained, kbdVars, reqVars, queue, cur, todo, call>>

\* Mutant: the list is emptied and nobody is told.
DoStopForgets ==
    /\ step[Pnp] = "stop" /\ devState = AllowedIn.Stop
    /\ intr' = FALSE
    /\ UNCHANGED todo
    /\ queue' = << >>
    /\ StepTo(Pnp, "fail")
    /\ UNCHANGED <<devVars, reqVars, keys, scan, pressed, works, refs, removing, ctx, cur, call>>

\* do_stop of the driver: no more interrupts, and the queue is emptied.
DoStop ==
    /\ step[Pnp] = "stop" /\ devState = AllowedIn.Stop
    /\ intr' = FALSE
    /\ todo' = [todo EXCEPT ![Pnp] = Elems(queue)]
    /\ queue' = << >>
    /\ StepTo(Pnp, "fail")
    /\ UNCHANGED <<devVars, reqVars, keys, scan, pressed, works, refs, removing, ctx, cur, call>>

\* do_stop fails the requests that it found, without io_start_processing.
DoStopFail(i) ==
    /\ step[Pnp] = "fail" /\ i \in todo[Pnp]
    /\ todo' = [todo EXCEPT ![Pnp] = @ \ {i}]
    /\ Complete(Pnp, i, "Failed", "fail")
    /\ UNCHANGED <<devVars, kbdVars, reqVars, queue>>

\* The Stop request is complete, and the device is stopped.
StopDone ==
    /\ step[Pnp] = "fail" /\ todo[Pnp] = {}
    /\ devPending' = devPending \ {Pnp}
    /\ drained' = IF devPending = {Pnp} THEN Signal(drained) ELSE drained
    /\ devState' = "Stopped"
    /\ StepTo(Pnp, "drain")
    /\ UNCHANGED <<stops, kbdVars, reqVars, queue, cur, todo, call>>

\* wait_pending_irps_drained: look, and wait.
DrainLook ==
    /\ step[Pnp] = "drain" \/ (step[Pnp] = "slept" /\ Pnp \notin Asleep(drained))
    /\ StepTo(Pnp, IF devPending = {} THEN "idle" ELSE "drainwait")
    /\ UNCHANGED <<devVars, kbdVars, reqVars, queue, cur, todo, call>>

DrainWait ==
    /\ step[Pnp] = "drainwait"
    /\ drained' = Wait(drained, Pnp)
    /\ StepTo(Pnp, IF drained.signalled THEN "drain" ELSE "slept")
    /\ UNCHANGED <<devState, devPending, stops, kbdVars, reqVars, queue, cur, todo, call>>

\* do_start of the driver: empty buffers, and interrupts.
KeyboardStart ==
    /\ keys' = 0 /\ scan' = 0 /\ queue' = << >>
    /\ intr' = TRUE

\* do_start of the device.  The Start request is the last one to leave
\* pending_irps.
DoStart ==
    /\ step[Pnp] = "idle" /\ devState = AllowedIn.Start
    /\ KeyboardStart
    /\ drained' = IF devPending = {} THEN Signal(drained) ELSE drained
    /\ devState' = "Started"
    /\ UNCHANGED <<devPending, stops, reqVars, actVars, pressed, works, refs, removing, ctx>>

\* remove_device of a device that is stopped.
RemoveDevice ==
    /\ step[Pnp] = "idle" /\ devState = "Stopped"
    /\ devState' = "Removing"
    /\ StepTo(Pnp, "remove")
    /\ UNCHANGED <<devPending, drained, stops, kbdVars, reqVars, queue, cur, todo, call>>

\* do_remove of the driver frees the context unless a worker has a reference.
DoRemove ==
    /\ step[Pnp] = "remove" /\ devState = AllowedIn.Remove
    /\ removing' = TRUE
    /\ ctx' = IF refs = 0 THEN "freed" ELSE ctx
    /\ drained' = IF devPending = {} THEN Signal(drained) ELSE drained
    /\ devState' = "Removed"
    /\ StepTo(Pnp, "idle")
    /\ UNCHANGED <<devPending, stops, reqVars, cur, todo, call, queue, keys, scan, pressed,
                   works, refs, intr>>

-----------------------------------------------------------------------------
ThreadStep(t) ==
    \/ \E i \in IrpId : Request(t, i)
    \/ DispatchRead(t) \/ DispatchRefused(t)
    \/ SetCancelRoutine(t) \/ UndoQueue(t)
    \/ ReturnToCaller(t) \/ Interrupted(t)
    \/ Kill(t)

CancelStep(a) ==
    \/ \E i \in IrpId : CancelIrp(a, i)
    \/ CancelRoutine(a) \/ CancelUnlock(a) \/ CancelDone(a)

KeyboardStep ==
    \/ \E queued \in BOOLEAN : KeyboardIsr(queued)
    \/ DwCollect \/ DwEnd
    \/ \E i \in IrpId : DwStart(i)

PnpStep ==
    \/ StopSelf \/ DoStop \/ StopDone \/ DrainLook \/ DrainWait
    \/ \E i \in IrpId : DoStopFail(i)
    \/ DoStart \/ RemoveDevice \/ DoRemove

IrpNext ==
    \/ \E t \in IoThread : ThreadStep(t)
    \/ \E a \in IoThread \cup {Killer} : CancelStep(a)
    \/ \E a \in Actor : Enter(a) \/ Release(a) \/ Finish(a)
    \/ KeyboardStep
    \/ PnpStep

IrpSpec == IrpInit /\ [][IrpNext]_irpVars

-----------------------------------------------------------------------------
Completing == {"enter", "release", "finish"}

PcValues == {"idle", "dispatch", "setcancel", "undo", "wait", "return", "cancel", "routine",
             "unlock", "start", "stop", "fail", "drain", "drainwait", "slept", "remove"}
            \cup Completing

IrpTypeOK ==
    /\ devState \in {"Stopped", "Started", "Stopping", "Removing", "Removed"}
    /\ devPending \subseteq IrpId \cup {Pnp}
    /\ EventOK(drained, {a \in {Pnp} : step[a] = "slept"})
    /\ Len(queue) <= MaxPending /\ Elems(queue) \subseteq IrpId
    /\ refs = works + (IF step[Dw] = "idle" THEN 0 ELSE 1)
    /\ step \in [Actor -> PcValues]
    /\ cur \in [Actor -> IrpId \cup {NoIrp}]
    /\ todo \in [Actor -> SUBSET IrpId]

\* A request that a driver finds on its list, or has taken from it to serve
\* or to fail it, is still allocated (keyboard_dw writes to its buffer).
QueuedIsLive ==
    \A i \in Elems(queue) \cup todo[Dw] \cup todo[Pnp] : Allocated(i)

\* Whoever is about to free an IRP is alone: of the driver's list, the
\* worker, do_stop and the calls of io_complete that deallocate, only one has
\* it at a time.
OneServer ==
    LET InQueue(i) == i \in Elems(queue)
        Frees(a, i) == step[a] \in Completing /\ cur[a] = i /\ call[a].status # "Cancelled"
        Has(a, i) == (a \in {Dw, Pnp} /\ i \in todo[a]) \/ Frees(a, i)
    IN  \A i \in IrpId : \A a \in Actor :
            Has(a, i) => /\ ~InQueue(i)
                         /\ \A b \in Actor \ {a} : ~Has(b, i)

\* A thread that waits and is not signalled yet has not been forgotten: its
\* request is on the list, or somebody has it in hand.
RequestInHand ==
    \A t \in IoThread :
        step[t] = "wait" /\ ~irp[req[t]].done =>
            \/ req[t] \in Elems(queue) \cup todo[Dw] \cup todo[Pnp]
            \/ \E a \in Actor : cur[a] = req[t]

\* stop_self returns only when no request is left, so that no thread enters
\* dispatch_read with one while the device is stopped or removed.
StoppedIsDrained ==
    step[Pnp] = "idle" /\ devState \in {"Stopped", "Removed"} =>
        /\ devPending = {}
        /\ \A t \in IoThread : step[t] # "dispatch"

\* Actor a is in code of the driver that uses the context: it enters
\* dispatch_read, or goes back to the list to take a request off that the
\* device still counts (after io_set_cancel_routine failed, or in
\* i8042_cancel).
UsesContext(a) ==
    \/ step[a] = "dispatch"
    \/ step[a] = "undo" /\ req[a] \in devPending
    \/ step[a] = "routine" /\ cur[a] \in devPending

\* The context of the driver outlives the workers that are queued or run and
\* the threads that use it for a request on pending_irps.  Nothing is said of
\* a thread whose request somebody else completed meanwhile: do_stop may have
\* failed it, stop_self then does not wait for the thread, and do_remove
\* frees the context that it locks next.
ContextIsLive ==
    (works > 0 \/ step[Dw] # "idle" \/ \E a \in IoThread \cup {Killer} : UsesContext(a))
        => ctx = "live"

(* Requests to the keyboard driver: one that is queued or being served is  *)
(* allocated, one party at a time may free it, a reader that waits is not  *)
(* forgotten, a device that was stopped has no request left, and the       *)
(* context of the driver outlives its workers and those who use it for a   *)
(* request the device counts, while io_complete, cancels, keyboard_dw and  *)
(* do_stop race (io/driver.rs, drivers/i8042).                             *)
RequestsSound ==
    /\ IrpTypeOK /\ QueuedIsLive /\ OneServer /\ RequestInHand /\ StoppedIsDrained /\ ContextIsLive

\* io_complete: assert!(!(*irp).is_completed).  An IRP is completed once.
CompletedOnce ==
    \A a \in Actor : step[a] = "enter" => ~irp[cur[a]].completed

-----------------------------------------------------------------------------
(* Instances of Irp for TLC. *)

IrpSymm == Permutations(IoThread) \cup Permutations(IrpId)

\* A bound: a key stroke and a stop of the device come in one behaviour only
\* while one of the threads neither reads nor is being killed.
FewAtOnce == pressed' + stops' <= 1 \/ \E t \in IoThread : step'[t] = "idle" /\ ~dying'[t]
=============================================================================
