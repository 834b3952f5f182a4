------------------------------- MODULE FsStop -------------------------------
(***************************************************************************)
(* Stopping the file system: FsOpGuard around every operation, and stop_fs *)
(* at shutdown.  Loads, stores and the two atomic counter updates are      *)
(* steps of their own.                                                     *)
(***************************************************************************)
EXTENDS Integers, AutoEvent

CONSTANTS
    FsThread,   \* threads that use the file system
    Stopper,    \* the thread that shuts down
    MaxFsOps    \* bound: operations begun

VARIABLES
    stopFs,     \* STOP_FS
    opCount,    \* FS_OP_COUNT
    stopEvent,  \* FS_STOP_EVENT, auto-reset
    opAt,       \* where each thread is in its operation
    stopAt,     \* where stop_fs is
    fsOps       \* operations begun so far

fsVars == <<stopFs, opCount, stopEvent, opAt, stopAt, fsOps>>

FsInit ==
    /\ stopFs = FALSE /\ opCount = 0 /\ stopEvent = NewEvent
    /\ opAt = [t \in FsThread |-> "out"]
    /\ stopAt = "running" /\ fsOps = 0

\* FsOpGuard::enter: the count first ...
OpEnter(t) ==
    /\ opAt[t] = "out" /\ fsOps < MaxFsOps
    /\ opCount' = opCount + 1
    /\ opAt' = [opAt EXCEPT ![t] = "counted"]
    /\ fsOps' = fsOps + 1
    /\ UNCHANGED <<stopFs, stopEvent, stopAt>>

\* Mutant: a refused operation returns without leaving.
OpAdmitStays(t) ==
    /\ opAt[t] = "counted"
    /\ opAt' = [opAt EXCEPT ![t] = IF stopFs THEN "out" ELSE "in"]
    /\ UNCHANGED <<stopFs, opCount, stopEvent, stopAt, fsOps>>

\* ... then the flag: refused operations leave at once.
OpAdmit(t) ==
    /\ opAt[t] = "counted"
    /\ opAt' = [opAt EXCEPT ![t] = IF stopFs THEN "leaving" ELSE "in"]
    /\ UNCHANGED <<stopFs, opCount, stopEvent, stopAt, fsOps>>

\* The operation is over and its guard is dropped.
OpEnd(t) ==
    /\ opAt[t] = "in"
    /\ opAt' = [opAt EXCEPT ![t] = "leaving"]
    /\ UNCHANGED <<stopFs, opCount, stopEvent, stopAt, fsOps>>

\* FsOpGuard::leave: the one that takes the count to zero has to signal.
OpLeave(t) ==
    /\ opAt[t] = "leaving"
    /\ opCount' = opCount - 1
    /\ opAt' = [opAt EXCEPT ![t] = IF opCount = 1 THEN "signalling" ELSE "out"]
    /\ UNCHANGED <<stopFs, stopEvent, stopAt, fsOps>>

OpSignal(t) ==
    /\ opAt[t] = "signalling"
    /\ stopEvent' = Signal(stopEvent)
    /\ opAt' = [opAt EXCEPT ![t] = "out"]
    /\ UNCHANGED <<stopFs, opCount, stopAt, fsOps>>

\* stop_fs: set the flag, ...
StopStore ==
    /\ stopAt = "running"
    /\ stopFs' = TRUE /\ stopAt' = "stored"
    /\ UNCHANGED <<opCount, stopEvent, opAt, fsOps>>

\* ... look at the count, ...
StopLoad ==
    /\ stopAt = "stored"
    /\ stopAt' = IF opCount = 0 THEN "returned" ELSE "loaded"
    /\ UNCHANGED <<stopFs, opCount, stopEvent, opAt, fsOps>>

\* ... and wait once for the event.
StopWait ==
    /\ stopAt = "loaded"
    /\ stopEvent' = Wait(stopEvent, Stopper)
    /\ stopAt' = "waiting"
    /\ UNCHANGED <<stopFs, opCount, opAt, fsOps>>

StopWake ==
    /\ stopAt = "waiting" /\ Stopper \notin Asleep(stopEvent)
    /\ stopAt' = "returned"
    /\ UNCHANGED <<stopFs, opCount, stopEvent, opAt, fsOps>>

FsOpStep(t) == OpAdmit(t) \/ OpEnd(t) \/ OpLeave(t) \/ OpSignal(t)
FsStopStep == StopLoad \/ StopWait \/ StopWake

FsNext == (\E t \in FsThread : OpEnter(t) \/ FsOpStep(t)) \/ StopStore \/ FsStopStep
=============================================================================
