----------------------------- MODULE AcpiExec -----------------------------
(***************************************************************************)
(* Concurrent execution of control methods in the ACPICA interpreter:      *)
(* the interpreter and namespace locks (exutils.c, utmutex.c), entry and   *)
(* exit of methods (dsmethod.c, psparse.c, psxface.c), AML mutexes and the *)
(* global lock (exmutex.c, evglock.c, exsystem.c), and the namespace nodes *)
(* and owner identifiers a method creates (nsalloc.c, utownerid.c).        *)
(*                                                                         *)
(* A thread holds the interpreter lock while it runs AML.  Everything up   *)
(* to the next place that drops the lock is one step: a wait that has to   *)
(* block, Sleep, a field access through a region handler, the report of a  *)
(* failed method, and the deletions at the end of a method.  AML itself is *)
(* abstracted to the operations it may perform, in any order.              *)
(*                                                                         *)
(* OS mutexes are binary semaphores of the OS layer: `sem` is their count. *)
(***************************************************************************)
EXTENDS Naturals, Sequences, FiniteSets, FiniteSetsExt

CONSTANTS
  Thread,          \* kernel threads that evaluate control methods
  Method,          \* control methods
  Mutex,           \* AML mutexes, the global lock (of sync level 0) included
  GL,              \* AcpiGbl_GlobalLockMutex
  OwnerId,         \* owner identifiers of the allocator (AcpiTables)
  None,            \* no thread, no method, no identifier
  Level,           \* sync level of each mutex and of each method
  Declared,        \* methods declared Serialized
  Creator,         \* methods with opcodes that create names
  AutoSerialize,   \* AcpiGbl_AutoSerializeMethods
  Body,            \* what the AML of each method does: "call", "error", "sleep",
                   \* "field", and the mutexes it acquires and releases
  Name,            \* names a method may create
  MethodLimit,     \* largest ThreadCount (ACPI_UINT8_MAX in the build)
  MaxNesting       \* bound: walk states on one thread

VARIABLES
  interp,      \* owner of ACPI_MTX_INTERPRETER and ACPI_MTX_NAMESPACE
  th,          \* per thread: place, walk states, sync level, mutex list
  mx,          \* AML mutex objects
  md,          \* method objects and their mutexes
  ids,         \* owner identifiers in use
  nodes,       \* namespace nodes created by methods
  glAcquired,  \* AcpiGbl_GlobalLockAcquired
  unbalanced   \* history: AML left or released a mutex out of its nesting

vars == <<interp, th, mx, md, ids, nodes, glAcquired, unbalanced>>

NoFrame == [m |-> None, oid |-> None, base |-> 0]
IdleThread == [pc |-> "idle", cont |-> "idle", stack |-> <<>>, cur |-> NoFrame,
               want |-> None, timed |-> FALSE, st |-> "OK", sync |-> 0,
               held |-> <<>>]

\* AcpiDsAutoSerializeMethod, run for every method when its table is loaded:
\* a method that creates names becomes serialized and ignores sync levels.
AutoSerialized(m) == AutoSerialize /\ m \in Creator \ Declared

\* ser: SERIALIZED; ign: IGNORE_SYNC_LEVEL; pend: SERIALIZED_PENDING;
\* mod: MODIFIED_NAMESPACE; has: the method mutex exists.
MethodInit(m) ==
  [cnt |-> 0, oid |-> None, ser |-> m \in Declared \/ AutoSerialized(m),
   ign |-> AutoSerialized(m), pend |-> FALSE, mod |-> FALSE,
   lvl |-> IF AutoSerialized(m) THEN 0 ELSE Level[m],
   has |-> FALSE, sem |-> 1, tid |-> None, depth |-> 0, orig |-> 0]

Init ==
  /\ interp = None
  /\ th = [t \in Thread |-> IdleThread]
  /\ mx = [x \in Mutex |-> [sem |-> 1, tid |-> None, depth |-> 0, orig |-> 0,
                            owner |-> None]]
  /\ md = [m \in Method |-> MethodInit(m)]
  /\ ids = {}
  /\ nodes = {}
  /\ glAcquired = FALSE
  /\ unbalanced = FALSE

-----------------------------------------------------------------------------
\* The interpreter lock.

At(t, p) == th[t].pc = p

\* AcpiExEnterInterpreter takes the interpreter mutex and then the namespace
\* mutex.  The only holder of the namespace mutex alone is a deletion, one step
\* here, so the two are taken together.
EnterInterpreter(t) ==
  /\ At(t, "enter") /\ interp = None
  /\ interp' = t
  /\ th' = [th EXCEPT ![t].pc = th[t].cont, ![t].cont = "idle"]
  /\ UNCHANGED <<mx, md, ids, nodes, glAcquired, unbalanced>>

\* AcpiExExitInterpreter.
ExitInterpreter == interp' = None
StayInside == UNCHANGED interp

\* The thread left the interpreter and enters it again to continue at c.
Reenter(r, c) == [r EXCEPT !.pc = "enter", !.cont = c]

\* AcpiOsReleaseMutex: the binary semaphore clamps at one unit.
SemRelease(n) == IF n < 1 THEN n + 1 ELSE 1

\* AcpiNsEvaluate: a kernel thread evaluates a control method.
Evaluate(t, m) ==
  /\ At(t, "idle")
  /\ th' = [th EXCEPT ![t] = Reenter([IdleThread EXCEPT !.want = m], "begin")]
  /\ UNCHANGED <<interp, mx, md, ids, nodes, glAcquired, unbalanced>>

-----------------------------------------------------------------------------
\* Entry of a method.

\* A failure inside a method unwinds it; one at the outermost call returns.
FailBegin(t) ==
  IF th[t].stack = <<>>
  THEN /\ th' = [th EXCEPT ![t] = IdleThread]
       /\ ExitInterpreter
  ELSE /\ th' = [th EXCEPT ![t].st = "ERROR", ![t].pc = "abort", ![t].want = None]
       /\ StayInside

\* The tail of AcpiDsBeginMethodExecution, once the mutex is taken (`took`) or
\* not needed, and the set-up of the walk state by the two callers.  Without
\* a free owner identifier the OS mutex is signalled and nothing else undone.
FinishBegin(t, took) ==
  LET r    == th[t]
      m    == r.want
      top  == r.stack = <<>>
      d0   == IF took
              THEN [md[m] EXCEPT !.has = TRUE, !.sem = 0, !.tid = t,
                                 !.orig = IF top THEN md[m].lvl ELSE r.sync]
              ELSE md[m]
      d1   == IF d0.ser THEN [d0 EXCEPT !.depth = @ + 1] ELSE d0
      sync == IF top \/ (took /\ ~d0.ign) THEN d0.lvl ELSE r.sync
      new  == IF d1.oid = None THEN OwnerId \ ids ELSE {d1.oid}
  IN IF new = {}
     THEN /\ md' = [md EXCEPT ![m] =
                      IF d1.has THEN [d1 EXCEPT !.sem = SemRelease(@)] ELSE d1]
          /\ UNCHANGED ids
          /\ IF top
             THEN th' = [th EXCEPT ![t] = IdleThread] /\ ExitInterpreter
             ELSE /\ th' = [th EXCEPT ![t] = [r EXCEPT !.st = "ERROR",
                              !.pc = "abort", !.want = None, !.sync = sync]]
                  /\ StayInside
     ELSE \E id \in new :
            /\ ids' = ids \cup {id}
            /\ md' = [md EXCEPT ![m] = [d1 EXCEPT !.oid = id, !.cnt = @ + 1]]
            /\ th' = [th EXCEPT ![t] =
                        [r EXCEPT !.pc = "run", !.want = None, !.sync = sync,
                                  !.stack = Append(@, [m |-> m, oid |-> id,
                                                       base |-> Len(r.held)])]]
            /\ StayInside

\* The method's own sync level bars the call (not for the outermost one).
OrderRefused(t) ==
  LET d == md[th[t].want]
  IN d.ser /\ th[t].stack # <<>> /\ ~d.ign /\ th[t].sync > d.lvl

\* The caller has to wait for the method mutex unless it owns it already.
MustTake(t) ==
  LET d == md[th[t].want]
  IN d.ser /\ (th[t].stack = <<>> \/ d.tid # t)

\* AcpiDsBeginMethodExecution up to the wait for the method mutex, called by
\* AcpiPsExecuteMethod and AcpiDsCallControlMethod.
BeginMethod(t) ==
  /\ At(t, "begin")
  /\ LET m == th[t].want
         d == md[m]
     IN \/ /\ d.cnt = MethodLimit
           /\ FailBegin(t)
           /\ UNCHANGED <<md, ids>>
        \/ /\ d.cnt < MethodLimit /\ OrderRefused(t)
           /\ FailBegin(t)
           /\ md' = [md EXCEPT ![m].has = TRUE]
           /\ UNCHANGED ids
        \/ /\ d.cnt < MethodLimit /\ ~OrderRefused(t)
           /\ MustTake(t) => d.sem = 1
           /\ FinishBegin(t, MustTake(t))
        \/ /\ d.cnt < MethodLimit /\ ~OrderRefused(t)
           /\ MustTake(t) /\ d.sem = 0
           /\ th' = [th EXCEPT ![t].pc = "waitm"]
           /\ ExitInterpreter
           /\ UNCHANGED <<md, ids>>
  /\ UNCHANGED <<mx, nodes, glAcquired, unbalanced>>

\* AcpiExSystemWaitMutex: the unit is taken outside the interpreter lock.
MethodMutexTaken(t) ==
  /\ At(t, "waitm") /\ md[th[t].want].sem = 1
  /\ md' = [md EXCEPT ![th[t].want].sem = 0]
  /\ th' = [th EXCEPT ![t] = Reenter(@, "begun")]
  /\ UNCHANGED <<interp, mx, ids, nodes, glAcquired, unbalanced>>

BegunMethod(t) ==
  /\ At(t, "begun")
  /\ FinishBegin(t, TRUE)
  /\ UNCHANGED <<mx, nodes, glAcquired, unbalanced>>

-----------------------------------------------------------------------------
\* What running AML may do.

Top(t) == th[t].stack[Len(th[t].stack)]

\* Thread t is about to execute an operation of kind b.
Running(t, b) == At(t, "run") /\ b \in Body[Top(t).m]
NoNames == UNCHANGED <<md, ids, nodes>>

\* AcpiPsParseAml, AE_CTRL_TRANSFER: the AML calls another method.
Call(t, m) ==
  /\ Running(t, "call") /\ Len(th[t].stack) < MaxNesting
  /\ th' = [th EXCEPT ![t].pc = "begin", ![t].want = m]
  /\ StayInside /\ NoNames /\ UNCHANGED <<mx, glAcquired, unbalanced>>

\* The AML fails in some operation of no other interest here.
RaiseError(t) ==
  /\ Running(t, "error")
  /\ th' = [th EXCEPT ![t].st = "ERROR", ![t].pc = "abort"]
  /\ StayInside /\ NoNames /\ UNCHANGED <<mx, glAcquired, unbalanced>>

\* AcpiExSystemDoSleep.
Sleep(t) ==
  /\ Running(t, "sleep")
  /\ th' = [th EXCEPT ![t] = Reenter(@, "run")]
  /\ ExitInterpreter /\ NoNames /\ UNCHANGED <<mx, glAcquired, unbalanced>>

\* AcpiNsInstallNode for a name created by the running method, below the method
\* node or elsewhere; an existing name fails with AE_ALREADY_EXISTS.
CreateName(t, n, below) ==
  /\ At(t, "run")
  /\ LET f     == Top(t)
         scope == IF below THEN f.m ELSE None
     IN /\ f.m \in Creator
        /\ IF \E nd \in nodes : nd.name = n /\ nd.scope = scope
           THEN /\ th' = [th EXCEPT ![t].st = "EXISTS", ![t].pc = "abort"]
                /\ UNCHANGED <<md, nodes>>
           ELSE /\ nodes' = nodes \cup {[name |-> n, scope |-> scope, oid |-> f.oid]}
                /\ md' = IF below THEN md ELSE [md EXCEPT ![f.m].mod = TRUE]
                /\ UNCHANGED th
  /\ StayInside /\ UNCHANGED <<mx, ids, glAcquired, unbalanced>>

-----------------------------------------------------------------------------
\* AML mutexes and the global lock.

\* AcpiEvAcquireGlobalLock and AcpiEvReleaseGlobalLock, beyond the OS mutex of the
\* global lock object.  ACPI_ACQUIRE_GLOBAL_LOCK always succeeds in this build.
EvAcquireGlobalLock(x) == glAcquired' = (glAcquired \/ x = GL)
EvReleaseGlobalLock(s) == glAcquired' = (glAcquired /\ GL \notin s)

\* AcpiExAcquireMutexObject, after the OS mutex is taken, and for the AML
\* operator (`aml`) the bookkeeping and AcpiExLinkMutex of AcpiExAcquireMutex.
TakeMutex(t, x, aml) ==
  /\ mx' = [mx EXCEPT ![x] = [sem |-> 0, tid |-> t, depth |-> 1,
                              orig |-> IF aml THEN th[t].sync ELSE 0,
                              owner |-> IF aml THEN t ELSE None]]
  /\ EvAcquireGlobalLock(x)

\* AcpiExLinkMutex and the new sync level of the thread.
Linked(r, x) == [r EXCEPT !.sync = Level[x], !.held = <<x>> \o @, !.want = None,
                          !.pc = "run"]

\* AcpiExAcquireMutex.
Acquire(t, x, timed) ==
  /\ Running(t, x)
  /\ \/ /\ th[t].sync > Level[x]
        /\ th' = [th EXCEPT ![t].st = "ERROR", ![t].pc = "abort"]
        /\ StayInside /\ UNCHANGED <<mx, glAcquired>>
     \/ /\ th[t].sync <= Level[x] /\ mx[x].tid = t
        /\ mx[x].depth < MaxNesting
        /\ mx' = [mx EXCEPT ![x].depth = @ + 1]
        /\ StayInside /\ UNCHANGED <<th, glAcquired>>
     \/ /\ th[t].sync <= Level[x] /\ mx[x].tid # t /\ mx[x].sem = 1
        /\ TakeMutex(t, x, TRUE)
        /\ th' = [th EXCEPT ![t] = Linked(@, x)]
        /\ StayInside
     \/ /\ th[t].sync <= Level[x] /\ mx[x].tid # t /\ mx[x].sem = 0
        /\ th' = [th EXCEPT ![t].pc = "waitx", ![t].want = x, ![t].timed = timed]
        /\ ExitInterpreter /\ UNCHANGED <<mx, glAcquired>>
  /\ NoNames /\ UNCHANGED unbalanced

\* AcpiExSystemWaitMutex for an AML mutex ("waitx") or for the global lock of a
\* field ("waitf").
MutexTaken(t) ==
  /\ At(t, "waitx") \/ At(t, "waitf")
  /\ mx[th[t].want].sem = 1
  /\ mx' = [mx EXCEPT ![th[t].want].sem = 0]
  /\ th' = [th EXCEPT ![t] = Reenter(@, IF At(t, "waitx") THEN "taken" ELSE "field")]
  /\ UNCHANGED <<interp, glAcquired, unbalanced>> /\ NoNames

\* The timeout of an Acquire is a result of the operator, not an error.
AcquireTimeout(t) ==
  /\ At(t, "waitx") /\ th[t].timed
  /\ th' = [th EXCEPT ![t] = [Reenter(@, "run") EXCEPT !.want = None,
                                                        !.timed = FALSE]]
  /\ UNCHANGED <<interp, mx, glAcquired, unbalanced>> /\ NoNames

Acquired(t) ==
  /\ At(t, "taken")
  /\ TakeMutex(t, th[t].want, TRUE)
  /\ th' = [th EXCEPT ![t] = [Linked(@, th[t].want) EXCEPT !.timed = FALSE]]
  /\ StayInside /\ NoNames /\ UNCHANGED unbalanced

\* AcpiExUnlinkMutex: x leaves its owner's list (most recent first); the one
\* acquired after it inherits its original sync level.
IndexIn(h, x) == CHOOSE i \in 1 .. Len(h) : h[i] = x
Unlink(m, x) ==
  LET h == th[m[x].owner].held
      i == IndexIn(h, x)
  IN IF m[x].owner # None /\ i > 1 THEN [m EXCEPT ![h[i - 1]].orig = m[x].orig] ELSE m

\* AcpiExReleaseMutexObject: the last release unlinks the object from its owner
\* and signals the OS mutex.
DropMutex(x) ==
  /\ mx' = IF mx[x].depth > 1 THEN [mx EXCEPT ![x].depth = @ - 1]
           ELSE [Unlink(mx, x) EXCEPT ![x] =
                   [@ EXCEPT !.depth = 0, !.owner = None, !.tid = None,
                             !.sem = SemRelease(@)]]
  /\ EvReleaseGlobalLock(IF mx[x].depth = 1 THEN {x} ELSE {})

\* The owner's list without x, when this release is the last one.
ListWithout(x) ==
  LET o == mx[x].owner
  IN IF mx[x].depth = 1 /\ o # None
     THEN [th EXCEPT ![o].held = SelectSeq(@, LAMBDA y : y # x)]
     ELSE th

\* AcpiExReleaseMutex: only the owner may release, except the global lock, and
\* only the mutex at the owner's current sync level, which then drops to the one
\* before the most recent acquisition.
Release(t, x) ==
  /\ Running(t, x)
  /\ LET o   == mx[x].owner
         bad == o = None \/ (o # t /\ x # GL) \/ (o # None /\ Level[x] # th[o].sync)
     IN IF bad
        THEN /\ th' = [th EXCEPT ![t].st = "ERROR", ![t].pc = "abort"]
             /\ UNCHANGED <<mx, glAcquired, unbalanced>>
        ELSE /\ DropMutex(x)
             /\ th' = IF mx[x].depth = 1
                      THEN [ListWithout(x) EXCEPT ![o].sync = mx[th[o].held[1]].orig]
                      ELSE th
             /\ unbalanced' =
                  (unbalanced \/ o # t \/ Head(th[o].held) # x
                     \/ Len(th[o].held) <= Top(t).base)
  /\ StayInside /\ NoNames

\* A locked field is read or written: AcpiExAcquireGlobalLock without any sync
\* level check, the region handler with the interpreter released, and then
\* AcpiExReleaseGlobalLock.
FieldAccess(t) ==
  /\ Running(t, "field")
  /\ \/ /\ mx[GL].tid = t
        /\ mx' = [mx EXCEPT ![GL].depth = @ + 1]
        /\ th' = [th EXCEPT ![t] = Reenter(@, "fieldend")]
        /\ UNCHANGED glAcquired
     \/ /\ mx[GL].tid # t /\ mx[GL].sem = 1
        /\ TakeMutex(t, GL, FALSE)
        /\ th' = [th EXCEPT ![t] = Reenter(@, "fieldend")]
     \/ /\ mx[GL].tid # t /\ mx[GL].sem = 0
        /\ th' = [th EXCEPT ![t].pc = "waitf", ![t].want = GL]
        /\ UNCHANGED <<mx, glAcquired>>
  /\ ExitInterpreter /\ NoNames /\ UNCHANGED unbalanced

FieldLocked(t) ==
  /\ At(t, "field")
  /\ TakeMutex(t, GL, FALSE)
  /\ th' = [th EXCEPT ![t] = [Reenter(@, "fieldend") EXCEPT !.want = None]]
  /\ ExitInterpreter /\ NoNames /\ UNCHANGED unbalanced

FieldEnd(t) ==
  /\ At(t, "fieldend")
  /\ IF mx[GL].depth = 0 THEN UNCHANGED <<mx, glAcquired>> ELSE DropMutex(GL)
  /\ th' = [ListWithout(GL) EXCEPT ![t].pc = "run"]
  /\ StayInside /\ NoNames /\ UNCHANGED unbalanced

-----------------------------------------------------------------------------
\* Exit of a method.

\* The walk state is popped and its method terminated next.
Popped(r) == [r EXCEPT !.cur = r.stack[Len(r.stack)], !.pc = "term",
                       !.stack = SubSeq(@, 1, Len(@) - 1)]

\* AcpiPsParseAml, AE_CTRL_TERMINATE: the method returns.
Return(t) ==
  /\ At(t, "run")
  /\ th' = [th EXCEPT ![t] = Popped(@)]
  /\ unbalanced' = (unbalanced \/ Len(th[t].held) # Top(t).base)
  /\ StayInside /\ NoNames /\ UNCHANGED <<mx, glAcquired>>

\* AcpiPsParseAml on a failed method: the message is printed outside the
\* interpreter lock ...
ReportAbort(t) ==
  /\ At(t, "abort")
  /\ th' = [th EXCEPT ![t] = Reenter(@, "aborted")]
  /\ ExitInterpreter /\ NoNames /\ UNCHANGED <<mx, glAcquired, unbalanced>>

\* ... and a name that existed already makes the method serialized later on.
Aborted(t) ==
  /\ At(t, "aborted")
  /\ md' = [md EXCEPT ![Top(t).m].pend =
              @ \/ (th[t].st = "EXISTS" /\ ~md[Top(t).m].ser)]
  /\ th' = [th EXCEPT ![t] = Popped(@)]
  /\ unbalanced' = (unbalanced \/ Len(th[t].held) # Top(t).base)
  /\ StayInside /\ UNCHANGED <<mx, ids, nodes, glAcquired>>

\* Mutant: a thread that ends keeps its mutexes.
ReleaseAllMutexesNone(held) == UNCHANGED <<mx, glAcquired>>

\* AcpiExReleaseAllMutexes on the mutexes of the thread's list.
ReleaseAllMutexes(held) ==
  /\ mx' = [x \in Mutex |->
              IF x \in held
              THEN [mx[x] EXCEPT !.depth = 0, !.owner = None, !.tid = None,
                                 !.sem = SemRelease(@)]
              ELSE mx[x]]
  /\ EvReleaseGlobalLock(held)

\* The end of AcpiDsTerminateControlMethod (`mod`: is MODIFIED_NAMESPACE still
\* set), and of AcpiPsParseAml: the caller resumes or is aborted in turn, and the
\* outermost method releases every mutex the thread still holds.
FinishTerminate(t, mod) ==
  LET r    == th[t]
      m    == r.cur.m
      d0   == [md[m] EXCEPT !.mod = mod]
      last == d0.has /\ d0.depth = 1
      d1   == IF ~d0.has THEN d0
              ELSE IF last THEN [d0 EXCEPT !.depth = 0, !.sem = SemRelease(@),
                                           !.tid = None]
              ELSE [d0 EXCEPT !.depth = @ - 1]
      d2   == [d1 EXCEPT !.cnt = @ - 1]
      d3   == IF d2.cnt > 0 THEN d2
              ELSE [d2 EXCEPT !.oid = None, !.pend = FALSE, !.ser = @ \/ d2.pend,
                              !.ign = @ \/ d2.pend,
                              !.lvl = IF d2.pend THEN 0 ELSE @]
      sync == IF last THEN d0.orig ELSE r.sync
  IN /\ md' = [md EXCEPT ![m] = d3]
     /\ ids' = IF d2.cnt > 0 THEN ids ELSE ids \ {d2.oid}
     /\ IF r.stack = <<>>
        THEN /\ th' = [th EXCEPT ![t] = IdleThread]
             /\ ReleaseAllMutexes({r.held[i] : i \in 1 .. Len(r.held)})
             /\ ExitInterpreter
        ELSE /\ th' = [th EXCEPT ![t] =
                         [r EXCEPT !.cur = NoFrame, !.sync = sync,
                                   !.pc = IF r.st = "OK" THEN "run" ELSE "abort"]]
             /\ StayInside /\ UNCHANGED <<mx, glAcquired>>

\* AcpiDsTerminateControlMethod: the last thread in the method deletes what the
\* method created, with the interpreter released.
Terminate(t) ==
  /\ At(t, "term")
  /\ IF md[th[t].cur.m].cnt = 1
     THEN /\ th' = [th EXCEPT ![t].pc = "delsub"]
          /\ ExitInterpreter /\ NoNames /\ UNCHANGED <<mx, glAcquired>>
     ELSE FinishTerminate(t, md[th[t].cur.m].mod) /\ UNCHANGED nodes
  /\ UNCHANGED unbalanced

\* AcpiNsDeleteNamespaceSubtree: everything below the method node.
DeleteSubtree(t) ==
  /\ At(t, "delsub") /\ interp = None
  /\ nodes' = {nd \in nodes : nd.scope # th[t].cur.m}
  /\ th' = [th EXCEPT ![t] = Reenter(@, "subtree")]
  /\ UNCHANGED <<interp, mx, md, ids, glAcquired, unbalanced>>

SubtreeDeleted(t) ==
  /\ At(t, "subtree")
  /\ IF md[th[t].cur.m].mod
     THEN /\ th' = [th EXCEPT ![t].pc = "delown"]
          /\ ExitInterpreter /\ NoNames /\ UNCHANGED <<mx, glAcquired>>
     ELSE FinishTerminate(t, FALSE) /\ UNCHANGED nodes
  /\ UNCHANGED unbalanced

\* AcpiNsDeleteNamespaceByOwner: what it created elsewhere.
DeleteByOwner(t) ==
  /\ At(t, "delown") /\ interp = None
  /\ nodes' = {nd \in nodes : nd.oid # md[th[t].cur.m].oid}
  /\ th' = [th EXCEPT ![t] = Reenter(@, "owned")]
  /\ UNCHANGED <<interp, mx, md, ids, glAcquired, unbalanced>>

OwnedDeleted(t) ==
  /\ At(t, "owned")
  /\ FinishTerminate(t, FALSE)
  /\ UNCHANGED <<nodes, unbalanced>>

ThreadStep(t) ==
  \/ \E m \in Method : Evaluate(t, m) \/ Call(t, m)
  \/ EnterInterpreter(t)
  \/ BeginMethod(t) \/ MethodMutexTaken(t) \/ BegunMethod(t)
  \/ RaiseError(t) \/ Sleep(t)
  \/ \E n \in Name, below \in BOOLEAN : CreateName(t, n, below)
  \/ \E x \in Mutex, timed \in BOOLEAN : Acquire(t, x, timed)
  \/ MutexTaken(t) \/ AcquireTimeout(t) \/ Acquired(t)
  \/ \E x \in Mutex : Release(t, x)
  \/ FieldAccess(t) \/ FieldLocked(t) \/ FieldEnd(t)
  \/ Return(t) \/ ReportAbort(t) \/ Aborted(t)
  \/ Terminate(t) \/ DeleteSubtree(t) \/ SubtreeDeleted(t)
  \/ DeleteByOwner(t) \/ OwnedDeleted(t)

Next == \E t \in Thread : ThreadStep(t)
Spec == Init /\ [][Next]_vars

-----------------------------------------------------------------------------
\* The methods thread t is inside, the one it is terminating included.
Inside(t, m) ==
  \/ \E i \in 1 .. Len(th[t].stack) : th[t].stack[i].m = m
  \/ th[t].cur.m = m

\* A serialized method is executed by at most one thread at a time, from the
\* moment its mutex is taken until the thread's last frame of it is finished,
\* although the interpreter lock is dropped in between.
SerializedAlone ==
  \A m \in Method : md[m].ser =>
    \A t, u \in Thread : Inside(t, m) /\ Inside(u, m) => t = u

\* Once no thread evaluates anything, nothing is left behind on any path,
\* error paths included: mutexes are free, counts zero, identifiers returned,
\* dynamically created names gone.
NothingLeaks ==
  (\A t \in Thread : At(t, "idle")) =>
    /\ \A m \in Method : md[m].cnt = 0 /\ md[m].oid = None /\ md[m].sem = 1
                         /\ md[m].tid = None /\ md[m].depth = 0
    /\ \A x \in Mutex : mx[x].sem = 1 /\ mx[x].tid = None /\ mx[x].depth = 0
    /\ ids = {} /\ nodes = {} /\ ~glAcquired

\* Every name a method created belongs to an execution still in progress: no
\* name outlives its identifier, which a later method may be given.
NoOrphanNodes ==
  \A nd \in nodes : \E m \in Method : md[m].cnt > 0 /\ md[m].oid = nd.oid

\* What a thread waits for without a timeout, and who holds it.  Waits that the
\* sync level orders are those of the Acquire operator and of calls of methods
\* declared Serialized.
WaitsOrdered(t, u, l) ==
  \/ /\ At(t, "waitx") /\ ~th[t].timed /\ mx[th[t].want].tid = u
     /\ mx[th[t].want].owner = u
     /\ l = Level[th[t].want]
  \/ /\ At(t, "waitm") /\ ~md[th[t].want].ign /\ md[th[t].want].tid = u
     /\ l = md[th[t].want].lvl

\* Two threads never wait for each other through mutexes and serialized methods
\* of different sync levels, as long as the AML releases what it acquires in
\* nested order: this is what the sync level checks are for.
OrderedWaitsAcyclic ==
  ~unbalanced =>
    \A t, u \in Thread : \A i, j \in {Level[x] : x \in DOMAIN Level} :
      t # u /\ WaitsOrdered(t, u, i) /\ WaitsOrdered(u, t, j) => i = j
=============================================================================
