------------------------------ MODULE Pthread ------------------------------
(***************************************************************************)
(* Mutexes and condition variables of the C library, built from kernel     *)
(* semaphores (userspace/libc/pthread.c).                                  *)
(*                                                                         *)
(* One mutex and one condition variable, statically initialised, so that   *)
(* the first calls race to create the semaphores behind them.  A step ends *)
(* at each access to a shared word and at each system call on a shared     *)
(* semaphore; a section under waiters_lock is one step, taken when the     *)
(* lock is free, because every access to waiters is under that lock.       *)
(* A thread that waits is about to call sys_wait: one that is blocked in   *)
(* the kernel is handed a unit as it is posted, which is the post followed *)
(* at once by its wake-up.  The kernel hands out the lowest free handle    *)
(* number, so a handle closed too early may name another semaphore.        *)
(***************************************************************************)
EXTENDS Integers, FiniteSets, FiniteSetsExt

CONSTANTS PThread,       \* threads of one process
          Racers,        \* those that run while the objects are not yet initialised
          MaxCondCalls,  \* bound: condition variable calls of each thread
          MaxHandles     \* handles the process may have open

ASSUME PthreadAssumption == IsFiniteSet(PThread) /\ MaxHandles \in Nat

NoFd == 0

VARIABLES mutex,  \* pthread_mutex_t: [fd, init]
          cond,   \* pthread_cond_t: [sem, wlock, waiters, init]
          sema,   \* the open semaphores: handle -> [units, binary]; one that is not
                  \* binary may have 0x7FFFFFFF units, more than are ever posted
          at,     \* where each thread is
          locals,  \* its locals; held: it owns the mutex
          used,   \* condition variable calls made
          unposted  \* units that broadcasts under way have still to post

pthreadVars == <<mutex, cond, sema, at, locals, used, unposted>>

NoLocals == [cand |-> NoFd, cand2 |-> NoFd, call |-> "lock", timed |-> FALSE, count |-> 0,
            held |-> FALSE]

\* PTHREAD_MUTEX_INITIALIZER and PTHREAD_COND_INITIALIZER, with only the racers running
StaticInit ==
  /\ mutex = [fd |-> NoFd, init |-> FALSE]
  /\ cond = [sem |-> NoFd, wlock |-> NoFd, waiters |-> 0, init |-> FALSE]
  /\ sema = <<>>
  /\ at = [t \in PThread |-> IF t \in Racers THEN "idle" ELSE "absent"]

\* pthread_mutex_init and pthread_cond_init have returned
DynamicInit ==
  /\ mutex = [fd |-> 1, init |-> TRUE]
  /\ cond = [sem |-> 2, wlock |-> 3, waiters |-> 0, init |-> TRUE]
  /\ sema = <<[units |-> 1, binary |-> TRUE], [units |-> 0, binary |-> FALSE],
               [units |-> 1, binary |-> TRUE]>>
  /\ at = [t \in PThread |-> "idle"]

PthreadInit ==
  /\ StaticInit \/ DynamicInit
  /\ locals = [t \in PThread |-> NoLocals]
  /\ used = [t \in PThread |-> 0]
  /\ unposted = 0

Move(t, place) == at' = [at EXCEPT ![t] = place]

-----------------------------------------------------------------------------
(* Kernel semaphores *)

FreeHandles == (1 .. MaxHandles) \ DOMAIN sema

WithSema(s, h, units, binary) ==
  [x \in DOMAIN s \cup {h} |-> IF x = h THEN [units |-> units, binary |-> binary] ELSE s[x]]

CloseSema(s, h) == [x \in DOMAIN s \ {h} |-> s[x]]

\* sys_wait returning E_SUCCESS
HasUnit(h) == h \in DOMAIN sema /\ sema[h].units > 0
TakeUnit(s, h) == [s EXCEPT ![h].units = @ - 1]

\* sys_signal: fails on a full semaphore and on a handle that is not open
Post(s, h) ==
  IF h \in DOMAIN s /\ ~(s[h].binary /\ s[h].units = 1)
  THEN [s EXCEPT ![h].units = @ + 1] ELSE s

-----------------------------------------------------------------------------
(* Mutexes *)

\* mutex_ensure_init up to the creation of a candidate
MutexEnsure(t) ==
  /\ at[t] = "idle"
  /\ UNCHANGED <<mutex, cond, used, unposted>>
  /\ \/ mutex.init /\ Move(t, "mutexWait") /\ UNCHANGED <<sema, locals>>
     \/ /\ ~mutex.init /\ FreeHandles # {}
        /\ sema' = WithSema(sema, Min(FreeHandles), 1, TRUE)
        /\ locals' = [locals EXCEPT ![t].cand = Min(FreeHandles)]
        /\ Move(t, "mutexCas")
     \/ /\ ~mutex.init /\ FreeHandles = {}     \* ENOMEM
        /\ UNCHANGED <<sema, locals, at>>

\* the compare-and-exchange of mutex_ensure_init
MutexCas(t) ==
  /\ at[t] = "mutexCas"
  /\ IF mutex.fd = NoFd
     THEN mutex' = [mutex EXCEPT !.fd = locals[t].cand] /\ UNCHANGED sema
     ELSE sema' = CloseSema(sema, locals[t].cand) /\ UNCHANGED mutex
  /\ locals' = [locals EXCEPT ![t].cand = NoFd]
  /\ Move(t, "mutexStore")
  /\ UNCHANGED <<cond, used, unposted>>

MutexStore(t) ==
  /\ at[t] = "mutexStore"
  /\ mutex' = [mutex EXCEPT !.init = TRUE]
  /\ Move(t, "mutexWait")
  /\ UNCHANGED <<cond, sema, locals, used, unposted>>

\* wait_uninterruptible in pthread_mutex_lock
MutexLock(t) ==
  /\ at[t] = "mutexWait"
  /\ HasUnit(mutex.fd)
  /\ sema' = TakeUnit(sema, mutex.fd)
  /\ Move(t, "held")
  /\ locals' = [locals EXCEPT ![t] = [NoLocals EXCEPT !.held = TRUE]]
  /\ UNCHANGED <<mutex, cond, used, unposted>>

\* pthread_mutex_trylock
MutexTrylock(t) ==
  /\ at[t] = "mutexWait"
  /\ locals[t].call = "lock"
  /\ ~HasUnit(mutex.fd)      \* E_TIMEOUT: EBUSY
  /\ Move(t, "idle")
  /\ UNCHANGED <<mutex, cond, sema, locals, used, unposted>>

MutexUnlock(t) ==
  /\ at[t] = "held"
  /\ sema' = Post(sema, mutex.fd)
  /\ Move(t, "idle")
  /\ locals' = [locals EXCEPT ![t] = NoLocals]
  /\ UNCHANGED <<mutex, cond, used, unposted>>

-----------------------------------------------------------------------------
(* Condition variables *)

\* cond_ensure_init up to the creation of the candidates; call is what follows
CondEnsure(t, call, timed) ==
  /\ at[t] = "held" \/ (at[t] = "idle" /\ call \in {"signal", "broadcast"})
  /\ used[t] < MaxCondCalls
  /\ used' = [used EXCEPT ![t] = @ + 1]
  /\ UNCHANGED <<mutex, cond, unposted>>
  /\ \/ /\ cond.init /\ Move(t, call)
        /\ locals' = [locals EXCEPT ![t].call = call, ![t].timed = timed]
        /\ UNCHANGED sema
     \/ /\ ~cond.init /\ Cardinality(FreeHandles) >= 2
        /\ LET a == Min(FreeHandles)
               b == Min(FreeHandles \ {a})
           IN  /\ sema' = WithSema(WithSema(sema, a, 0, FALSE), b, 1, TRUE)
               /\ locals' = [locals EXCEPT ![t].cand = a, ![t].cand2 = b,
                                          ![t].call = call, ![t].timed = timed]
        /\ Move(t, "condCas")
     \/ /\ ~cond.init /\ Cardinality(FreeHandles) < 2      \* ENOMEM
        /\ UNCHANGED <<sema, locals, at>>

\* the compare-and-exchange of cond_ensure_init, and the loser's clean-up
CondCas(t) ==
  /\ at[t] = "condCas"
  /\ IF cond.sem = NoFd
     THEN /\ cond' = [cond EXCEPT !.sem = locals[t].cand]
          /\ UNCHANGED <<sema, locals>>
     ELSE /\ sema' = CloseSema(CloseSema(sema, locals[t].cand), locals[t].cand2)
          /\ locals' = [locals EXCEPT ![t].cand = NoFd, ![t].cand2 = NoFd]
          /\ UNCHANGED cond
  /\ Move(t, "condPublish")
  /\ UNCHANGED <<mutex, used, unposted>>

\* the winner stores waiters_lock and init; the others spin until it has
CondPublish(t) ==
  /\ at[t] = "condPublish"
  /\ \/ /\ locals[t].cand # NoFd
        /\ cond' = [cond EXCEPT !.wlock = locals[t].cand2, !.init = TRUE]
        /\ locals' = [locals EXCEPT ![t].cand = NoFd, ![t].cand2 = NoFd]
     \/ /\ locals[t].cand = NoFd /\ cond.init
        /\ UNCHANGED <<cond, locals>>
  /\ Move(t, locals[t].call)
  /\ UNCHANGED <<mutex, sema, used, unposted>>

\* pthread_cond_wait and pthread_cond_timedwait: the waiter counts itself
CondRegister(t) ==
  /\ at[t] = "wait"
  /\ HasUnit(cond.wlock)
  /\ cond' = [cond EXCEPT !.waiters = @ + 1]
  /\ Move(t, "release")
  /\ UNCHANGED <<mutex, sema, locals, used, unposted>>

\* ... drops the mutex
CondRelease(t) ==
  /\ at[t] = "release"
  /\ sema' = Post(sema, mutex.fd)
  /\ locals' = [locals EXCEPT ![t].held = FALSE]
  /\ Move(t, "sleep")
  /\ UNCHANGED <<mutex, cond, used, unposted>>

\* Mutant: a timed wait that was woken uncounts itself as well.
CondWakeUndoes(t) ==
  /\ at[t] = "sleep"
  /\ HasUnit(cond.sem)
  /\ sema' = TakeUnit(sema, cond.sem)
  /\ Move(t, IF locals[t].timed THEN "undo" ELSE "mutexWait")
  /\ locals' = [locals EXCEPT ![t] = [NoLocals EXCEPT !.call = "wait"]]
  /\ UNCHANGED <<mutex, cond, used, unposted>>

\* ... takes a unit and the mutex again
CondWake(t) ==
  /\ at[t] = "sleep"
  /\ HasUnit(cond.sem)
  /\ sema' = TakeUnit(sema, cond.sem)
  /\ Move(t, "mutexWait")
  /\ locals' = [locals EXCEPT ![t] = [NoLocals EXCEPT !.call = "wait"]]
  /\ UNCHANGED <<mutex, cond, used, unposted>>

\* ... or passes its deadline, before or while it sleeps
CondTimeout(t) ==
  /\ at[t] = "sleep"
  /\ locals[t].timed
  /\ Move(t, "undo")
  /\ UNCHANGED <<mutex, cond, sema, locals, used, unposted>>

\* ... and uncounts itself
CondUndo(t) ==
  /\ at[t] = "undo"
  /\ HasUnit(cond.wlock)
  /\ cond' = [cond EXCEPT !.waiters = IF @ > 0 THEN @ - 1 ELSE @]
  /\ Move(t, "mutexWait")
  /\ locals' = [locals EXCEPT ![t] = [NoLocals EXCEPT !.call = "wait"]]
  /\ UNCHANGED <<mutex, sema, used, unposted>>

Back(t) == IF locals[t].held THEN "held" ELSE "idle"

\* pthread_cond_signal
CondSignal(t) ==
  /\ at[t] = "signal"
  /\ HasUnit(cond.wlock)
  /\ IF cond.waiters > 0
     THEN cond' = [cond EXCEPT !.waiters = @ - 1] /\ sema' = Post(sema, cond.sem)
     ELSE UNCHANGED <<cond, sema>>
  /\ Move(t, Back(t))
  /\ UNCHANGED <<mutex, locals, used, unposted>>

\* threads that have counted themselves and hold no unit yet
Waiting == {t \in PThread : at[t] \in {"release", "sleep"}}

\* pthread_cond_broadcast: all waiters are uncounted under the lock ...
CondBroadcast(t) ==
  /\ at[t] = "broadcast"
  /\ HasUnit(cond.wlock)
  /\ locals' = [locals EXCEPT ![t].count = cond.waiters]
  /\ cond' = [cond EXCEPT !.waiters = 0]
  /\ unposted' = unposted + cond.waiters
  /\ Move(t, "posts")
  /\ UNCHANGED <<mutex, sema, used>>

\* ... and one unit is posted for each, outside it
CondPost(t) ==
  /\ at[t] = "posts"
  /\ IF locals[t].count > 0
     THEN /\ sema' = Post(sema, cond.sem)
          /\ locals' = [locals EXCEPT ![t].count = @ - 1]
          /\ unposted' = unposted - 1
          /\ UNCHANGED at
     ELSE Move(t, Back(t)) /\ UNCHANGED <<sema, locals, unposted>>
  /\ UNCHANGED <<mutex, cond, used>>

PthreadNext ==
  \E t \in PThread :
    \/ MutexEnsure(t) \/ MutexCas(t) \/ MutexStore(t)
    \/ MutexLock(t) \/ MutexTrylock(t) \/ MutexUnlock(t)
    \/ \E timed \in BOOLEAN : CondEnsure(t, "wait", timed)
    \/ \E call \in {"signal", "broadcast"} : CondEnsure(t, call, FALSE)
    \/ CondCas(t) \/ CondPublish(t)
    \/ CondRegister(t) \/ CondRelease(t) \/ CondWake(t) \/ CondTimeout(t) \/ CondUndo(t)
    \/ CondSignal(t) \/ CondBroadcast(t) \/ CondPost(t)

PthreadSpec == PthreadInit /\ [][PthreadNext]_pthreadVars

-----------------------------------------------------------------------------
(* Properties *)

Owners == {t \in PThread : locals[t].held}

\* At most one thread owns the mutex, however the first calls race to create
\* its semaphore (mutex_ensure_init) and whatever the condition variable does.
MutexExclusive == Cardinality(Owners) <= 1

\* units a waiter can take now
CondUnits == IF cond.sem \in DOMAIN sema THEN sema[cond.sem].units ELSE 0

\* No waiter is forgotten: each one is still counted, so that a later signal posts
\* a unit for it, or a unit it can take is there or on its way.  Late timeouts and
\* signals that race with them keep this.
NoWaiterForgotten == Cardinality(Waiting) <= cond.waiters + CondUnits + unposted

\* At most one thread owns a mutex, also when the first calls race to create
\* it, and no waiter of a condition variable is forgotten while signals and
\* timeouts race (userspace/libc/pthread.c).
PthreadSound == MutexExclusive /\ NoWaiterForgotten

-----------------------------------------------------------------------------
(* The inductive invariant *)

Places == {"absent", "idle", "mutexCas", "mutexStore", "mutexWait", "held", "condCas", "condPublish",
           "wait", "release", "sleep", "undo", "signal", "broadcast", "posts"}

PthreadTypes ==
  /\ mutex \in [fd : Nat, init : BOOLEAN]
  /\ cond \in [sem : Nat, wlock : Nat, waiters : Nat, init : BOOLEAN]
  /\ DOMAIN sema \subseteq Nat \ {NoFd}
  /\ sema \in [DOMAIN sema -> [units : Nat, binary : BOOLEAN]]
  /\ at \in [PThread -> Places]
  /\ locals \in [PThread -> [cand : Nat, cand2 : Nat, call : {"lock", "wait", "signal", "broadcast"},
                             timed : BOOLEAN, count : Nat, held : BOOLEAN]]
  /\ unposted \in Int

\* Whether a thread owns the mutex shows in where it is.
OwnsWhere ==
  \A t \in PThread :
    /\ at[t] \in {"held", "wait", "release"} => locals[t].held
    /\ at[t] \in {"absent", "idle", "mutexCas", "mutexStore", "mutexWait", "sleep", "undo"} => ~locals[t].held
    /\ at[t] \in {"condCas", "condPublish"} => /\ locals[t].call # "lock"
                                               /\ locals[t].call = "wait" => locals[t].held
    /\ at[t] \in {"wait", "release", "sleep", "undo", "signal", "broadcast", "posts"} => cond.init

\* The binary semaphores a thread has created and not published: nobody else
\* knows of them, and they have their unit.
Private(t) ==
  (IF at[t] = "mutexCas" THEN {locals[t].cand} ELSE {})
  \cup (IF at[t] = "condCas" \/ (at[t] = "condPublish" /\ locals[t].cand # NoFd)
        THEN {locals[t].cand2} ELSE {})

Published == {mutex.fd, cond.wlock} \ {NoFd}

PrivateSound ==
  /\ \A t \in PThread :
       /\ \A h \in Private(t) : /\ h \in DOMAIN sema /\ h \notin Published
                                /\ sema[h].binary /\ sema[h].units = 1
       /\ at[t] = "condCas" => /\ locals[t].cand \in DOMAIN sema /\ locals[t].cand # cond.sem
                               /\ ~sema[locals[t].cand].binary
       /\ at[t] = "condPublish" /\ locals[t].cand # NoFd => cond.sem # NoFd
  /\ \A t, u \in PThread : t # u =>
       /\ Private(t) \cap Private(u) = {}
       /\ at[t] = "condCas" /\ at[u] = "condCas" => locals[t].cand # locals[u].cand

\* The published ones are open, distinct and of their kind; the unit of the
\* mutex is in its semaphore or with its owner.
PublishedSound ==
  /\ mutex.fd # NoFd => /\ mutex.fd \in DOMAIN sema /\ sema[mutex.fd].binary
                        /\ mutex.fd # cond.wlock
                        /\ sema[mutex.fd].units + Cardinality(Owners) = 1
  /\ mutex.fd = NoFd => Owners = {}
  /\ cond.sem # NoFd => cond.sem \in DOMAIN sema /\ ~sema[cond.sem].binary
  /\ cond.wlock # NoFd => cond.wlock \in DOMAIN sema /\ sema[cond.wlock].binary
  /\ cond.init => cond.sem # NoFd

\* A waiter whose time has passed is counted until it has uncounted itself.
Counted == {t \in PThread : at[t] \in {"release", "sleep", "undo"}}

WaitersCounted == Cardinality(Counted) <= cond.waiters + CondUnits + unposted

PthreadInv == PthreadTypes /\ OwnsWhere /\ PrivateSound /\ PublishedSound /\ WaitersCounted
=============================================================================
