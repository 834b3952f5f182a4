--------------------------- MODULE PthreadProofs ---------------------------
(***************************************************************************)
(* The mutexes and condition variables of the C library exclude, and       *)
(* forget no waiter, for any number of threads and of handles, however the *)
(* first calls race to create the semaphores behind them.                  *)
(***************************************************************************)
EXTENDS Pthread, FiniteSetTheorems, WellFoundedInduction, TLAPS

-----------------------------------------------------------------------------
(* Handles.                                                                 *)

(* A set of natural numbers that is not empty has a least element.         *)
LEMMA MinOfSet ==
  ASSUME NEW S, S \subseteq Nat, S # {}
  PROVE  Min(S) \in S
<1> DEFINE R == {ss \in Nat \X Nat : ss[1] < ss[2]}
<1>1. IsWellFoundedOn(R, Nat)
  BY NatLessThanWellFounded, Zenon DEF OpToRel
<1>2. PICK x \in S : \A y \in S : ~(<<y, x>> \in R)
  <2> HIDE DEF R
  <2> QED
    BY <1>1, WFMin, Zenon
<1>3. ASSUME NEW y \in S PROVE x <= y
  <2>1. x \in Nat /\ y \in Nat /\ <<y, x>> \in Nat \X Nat /\ <<y, x>>[1] = y /\ <<y, x>>[2] = x
    BY Zenon
  <2>2. ~(<<y, x>> \in R)
    BY <1>2, Zenon
  <2>3. ~(y < x)
    BY <2>1, <2>2, Zenon
  <2> QED
    BY <2>1, <2>3
<1> QED
  BY <1>3, Zenon DEF Min

(* The kernel hands out a number that names nothing yet.                   *)
LEMMA FreshHandle ==
  /\ FreeHandles # {} => /\ Min(FreeHandles) \in Nat \ {NoFd}
                         /\ Min(FreeHandles) \notin DOMAIN sema
  /\ Cardinality(FreeHandles) >= 2 =>
        LET a == Min(FreeHandles)
            b == Min(FreeHandles \ {a})
        IN  /\ a \in Nat \ {NoFd} /\ b \in Nat \ {NoFd} /\ a # b
            /\ a \notin DOMAIN sema /\ b \notin DOMAIN sema
<1>1. FreeHandles \subseteq Nat \ {NoFd} /\ FreeHandles \cap DOMAIN sema = {}
  BY DEF FreeHandles, NoFd
<1>2. IsFiniteSet(FreeHandles)
  <2>1. IsFiniteSet(1 .. MaxHandles)
    BY PthreadAssumption, FS_Interval
  <2> QED
    BY <2>1, FS_Subset, Zenon DEF FreeHandles
<1>3. FreeHandles # {} => Min(FreeHandles) \in FreeHandles
  BY <1>1, MinOfSet, Zenon
<1>4. ASSUME Cardinality(FreeHandles) >= 2
      PROVE  LET a == Min(FreeHandles)
             IN  /\ a \in FreeHandles
                 /\ Min(FreeHandles \ {a}) \in FreeHandles \ {a}
  <2>1. FreeHandles # {}
    BY <1>4, FS_EmptySet
  <2>2. Min(FreeHandles) \in FreeHandles
    BY <1>3, <2>1, Zenon
  <2> DEFINE a == Min(FreeHandles)
             F == FreeHandles \ {a}
  <2> HIDE DEF a
  <2>3. IsFiniteSet(F) /\ Cardinality(F) = Cardinality(FreeHandles) - 1
    BY <1>2, <2>2, FS_RemoveElement, Zenon DEF a
  <2>4. F # {}
    <3>1. Cardinality(FreeHandles) \in Nat
      BY <1>2, FS_CardinalityType, Zenon
    <3>2. Cardinality(F) # 0
      BY <1>4, <2>3, <3>1
    <3> QED
      BY <3>2, FS_EmptySet, Zenon
  <2>5. Min(F) \in F
    <3>1. F \subseteq Nat
      BY <1>1, Zenon
    <3> HIDE DEF F
    <3> QED
      BY <2>4, <3>1, MinOfSet, Zenon
  <2> QED
    BY <2>2, <2>5, Zenon DEF a
<1> QED
  BY <1>1, <1>3, <1>4, Zenon

-----------------------------------------------------------------------------
(* What a step of one thread leaves alone.                                  *)

(* The place of one thread changes.                                        *)
LEMMA Moved ==
  ASSUME PthreadTypes, NEW t \in PThread, NEW place \in Places, Move(t, place)
  PROVE  /\ at' \in [PThread -> Places]
         /\ at'[t] = place
         /\ \A u \in PThread : u # t => at'[u] = at[u]
BY Zenon DEF PthreadTypes, Move

Locals == [cand : Nat, cand2 : Nat, call : {"lock", "wait", "signal", "broadcast"},
           timed : BOOLEAN, count : Nat, held : BOOLEAN]

(* The locals of one thread change.                                        *)
LEMMA LocalsSet ==
  ASSUME PthreadTypes, NEW t \in PThread, NEW l \in Locals, locals' = [locals EXCEPT ![t] = l]
  PROVE  /\ locals' \in [PThread -> Locals]
         /\ locals'[t] = l
         /\ \A u \in PThread : u # t => locals'[u] = locals[u]
BY Zenon DEF PthreadTypes, Locals

(* The locals of a thread, and those of a call that begins.                *)
LEMMA LocalsTypes ==
  ASSUME PthreadTypes, NEW t \in PThread
  PROVE  /\ locals \in [PThread -> Locals] /\ locals[t] \in Locals
         /\ NoLocals \in Locals
         /\ NoLocals.held = FALSE /\ NoLocals.call = "lock"
<1>1. locals \in [PThread -> Locals] /\ locals[t] \in Locals
  BY Zenon DEF PthreadTypes, Locals
<1>2. FALSE \in BOOLEAN
  BY Zenon
<1> QED
  BY <1>1, <1>2, Zenon DEF NoLocals, Locals, NoFd

(* Owners and waiters are finitely many.                                   *)
LEMMA Finite ==
  /\ IsFiniteSet(Owners) /\ IsFiniteSet(Counted) /\ IsFiniteSet(Waiting)
  /\ Cardinality(Owners) \in Nat /\ Cardinality(Counted) \in Nat /\ Cardinality(Waiting) \in Nat
<1>1. Owners \subseteq PThread /\ Counted \subseteq PThread /\ Waiting \subseteq PThread
  BY Zenon DEF Owners, Counted, Waiting
<1>2. IsFiniteSet(Owners) /\ IsFiniteSet(Counted) /\ IsFiniteSet(Waiting)
  BY <1>1, PthreadAssumption, FS_Subset, Zenon
<1> QED
  BY <1>2, FS_CardinalityType, Zenon

(* How the number of owners changes with one thread's locals.              *)
LEMMA OwnersChange ==
  ASSUME PthreadTypes, NEW t \in PThread,
         \A u \in PThread : u # t => locals'[u].held = locals[u].held
  PROVE  /\ locals'[t].held = locals[t].held => Owners' = Owners
         /\ ~locals[t].held /\ locals'[t].held =>
               Cardinality(Owners') = Cardinality(Owners) + 1
         /\ locals[t].held /\ ~locals'[t].held =>
               Cardinality(Owners') = Cardinality(Owners) - 1
<1>1. t \in Owners <=> locals[t].held
  BY Zenon DEF Owners
<1>2. locals'[t].held => Owners' = Owners \cup {t}
  BY Zenon DEF Owners
<1>3. ~locals'[t].held => Owners' = Owners \ {t}
  BY Zenon DEF Owners
<1>4. locals'[t].held = locals[t].held => Owners' = Owners
  BY Zenon DEF Owners
<1> QED
  <2>1. IsFiniteSet(Owners)
    BY Finite, Zenon
  <2>2. ~locals[t].held /\ locals'[t].held => Cardinality(Owners') = Cardinality(Owners) + 1
    BY <1>1, <1>2, <2>1, FS_AddElement, Zenon
  <2>3. locals[t].held /\ ~locals'[t].held => Cardinality(Owners') = Cardinality(Owners) - 1
    BY <1>1, <1>3, <2>1, FS_RemoveElement, Zenon
  <2> QED
    BY <1>4, <2>2, <2>3, Zenon

(* How the number of counted waiters changes with one thread's place.      *)
LEMMA CountedChange ==
  ASSUME PthreadTypes, NEW t \in PThread, \A u \in PThread : u # t => at'[u] = at[u]
  PROVE  LET in  == at[t] \in {"release", "sleep", "undo"}
             in2 == at'[t] \in {"release", "sleep", "undo"}
         IN  /\ in = in2 => Counted' = Counted
             /\ ~in /\ in2 => Cardinality(Counted') = Cardinality(Counted) + 1
             /\ in /\ ~in2 => Cardinality(Counted') = Cardinality(Counted) - 1
<1> DEFINE in  == at[t] \in {"release", "sleep", "undo"}
           in2 == at'[t] \in {"release", "sleep", "undo"}
<1>1. t \in Counted <=> in
  BY Zenon DEF Counted
<1>2. in2 => Counted' = Counted \cup {t}
  BY Zenon DEF Counted
<1>3. ~in2 => Counted' = Counted \ {t}
  BY Zenon DEF Counted
<1>4. (in <=> in2) => Counted' = Counted
  BY <1>1, <1>2, <1>3, Zenon
<1> QED
  BY <1>1, <1>2, <1>3, <1>4, Finite, FS_AddElement, FS_RemoveElement

(* A step that changes the units of one published semaphore at most, and no  *)
(* word that names a semaphore, keeps what is said of the private ones ...  *)
LEMMA PrivateKept ==
  ASSUME PthreadInv, NEW x \in Published \cup {cond.sem},
         mutex'.fd = mutex.fd, cond'.sem = cond.sem, cond'.wlock = cond.wlock,
         DOMAIN sema' = DOMAIN sema,
         \A h \in DOMAIN sema : /\ sema'[h].binary = sema[h].binary
                                /\ h # x => sema'[h] = sema[h],
         \A u \in PThread : at'[u] \in {"mutexCas", "condCas", "condPublish"} =>
            /\ at'[u] = at[u]
            /\ locals'[u].cand = locals[u].cand /\ locals'[u].cand2 = locals[u].cand2
  PROVE  PrivateSound'
<1> USE DEF PthreadInv
<1>1. Published' = Published
  BY Zenon DEF Published
<1>2. \A u \in PThread : Private(u)' \subseteq Private(u)
  BY Zenon DEF Private
<1>3. \A u \in PThread : \A h \in Private(u) : h # x
  <2>1. \A u \in PThread : \A h \in Private(u) : h \notin Published /\ sema[h].binary /\ h \in DOMAIN sema
    BY Zenon DEF PrivateSound
  <2>2. cond.sem # NoFd => ~sema[cond.sem].binary
    BY Zenon DEF PublishedSound
  <2>3. NoFd \notin DOMAIN sema
    BY Zenon DEF PthreadTypes
  <2> QED
    BY <2>1, <2>2, <2>3
<1>4. ASSUME NEW u \in PThread
      PROVE  /\ \A h \in Private(u)' : /\ h \in DOMAIN sema' /\ h \notin Published'
                                       /\ sema'[h].binary /\ sema'[h].units = 1
             /\ at'[u] = "condCas" => /\ locals'[u].cand \in DOMAIN sema' /\ locals'[u].cand # cond'.sem
                                      /\ ~sema'[locals'[u].cand].binary
             /\ at'[u] = "condPublish" /\ locals'[u].cand # NoFd => cond'.sem # NoFd
  <2>1. \A h \in Private(u)' : /\ h \in DOMAIN sema' /\ h \notin Published'
                               /\ sema'[h].binary /\ sema'[h].units = 1
    BY <1>1, <1>2, <1>3 DEF PrivateSound
  <2> QED
    BY <2>1 DEF PrivateSound
<1>5. ASSUME NEW u \in PThread, NEW v \in PThread, u # v
      PROVE  /\ Private(u)' \cap Private(v)' = {}
             /\ at'[u] = "condCas" /\ at'[v] = "condCas" => locals'[u].cand # locals'[v].cand
  <2>1. /\ Private(u) \cap Private(v) = {}
        /\ at[u] = "condCas" /\ at[v] = "condCas" => locals[u].cand # locals[v].cand
    BY <1>5 DEF PrivateSound
  <2>2. Private(u)' \cap Private(v)' = {}
    BY <1>2, <2>1, Zenon
  <2> QED
    BY <2>1, <2>2, Zenon
<1> QED
  BY <1>4, <1>5, Zenon DEF PrivateSound

(* ... and of the published ones, when the mutex's unit is not lost.         *)
LEMMA PublishedKept ==
  ASSUME PthreadInv,
         mutex'.fd = mutex.fd, cond'.sem = cond.sem, cond'.wlock = cond.wlock, cond'.init = cond.init,
         DOMAIN sema' = DOMAIN sema,
         \A h \in DOMAIN sema : sema'[h].binary = sema[h].binary,
         mutex.fd # NoFd => sema'[mutex.fd].units + Cardinality(Owners') = 1,
         mutex.fd = NoFd => Owners' = {}
  PROVE  PublishedSound'
BY Zenon DEF PthreadInv, PublishedSound

(* The units of the condition variable when another semaphore changes.       *)
LEMMA CondUnitsKept ==
  ASSUME PthreadInv, cond'.sem = cond.sem, DOMAIN sema' = DOMAIN sema,
         \A h \in DOMAIN sema : ~sema[h].binary => sema'[h] = sema[h]
  PROVE  CondUnits' = CondUnits
<1>1. cond.sem \in DOMAIN sema => ~sema[cond.sem].binary
  BY Zenon DEF PthreadInv, PublishedSound, PthreadTypes
<1> QED
  BY <1>1, Zenon DEF CondUnits

(* A thread that only moves between places where it owns or does not own     *)
(* the mutex, and is counted or is not, as before.                           *)
LEMMA OnlyMoves ==
  ASSUME PthreadInv, NEW t \in PThread, at'[t] \in Places,
         at' = [at EXCEPT ![t] = at'[t]], at'[t] \notin {"mutexCas", "condCas", "condPublish"},
         at[t] \in {"release", "sleep", "undo"} <=> at'[t] \in {"release", "sleep", "undo"},
         mutex'.fd = mutex.fd, mutex' \in [fd : Nat, init : BOOLEAN],
         UNCHANGED <<cond, sema, locals, unposted>>, OwnsWhere'
  PROVE  PthreadInv'
<1> USE DEF PthreadInv
<1>1. PthreadTypes'
  BY Zenon DEF PthreadTypes
<1>2. \A u \in PThread : u # t => at'[u] = at[u]
  BY Zenon DEF PthreadTypes
<1>3. Owners' = Owners
  BY Zenon DEF Owners
<1>4. Counted' = Counted
  BY <1>2, CountedChange
<1>5. PrivateSound'
  <2> DEFINE x == cond.sem
  <2>1. \A u \in PThread : at'[u] \in {"mutexCas", "condCas", "condPublish"} => at'[u] = at[u]
    BY <1>2, Zenon
  <2> QED
    BY <2>1, PrivateKept, Zenon
<1>6. PublishedSound'
  BY <1>3, Zenon DEF PublishedSound
<1>7. WaitersCounted'
  BY <1>4, Zenon DEF WaitersCounted, CondUnits
<1> QED
  BY <1>1, <1>5, <1>6, <1>7, Zenon

-----------------------------------------------------------------------------
(* Steps of the mutex.                                                      *)

(* A thread marks the mutex as initialised, whether or not it won the      *)
(* race.                                                                   *)
LEMMA MutexStorePthreadInv ==
  ASSUME PthreadInv, NEW t \in PThread, MutexStore(t)
  PROVE  PthreadInv'
<1>1. mutex'.fd = mutex.fd /\ mutex' \in [fd : Nat, init : BOOLEAN]
  <2>1. TRUE \in BOOLEAN
    BY Zenon
  <2> QED
    BY <2>1, Zenon DEF MutexStore, PthreadInv, PthreadTypes
<1>2. OwnsWhere' /\ at'[t] = "mutexWait"
  BY Zenon DEF MutexStore, Move, PthreadInv, PthreadTypes, OwnsWhere
<1> QED
  BY <1>1, <1>2, OnlyMoves, Zenon DEF MutexStore, Move, Places

(* pthread_mutex_trylock gives up when the unit is not there.              *)
LEMMA MutexTrylockPthreadInv ==
  ASSUME PthreadInv, NEW t \in PThread, MutexTrylock(t)
  PROVE  PthreadInv'
<1>1. OwnsWhere' /\ at'[t] = "idle"
  BY Zenon DEF MutexTrylock, Move, PthreadInv, PthreadTypes, OwnsWhere
<1> QED
  BY <1>1, OnlyMoves, Zenon DEF MutexTrylock, Move, Places, PthreadInv, PthreadTypes

(* A wait for a condition variable times out.                              *)
LEMMA CondTimeoutPthreadInv ==
  ASSUME PthreadInv, NEW t \in PThread, CondTimeout(t)
  PROVE  PthreadInv'
<1>1. OwnsWhere' /\ at'[t] = "undo"
  BY Zenon DEF CondTimeout, Move, PthreadInv, PthreadTypes, OwnsWhere
<1> QED
  BY <1>1, OnlyMoves, Zenon DEF CondTimeout, Move, Places, PthreadInv, PthreadTypes

(* pthread_mutex_lock takes the unit.                                      *)
LEMMA MutexLockPthreadInv ==
  ASSUME PthreadInv, NEW t \in PThread, MutexLock(t)
  PROVE  PthreadInv'
<1> USE DEF PthreadInv
<1> DEFINE l == [NoLocals EXCEPT !.held = TRUE]
<1>l. /\ l \in Locals /\ l.held = TRUE
  <2>1. TRUE \in BOOLEAN /\ FALSE \in BOOLEAN
    BY Zenon
  <2> QED
    BY <2>1, Zenon DEF NoLocals, Locals, NoFd
<1>m. locals' = [locals EXCEPT ![t] = l]
  BY Zenon DEF MutexLock
<1> HIDE DEF l
<1>n. /\ locals' \in [PThread -> Locals] /\ locals'[t].held = TRUE
      /\ \A u \in PThread : u # t => locals'[u] = locals[u]
  BY <1>l, <1>m, LocalsSet, Zenon
<1>p. at' \in [PThread -> Places] /\ at'[t] = "held" /\ \A u \in PThread : u # t => at'[u] = at[u]
  BY Moved, Zenon DEF MutexLock, Places
<1>s. /\ DOMAIN sema' = DOMAIN sema /\ sema' \in [DOMAIN sema -> [units : Nat, binary : BOOLEAN]]
      /\ mutex.fd \in DOMAIN sema /\ sema'[mutex.fd].units = sema[mutex.fd].units - 1
      /\ \A h \in DOMAIN sema : /\ sema'[h].binary = sema[h].binary
                                /\ h # mutex.fd => sema'[h] = sema[h]
  BY DEF MutexLock, HasUnit, TakeUnit, PthreadTypes
<1>1. PthreadTypes'
  BY <1>n, <1>p, <1>s, Zenon DEF MutexLock, PthreadTypes, Locals
<1>2. OwnsWhere'
  BY <1>n, <1>p, Zenon DEF MutexLock, OwnsWhere
<1>3. PrivateSound'
  <2>1. mutex.fd \in Published
    BY <1>s, Zenon DEF PthreadTypes, Published
  <2>2. \A u \in PThread : at'[u] \in {"mutexCas", "condCas", "condPublish"} =>
            at'[u] = at[u] /\ locals'[u] = locals[u]
    BY <1>n, <1>p, Zenon
  <2> QED
    BY <1>s, <2>1, <2>2, PrivateKept, Zenon DEF MutexLock
<1>4. Cardinality(Owners') = Cardinality(Owners) + 1 /\ Counted' = Counted
  <2>1. ~locals[t].held /\ at[t] = "mutexWait"
    BY Zenon DEF MutexLock, OwnsWhere
  <2> QED
    BY <2>1, <1>n, <1>p, OwnersChange, CountedChange
<1>5. PublishedSound'
  <2>1. mutex.fd # NoFd
    BY <1>s, Zenon DEF PthreadTypes
  <2>2. sema'[mutex.fd].units + Cardinality(Owners') = 1
    BY <1>s, <1>4, <2>1, Finite DEF PublishedSound, PthreadTypes
  <2> QED
    BY <1>s, <2>1, <2>2, PublishedKept, Zenon DEF MutexLock
<1>6. WaitersCounted'
  <2>1. sema[mutex.fd].binary
    BY <1>s, Zenon DEF PthreadTypes, PublishedSound
  <2>2. CondUnits' = CondUnits
    BY <1>s, <2>1, CondUnitsKept, Zenon DEF MutexLock
  <2> QED
    BY <1>4, <2>2, Zenon DEF MutexLock, WaitersCounted
<1> QED
  BY <1>1, <1>2, <1>3, <1>5, <1>6, Zenon

(* What posting to an open semaphore does.                                  *)
LEMMA PostEffect ==
  ASSUME PthreadTypes, NEW h \in DOMAIN sema, sema' = Post(sema, h)
  PROVE  /\ DOMAIN sema' = DOMAIN sema /\ sema' \in [DOMAIN sema -> [units : Nat, binary : BOOLEAN]]
         /\ \A x \in DOMAIN sema : /\ sema'[x].binary = sema[x].binary
                                   /\ x # h => sema'[x] = sema[x]
         /\ ~(sema[h].binary /\ sema[h].units = 1) => sema'[h].units = sema[h].units + 1
BY DEF PthreadTypes, Post

(* A step in which an owner gives the mutex up: the unit goes back.          *)
LEMMA GivesUp ==
  ASSUME PthreadInv, NEW t \in PThread, NEW l \in Locals, locals[t].held, l.held = FALSE,
         locals' = [locals EXCEPT ![t] = l], NEW place \in Places, Move(t, place),
         place \notin {"mutexCas", "condCas", "condPublish"},
         at[t] \in {"release", "sleep", "undo"} <=> place \in {"release", "sleep", "undo"},
         sema' = Post(sema, mutex.fd), UNCHANGED <<mutex, cond, unposted>>, OwnsWhere'
  PROVE  PthreadInv'
<1> USE DEF PthreadInv
<1>n. /\ locals' \in [PThread -> Locals] /\ locals'[t].held = FALSE
      /\ \A u \in PThread : u # t => locals'[u] = locals[u]
  BY LocalsSet, Zenon
<1>p. at' \in [PThread -> Places] /\ at'[t] = place /\ \A u \in PThread : u # t => at'[u] = at[u]
  BY Moved, Zenon
<1>o. Cardinality(Owners) # 0 /\ Owners # {}
  <2>1. t \in Owners
    BY Zenon DEF Owners
  <2> QED
    BY <2>1, Finite, FS_EmptySet, Zenon
<1>f. /\ mutex.fd # NoFd /\ mutex.fd \in DOMAIN sema /\ mutex.fd \in Published /\ sema[mutex.fd].binary
      /\ sema[mutex.fd].units + Cardinality(Owners) = 1
  BY <1>o, Zenon DEF PublishedSound, Published
<1>u. sema[mutex.fd].units = 0 /\ Cardinality(Owners) = 1
  <2>1. sema[mutex.fd].units \in Nat /\ Cardinality(Owners) \in Nat
    BY <1>f, Finite, Zenon DEF PthreadTypes
  <2> QED
    BY <1>o, <1>f, <2>1
<1>s. /\ DOMAIN sema' = DOMAIN sema /\ sema' \in [DOMAIN sema -> [units : Nat, binary : BOOLEAN]]
      /\ sema'[mutex.fd].units = sema[mutex.fd].units + 1
      /\ \A h \in DOMAIN sema : /\ sema'[h].binary = sema[h].binary
                                /\ h # mutex.fd => sema'[h] = sema[h]
  BY <1>f, <1>u, PostEffect
<1>1. PthreadTypes'
  BY <1>n, <1>p, <1>s, Zenon DEF PthreadTypes, Locals
<1>3. PrivateSound'
  <2>1. \A u \in PThread : at'[u] \in {"mutexCas", "condCas", "condPublish"} =>
            at'[u] = at[u] /\ locals'[u] = locals[u]
    BY <1>n, <1>p, Zenon
  <2> QED
    BY <1>s, <1>f, <2>1, PrivateKept
<1>4. Cardinality(Owners') = Cardinality(Owners) - 1 /\ Counted' = Counted
  BY <1>n, <1>p, OwnersChange, CountedChange
<1>5. PublishedSound'
  <2>1. sema'[mutex.fd].units + Cardinality(Owners') = 1
    BY <1>s, <1>4, <1>u
  <2> QED
    BY <1>s, <1>f, <2>1, PublishedKept, Zenon
<1>6. WaitersCounted'
  <2>1. CondUnits' = CondUnits
    BY <1>s, <1>f, CondUnitsKept, Zenon
  <2> QED
    BY <1>4, <2>1, Zenon DEF WaitersCounted
<1> QED
  BY <1>1, <1>3, <1>5, <1>6, Zenon

(* pthread_mutex_unlock gives it back.                                     *)
LEMMA MutexUnlockPthreadInv ==
  ASSUME PthreadInv, NEW t \in PThread, MutexUnlock(t)
  PROVE  PthreadInv'
<1>1. locals[t].held /\ NoLocals \in Locals /\ NoLocals.held = FALSE
  BY LocalsTypes, Zenon DEF MutexUnlock, PthreadInv, OwnsWhere
<1>2. OwnsWhere'
  BY <1>1, Zenon DEF MutexUnlock, Move, PthreadInv, PthreadTypes, OwnsWhere
<1>3. "idle" \in Places
  BY Zenon DEF Places
<1> QED
  BY <1>1, <1>2, <1>3, GivesUp, Zenon DEF MutexUnlock

(* A wait releases the mutex after it was registered.                      *)
LEMMA CondReleasePthreadInv ==
  ASSUME PthreadInv, NEW t \in PThread, CondRelease(t)
  PROVE  PthreadInv'
<1> DEFINE l == [locals[t] EXCEPT !.held = FALSE]
<1>1. locals[t].held /\ l \in Locals /\ l.held = FALSE
  <2>1. FALSE \in BOOLEAN
    BY Zenon
  <2>2. locals[t] \in Locals
    BY LocalsTypes, Zenon DEF PthreadInv
  <2>3. l \in Locals /\ l.held = FALSE
    BY <2>1, <2>2, Zenon DEF Locals
  <2> QED
    BY <2>3, Zenon DEF CondRelease, PthreadInv, OwnsWhere
<1>2. OwnsWhere'
  BY <1>1, Zenon DEF CondRelease, Move, PthreadInv, PthreadTypes, OwnsWhere
<1>3. "sleep" \in Places
  BY Zenon DEF Places
<1>4. locals' = [locals EXCEPT ![t] = l]
  BY Zenon DEF CondRelease
<1> HIDE DEF l
<1> QED
  BY <1>1, <1>2, <1>3, <1>4, GivesUp, Zenon DEF CondRelease

-----------------------------------------------------------------------------
(* Steps of the condition variable.                                         *)

(* A step that changes only the units of the condition variable's semaphore, *)
(* the count of waiters and one thread, whose ownership stays, keeps all but *)
(* the count.                                                               *)
LEMMA CountsMove ==
  ASSUME PthreadInv, NEW t \in PThread, NEW l \in Locals, l.held = locals[t].held,
         locals' = [locals EXCEPT ![t] = l],
         at' \in [PThread -> Places], \A u \in PThread : u # t => at'[u] = at[u],
         at'[t] \notin {"mutexCas", "condCas", "condPublish"},
         DOMAIN sema' = DOMAIN sema, sema' \in [DOMAIN sema -> [units : Nat, binary : BOOLEAN]],
         \A h \in DOMAIN sema : /\ sema'[h].binary = sema[h].binary
                                /\ h # cond.sem => sema'[h] = sema[h],
         cond' \in [sem : Nat, wlock : Nat, waiters : Nat, init : BOOLEAN],
         cond'.sem = cond.sem, cond'.wlock = cond.wlock, cond'.init = cond.init,
         mutex' = mutex, unposted' \in Int, OwnsWhere', WaitersCounted'
  PROVE  PthreadInv'
<1> USE DEF PthreadInv
<1>n. /\ locals' \in [PThread -> Locals] /\ locals'[t] = l
      /\ \A u \in PThread : u # t => locals'[u] = locals[u]
  BY LocalsSet, Zenon
<1>1. PthreadTypes'
  BY <1>n, Zenon DEF PthreadTypes, Locals
<1>2. PrivateSound'
  <2>1. \A u \in PThread : at'[u] \in {"mutexCas", "condCas", "condPublish"} =>
            at'[u] = at[u] /\ locals'[u] = locals[u]
    BY <1>n, Zenon
  <2> QED
    BY <2>1, PrivateKept, Zenon
<1>3. Owners' = Owners
  <2>1. \A u \in PThread : locals'[u].held = locals[u].held
    BY <1>n, Zenon
  <2> QED
    BY <2>1, Zenon DEF Owners
<1>4. PublishedSound'
  <2>1. mutex.fd # NoFd => mutex.fd # cond.sem
    BY Zenon DEF PublishedSound
  <2>2. mutex.fd # NoFd => sema'[mutex.fd].units + Cardinality(Owners') = 1
    BY <1>3, <2>1, Zenon DEF PublishedSound
  <2>3. mutex.fd = NoFd => Owners' = {}
    BY <1>3, Zenon DEF PublishedSound
  <2> QED
    BY <2>2, <2>3, PublishedKept, Zenon
<1> QED
  BY <1>1, <1>2, <1>4, Zenon

(* A wait is counted as a waiter under the lock of the list.               *)
LEMMA CondRegisterPthreadInv ==
  ASSUME PthreadInv, NEW t \in PThread, CondRegister(t)
  PROVE  PthreadInv'
<1> USE DEF PthreadInv
<1>1. locals[t] \in Locals /\ locals' = [locals EXCEPT ![t] = locals[t]]
  BY LocalsTypes, Zenon DEF CondRegister, PthreadTypes
<1>2. at' \in [PThread -> Places] /\ at'[t] = "release" /\ \A u \in PThread : u # t => at'[u] = at[u]
  BY Moved, Zenon DEF CondRegister, Places
<1>3. /\ cond' \in [sem : Nat, wlock : Nat, waiters : Nat, init : BOOLEAN]
      /\ cond'.sem = cond.sem /\ cond'.wlock = cond.wlock /\ cond'.init = cond.init
      /\ cond'.waiters = cond.waiters + 1
  BY DEF CondRegister, PthreadTypes
<1>4. OwnsWhere'
  BY <1>2, <1>3, Zenon DEF CondRegister, OwnsWhere
<1>5. WaitersCounted'
  <2>1. Cardinality(Counted') = Cardinality(Counted) + 1
    BY <1>2, CountedChange, Zenon DEF CondRegister
  <2>2. CondUnits' = CondUnits /\ CondUnits \in Nat
    BY <1>3, Zenon DEF CondRegister, CondUnits, PthreadTypes
  <2>3. cond.waiters \in Nat /\ unposted \in Int /\ unposted' = unposted
    BY Zenon DEF PthreadTypes, CondRegister
  <2> QED
    BY <2>1, <2>2, <2>3, <1>3, Finite DEF WaitersCounted
<1>6. /\ DOMAIN sema' = DOMAIN sema /\ sema' = sema
      /\ sema' \in [DOMAIN sema -> [units : Nat, binary : BOOLEAN]]
      /\ unposted' \in Int /\ mutex' = mutex
  BY Zenon DEF CondRegister, PthreadTypes
<1>7. at'[t] \notin {"mutexCas", "condCas", "condPublish"}
  BY <1>2, Zenon
<1> QED
  BY <1>1, <1>2, <1>3, <1>4, <1>5, <1>6, <1>7, CountsMove, Zenon

(* A waiter takes the unit that was posted for it.                         *)
LEMMA CondWakePthreadInv ==
  ASSUME PthreadInv, NEW t \in PThread, CondWake(t)
  PROVE  PthreadInv'
<1> USE DEF PthreadInv
<1> DEFINE l == [NoLocals EXCEPT !.call = "wait"]
<1>1. l \in Locals /\ l.held = locals[t].held /\ l.held = FALSE
  <2>1. NoLocals \in Locals /\ NoLocals.held = FALSE /\ locals[t].held \in BOOLEAN
    BY LocalsTypes, Zenon DEF Locals
  <2>2. ~locals[t].held
    BY Zenon DEF CondWake, OwnsWhere
  <2>3. l \in Locals /\ l.held = FALSE
    BY <2>1, Zenon DEF Locals
  <2> QED
    BY <2>1, <2>2, <2>3, Zenon
<1>2. at' \in [PThread -> Places] /\ at'[t] = "mutexWait" /\ \A u \in PThread : u # t => at'[u] = at[u]
  BY Moved, Zenon DEF CondWake, Places
<1>3. locals' = [locals EXCEPT ![t] = l]
  BY Zenon DEF CondWake
<1> HIDE DEF l
<1>m. \A u \in PThread : u # t => locals'[u] = locals[u]
  BY <1>1, <1>3, LocalsSet, Zenon
<1>n. locals'[t] = l
  BY <1>1, <1>3, LocalsSet, Zenon
<1>4. OwnsWhere'
  BY <1>1, <1>2, <1>m, <1>n, Zenon DEF CondWake, OwnsWhere
<1>5. /\ DOMAIN sema' = DOMAIN sema /\ sema' \in [DOMAIN sema -> [units : Nat, binary : BOOLEAN]]
      /\ cond.sem \in DOMAIN sema /\ sema'[cond.sem].units = sema[cond.sem].units - 1
      /\ \A h \in DOMAIN sema : /\ sema'[h].binary = sema[h].binary
                                /\ h # cond.sem => sema'[h] = sema[h]
  BY DEF CondWake, HasUnit, TakeUnit, PthreadTypes
<1>6. cond' = cond /\ mutex' = mutex /\ unposted' = unposted
  BY Zenon DEF CondWake
<1>7. WaitersCounted'
  <2>1. Cardinality(Counted') = Cardinality(Counted) - 1
    BY <1>2, CountedChange, Zenon DEF CondWake
  <2>2. CondUnits' = CondUnits - 1
    BY <1>5, <1>6, Zenon DEF CondUnits
  <2>3. cond.waiters \in Nat /\ unposted \in Int /\ CondUnits \in Nat
    BY <1>5, Zenon DEF PthreadTypes, CondUnits
  <2> QED
    BY <2>1, <2>2, <2>3, <1>6, Finite DEF WaitersCounted
<1>8. at'[t] \notin {"mutexCas", "condCas", "condPublish"}
  BY <1>2, Zenon
<1>9. cond' \in [sem : Nat, wlock : Nat, waiters : Nat, init : BOOLEAN] /\ unposted' \in Int
  BY <1>6, Zenon DEF PthreadTypes
<1> QED
  BY <1>1, <1>2, <1>3, <1>4, <1>5, <1>6, <1>7, <1>8, <1>9, CountsMove, Zenon

(* A wait that timed out takes one off the count unless it is zero.        *)
LEMMA CondUndoPthreadInv ==
  ASSUME PthreadInv, NEW t \in PThread, CondUndo(t)
  PROVE  PthreadInv'
<1> USE DEF PthreadInv
<1> DEFINE l == [NoLocals EXCEPT !.call = "wait"]
<1>1. l \in Locals /\ l.held = locals[t].held /\ l.held = FALSE
  <2>1. NoLocals \in Locals /\ NoLocals.held = FALSE /\ locals[t].held \in BOOLEAN
    BY LocalsTypes, Zenon DEF Locals
  <2>2. ~locals[t].held
    BY Zenon DEF CondUndo, OwnsWhere
  <2>3. l \in Locals /\ l.held = FALSE
    BY <2>1, Zenon DEF Locals
  <2> QED
    BY <2>1, <2>2, <2>3, Zenon
<1>2. at' \in [PThread -> Places] /\ at'[t] = "mutexWait" /\ \A u \in PThread : u # t => at'[u] = at[u]
  BY Moved, Zenon DEF CondUndo, Places
<1>3. locals' = [locals EXCEPT ![t] = l]
  BY Zenon DEF CondUndo
<1> HIDE DEF l
<1>m. locals'[t] = l /\ \A u \in PThread : u # t => locals'[u] = locals[u]
  BY <1>1, <1>3, LocalsSet, Zenon
<1>5. /\ cond' \in [sem : Nat, wlock : Nat, waiters : Nat, init : BOOLEAN]
      /\ cond'.sem = cond.sem /\ cond'.wlock = cond.wlock /\ cond'.init = cond.init
      /\ cond'.waiters >= cond.waiters - 1
  BY DEF CondUndo, PthreadTypes
<1>i. cond'.init = cond.init
  BY <1>5, Zenon
<1>4. OwnsWhere'
  BY <1>1, <1>2, <1>m, <1>i, Zenon DEF CondUndo, OwnsWhere
<1>6. /\ DOMAIN sema' = DOMAIN sema /\ sema' = sema /\ mutex' = mutex /\ unposted' = unposted
      /\ sema' \in [DOMAIN sema -> [units : Nat, binary : BOOLEAN]] /\ unposted' \in Int
  BY Zenon DEF CondUndo, PthreadTypes
<1>7. WaitersCounted'
  <2>1. Cardinality(Counted') = Cardinality(Counted) - 1
    BY <1>2, CountedChange, Zenon DEF CondUndo
  <2>2. CondUnits' = CondUnits /\ CondUnits \in Nat
    BY <1>5, <1>6, Zenon DEF CondUnits, PthreadTypes
  <2>3. cond.waiters \in Nat /\ cond'.waiters \in Nat /\ unposted \in Int
    BY <1>5, Zenon DEF PthreadTypes
  <2> QED
    BY <2>1, <2>2, <2>3, <1>5, <1>6, Finite DEF WaitersCounted
<1>8. at'[t] \notin {"mutexCas", "condCas", "condPublish"}
  BY <1>2, Zenon
<1> QED
  BY <1>1, <1>2, <1>3, <1>4, <1>5, <1>6, <1>7, <1>8, CountsMove, Zenon

(* Posting to the condition variable adds a unit: its semaphore is not       *)
(* binary and is never full.                                                *)
LEMMA CondPosted ==
  ASSUME PthreadInv, cond.init, sema' = Post(sema, cond.sem), cond'.sem = cond.sem
  PROVE  /\ DOMAIN sema' = DOMAIN sema /\ sema' \in [DOMAIN sema -> [units : Nat, binary : BOOLEAN]]
         /\ \A h \in DOMAIN sema : /\ sema'[h].binary = sema[h].binary
                                   /\ h # cond.sem => sema'[h] = sema[h]
         /\ CondUnits' = CondUnits + 1
<1> USE DEF PthreadInv
<1>1. cond.sem \in DOMAIN sema /\ ~sema[cond.sem].binary
  BY Zenon DEF PublishedSound
<1>2. /\ DOMAIN sema' = DOMAIN sema /\ sema' \in [DOMAIN sema -> [units : Nat, binary : BOOLEAN]]
      /\ \A h \in DOMAIN sema : /\ sema'[h].binary = sema[h].binary
                                /\ h # cond.sem => sema'[h] = sema[h]
      /\ sema'[cond.sem].units = sema[cond.sem].units + 1
  BY <1>1, PostEffect, Zenon
<1> QED
  BY <1>1, <1>2, Zenon DEF CondUnits

(* pthread_cond_signal takes one waiter off the count and posts a unit.    *)
LEMMA CondSignalPthreadInv ==
  ASSUME PthreadInv, NEW t \in PThread, CondSignal(t)
  PROVE  PthreadInv'
<1> USE DEF PthreadInv
<1>1. locals[t] \in Locals /\ locals' = [locals EXCEPT ![t] = locals[t]] /\ locals' = locals
  BY LocalsTypes, Zenon DEF CondSignal, PthreadTypes
<1>2. /\ at' \in [PThread -> Places] /\ at'[t] = Back(t) /\ \A u \in PThread : u # t => at'[u] = at[u]
      /\ at'[t] = "held" \/ at'[t] = "idle"
      /\ at'[t] = "held" <=> locals[t].held
  <2>1. Back(t) \in Places /\ Move(t, Back(t))
    BY Zenon DEF CondSignal, Places, Back
  <2>2. at' \in [PThread -> Places] /\ at'[t] = Back(t) /\ \A u \in PThread : u # t => at'[u] = at[u]
    BY <2>1, Moved, Zenon
  <2> QED
    BY <2>2, Zenon DEF Back
<1>3. /\ cond' \in [sem : Nat, wlock : Nat, waiters : Nat, init : BOOLEAN]
      /\ cond'.sem = cond.sem /\ cond'.wlock = cond.wlock /\ cond'.init = cond.init
  BY DEF CondSignal, PthreadTypes
<1>4. OwnsWhere'
  BY <1>1, <1>2, <1>3 DEF CondSignal, OwnsWhere
<1>5. /\ DOMAIN sema' = DOMAIN sema /\ sema' \in [DOMAIN sema -> [units : Nat, binary : BOOLEAN]]
      /\ \A h \in DOMAIN sema : /\ sema'[h].binary = sema[h].binary
                                /\ h # cond.sem => sema'[h] = sema[h]
      /\ cond'.waiters + CondUnits' = cond.waiters + CondUnits
  <2>0. cond.init
    BY Zenon DEF CondSignal, OwnsWhere
  <2>1. CASE cond.waiters > 0
    <3>1. cond'.waiters = cond.waiters - 1 /\ sema' = Post(sema, cond.sem)
      BY <2>1, Zenon DEF CondSignal, PthreadTypes
    <3>2. /\ DOMAIN sema' = DOMAIN sema /\ sema' \in [DOMAIN sema -> [units : Nat, binary : BOOLEAN]]
          /\ \A h \in DOMAIN sema : /\ sema'[h].binary = sema[h].binary
                                    /\ h # cond.sem => sema'[h] = sema[h]
          /\ CondUnits' = CondUnits + 1
      BY <2>0, <3>1, <1>3, CondPosted, Zenon
    <3>3. CondUnits \in Nat /\ cond.waiters \in Nat
      BY Zenon DEF CondUnits, PthreadTypes
    <3>4. cond'.waiters + CondUnits' = cond.waiters + CondUnits
      BY <3>1, <3>2, <3>3
    <3> QED
      BY <3>2, <3>4, Zenon
  <2>2. CASE ~(cond.waiters > 0)
    BY <2>2, Zenon DEF CondSignal, CondUnits, PthreadTypes
  <2> QED
    BY <2>1, <2>2, Zenon
<1>6. mutex' = mutex /\ unposted' = unposted /\ unposted' \in Int
  BY Zenon DEF CondSignal, PthreadTypes
<1>7. WaitersCounted'
  <2>1. Counted' = Counted
    BY <1>2, CountedChange DEF CondSignal
  <2> QED
    BY <2>1, <1>5, <1>6, Zenon DEF WaitersCounted
<1>8. at'[t] \notin {"mutexCas", "condCas", "condPublish"}
  BY <1>2, Zenon
<1> QED
  BY <1>1, <1>2, <1>3, <1>4, <1>5, <1>6, <1>7, <1>8, CountsMove, Zenon

(* pthread_cond_broadcast takes all of them off.                           *)
LEMMA CondBroadcastPthreadInv ==
  ASSUME PthreadInv, NEW t \in PThread, CondBroadcast(t)
  PROVE  PthreadInv'
<1> USE DEF PthreadInv
<1> DEFINE l == [locals[t] EXCEPT !.count = cond.waiters]
<1>1. l \in Locals /\ l.held = locals[t].held
  <2>1. locals[t] \in Locals /\ cond.waiters \in Nat
    BY LocalsTypes, Zenon DEF PthreadTypes
  <2> QED
    BY <2>1, Zenon DEF Locals
<1>2. at' \in [PThread -> Places] /\ at'[t] = "posts" /\ \A u \in PThread : u # t => at'[u] = at[u]
  BY Moved, Zenon DEF CondBroadcast, Places
<1>3. locals' = [locals EXCEPT ![t] = l]
  BY Zenon DEF CondBroadcast
<1> HIDE DEF l
<1>m. locals'[t] = l /\ \A u \in PThread : u # t => locals'[u] = locals[u]
  BY <1>1, <1>3, LocalsSet, Zenon
<1>4. /\ cond' \in [sem : Nat, wlock : Nat, waiters : Nat, init : BOOLEAN]
      /\ cond'.sem = cond.sem /\ cond'.wlock = cond.wlock /\ cond'.init = cond.init
      /\ cond'.waiters = 0
  BY Zenon DEF CondBroadcast, PthreadTypes
<1>5. OwnsWhere'
  BY <1>1, <1>2, <1>m, <1>4 DEF CondBroadcast, OwnsWhere
<1>6. /\ DOMAIN sema' = DOMAIN sema /\ sema' = sema /\ mutex' = mutex
      /\ unposted' = unposted + cond.waiters /\ unposted' \in Int
      /\ sema' \in [DOMAIN sema -> [units : Nat, binary : BOOLEAN]]
  BY DEF CondBroadcast, PthreadTypes
<1>7. WaitersCounted'
  <2>1. Counted' = Counted
    BY <1>2, CountedChange DEF CondBroadcast
  <2>2. CondUnits' = CondUnits /\ CondUnits \in Nat
    BY <1>4, <1>6, Zenon DEF CondUnits, PthreadTypes
  <2>3. cond.waiters \in Nat /\ unposted \in Int
    BY Zenon DEF PthreadTypes
  <2>4. cond'.waiters + CondUnits' + unposted' = cond.waiters + CondUnits + unposted
    BY <2>2, <2>3, <1>4, <1>6
  <2> QED
    BY <2>1, <2>4, Zenon DEF WaitersCounted
<1>8. at'[t] \notin {"mutexCas", "condCas", "condPublish"}
  BY <1>2, Zenon
<1> QED
  BY <1>1, <1>2, <1>3, <1>4, <1>5, <1>6, <1>7, <1>8, CountsMove, Zenon

(* A unit is posted for each of them.                                      *)
LEMMA CondPostPthreadInv ==
  ASSUME PthreadInv, NEW t \in PThread, CondPost(t)
  PROVE  PthreadInv'
<1> USE DEF PthreadInv
<1>0. at[t] = "posts" /\ cond.init /\ locals[t] \in Locals
  BY LocalsTypes, Zenon DEF CondPost, OwnsWhere
<1>6. /\ cond' = cond /\ mutex' = mutex
      /\ cond' \in [sem : Nat, wlock : Nat, waiters : Nat, init : BOOLEAN]
  BY Zenon DEF CondPost, PthreadTypes
<1>1. CASE locals[t].count > 0
  <2> DEFINE l == [locals[t] EXCEPT !.count = @ - 1]
  <2>1. l \in Locals /\ l.held = locals[t].held
    BY <1>0, <1>1 DEF Locals
  <2>2. locals' = [locals EXCEPT ![t] = l]
    BY <1>1, Zenon DEF CondPost
  <2> HIDE DEF l
  <2>3. locals'[t] = l /\ \A u \in PThread : u # t => locals'[u] = locals[u]
    BY <2>1, <2>2, LocalsSet, Zenon
  <2>4. /\ at' = at /\ at' \in [PThread -> Places] /\ sema' = Post(sema, cond.sem)
        /\ unposted' = unposted - 1 /\ unposted \in Int /\ unposted' \in Int
    BY <1>1 DEF CondPost, PthreadTypes
  <2>5. OwnsWhere'
    BY <1>0, <1>6, <2>1, <2>3, <2>4 DEF OwnsWhere
  <2>6. /\ DOMAIN sema' = DOMAIN sema /\ sema' \in [DOMAIN sema -> [units : Nat, binary : BOOLEAN]]
        /\ \A h \in DOMAIN sema : /\ sema'[h].binary = sema[h].binary
                                  /\ h # cond.sem => sema'[h] = sema[h]
        /\ CondUnits' = CondUnits + 1
    BY <1>0, <1>6, <2>4, CondPosted, Zenon
  <2>7. WaitersCounted'
    <3>1. Counted' = Counted
      BY <2>4, Zenon DEF Counted
    <3>2. CondUnits \in Nat /\ cond.waiters \in Nat
      BY Zenon DEF CondUnits, PthreadTypes
    <3>3. CondUnits' = CondUnits + 1 /\ unposted' = unposted - 1 /\ unposted \in Int
      BY <2>4, <2>6, Zenon
    <3>4. cond'.waiters + CondUnits' + unposted' = cond.waiters + CondUnits + unposted
      BY <3>2, <3>3, <1>6
    <3> QED
      BY <3>1, <3>4, Zenon DEF WaitersCounted
  <2>8. at'[t] \notin {"mutexCas", "condCas", "condPublish"}
    BY <1>0, <2>4, Zenon
  <2> QED
    BY <1>6, <2>1, <2>2, <2>4, <2>5, <2>6, <2>7, <2>8, CountsMove, Zenon
<1>2. CASE ~(locals[t].count > 0)
  <2>1. Move(t, Back(t)) /\ UNCHANGED <<mutex, cond, sema, locals, unposted>>
    BY <1>2, Zenon DEF CondPost
  <2>2. Back(t) \in Places /\ Back(t) \in {"held", "idle"}
    BY Zenon DEF Places, Back
  <2>3. at'[t] = Back(t) /\ \A u \in PThread : u # t => at'[u] = at[u]
    BY <2>1, <2>2, Moved, Zenon
  <2>4. OwnsWhere'
    BY <1>0, <2>1, <2>2, <2>3, Zenon DEF OwnsWhere, Back
  <2>5. at' = [at EXCEPT ![t] = at'[t]]
    BY <2>1, <2>3, Zenon DEF Move
  <2>6. mutex' \in [fd : Nat, init : BOOLEAN]
    BY <1>6, Zenon DEF PthreadTypes
  <2> QED
    BY <1>0, <2>1, <2>2, <2>3, <2>4, <2>5, <2>6, OnlyMoves, Zenon
<1> QED
  BY <1>1, <1>2, Zenon

-----------------------------------------------------------------------------
(* Steps that create, publish and close semaphores.                         *)

(* Creating a semaphore leaves the open ones alone.                          *)
LEMMA Created ==
  ASSUME PthreadTypes, NEW h \in Nat \ {NoFd}, NEW units \in Nat, NEW binary \in BOOLEAN,
         h \notin DOMAIN sema, sema' = WithSema(sema, h, units, binary)
  PROVE  /\ DOMAIN sema' = DOMAIN sema \cup {h} /\ DOMAIN sema' \subseteq Nat \ {NoFd}
         /\ sema' \in [DOMAIN sema' -> [units : Nat, binary : BOOLEAN]]
         /\ sema'[h].units = units /\ sema'[h].binary = binary
         /\ \A x \in DOMAIN sema : sema'[x] = sema[x]
BY Zenon DEF PthreadTypes, WithSema

(* A step that changes nothing the invariant is about.                       *)
LEMMA Stutters ==
  ASSUME PthreadInv, UNCHANGED <<mutex, cond, sema, at, locals, unposted>>
  PROVE  PthreadInv'
<1> USE DEF PthreadInv
<1>1. PthreadTypes'
  BY Zenon DEF PthreadTypes
<1>2. OwnsWhere'
  BY Zenon DEF OwnsWhere
<1>3. PrivateSound'
  <2>1. Published' = Published /\ \A t \in PThread : Private(t)' = Private(t)
    BY Zenon DEF Private, Published
  <2> QED
    BY <2>1, Zenon DEF PrivateSound
<1>4. PublishedSound'
  BY Zenon DEF PublishedSound, Owners
<1>5. WaitersCounted'
  BY Zenon DEF WaitersCounted, Counted, CondUnits
<1> QED
  BY <1>1, <1>2, <1>3, <1>4, <1>5, Zenon

(* A step that opens and closes other semaphores than the published ones     *)
(* keeps what is said of those, and the units of the condition variable.      *)
LEMMA OthersOpened ==
  ASSUME PthreadInv, UNCHANGED <<mutex, cond>>, Owners' = Owners,
         \A x \in {mutex.fd, cond.sem, cond.wlock} : x \in DOMAIN sema =>
            x \in DOMAIN sema' /\ sema'[x] = sema[x],
         cond.sem = NoFd => NoFd \notin DOMAIN sema'
  PROVE  PublishedSound' /\ CondUnits' = CondUnits
<1> USE DEF PthreadInv
<1>1. PublishedSound'
  BY Zenon DEF PublishedSound
<1>2. CondUnits' = CondUnits
  BY Zenon DEF CondUnits, PublishedSound, PthreadTypes
<1> QED
  BY <1>1, <1>2, Zenon

(* The first use of a mutex creates its semaphore.                         *)
LEMMA MutexEnsurePthreadInv ==
  ASSUME PthreadInv, NEW t \in PThread, MutexEnsure(t)
  PROVE  PthreadInv'
<1> USE DEF PthreadInv
<1>1. CASE mutex.init /\ Move(t, "mutexWait") /\ UNCHANGED <<sema, locals>>
  <2>1. OwnsWhere' /\ at'[t] = "mutexWait"
    BY <1>1, Zenon DEF MutexEnsure, Move, PthreadTypes, OwnsWhere
  <2> QED
    BY <1>1, <2>1, OnlyMoves, Zenon DEF MutexEnsure, Move, Places, PthreadTypes
<1>2. CASE ~mutex.init /\ FreeHandles = {} /\ UNCHANGED <<sema, locals, at>>
  BY <1>2, Stutters, Zenon DEF MutexEnsure
<1>3. CASE /\ ~mutex.init /\ FreeHandles # {}
           /\ sema' = WithSema(sema, Min(FreeHandles), 1, TRUE)
           /\ locals' = [locals EXCEPT ![t].cand = Min(FreeHandles)]
           /\ Move(t, "mutexCas")
  <2> DEFINE h == Min(FreeHandles)
             l == [locals[t] EXCEPT !.cand = h]
  <2>h. h \in Nat \ {NoFd} /\ h \notin DOMAIN sema
    BY <1>3, FreshHandle, Zenon
  <2>1. l \in Locals /\ l.held = locals[t].held /\ l.cand = h
    <3>1. locals[t] \in Locals
      BY LocalsTypes, Zenon
    <3> QED
      BY <2>h, <3>1, Zenon DEF Locals
  <2>2. locals' = [locals EXCEPT ![t] = l]
    BY <1>3, Zenon
  <2>4. sema' = WithSema(sema, h, 1, TRUE)
    BY <1>3, Zenon
  <2> HIDE DEF l, h
  <2>3. /\ locals' \in [PThread -> Locals] /\ locals'[t] = l
        /\ \A u \in PThread : u # t => locals'[u] = locals[u]
    BY <2>1, <2>2, LocalsSet, Zenon
  <2>5. /\ DOMAIN sema' = DOMAIN sema \cup {h} /\ DOMAIN sema' \subseteq Nat \ {NoFd}
        /\ sema' \in [DOMAIN sema' -> [units : Nat, binary : BOOLEAN]]
        /\ sema'[h].units = 1 /\ sema'[h].binary = TRUE
        /\ \A x \in DOMAIN sema : sema'[x] = sema[x]
    <3>1. TRUE \in BOOLEAN
      BY Zenon
    <3> QED
      BY <2>h, <2>4, <3>1, Created, Zenon
  <2>6. at' \in [PThread -> Places] /\ at'[t] = "mutexCas" /\ \A u \in PThread : u # t => at'[u] = at[u]
    BY <1>3, Moved, Zenon DEF Places
  <2>7. mutex' = mutex /\ cond' = cond /\ unposted' = unposted /\ at[t] = "idle"
    BY Zenon DEF MutexEnsure
  <2>8. PthreadTypes'
    BY <2>3, <2>5, <2>6, <2>7, Zenon DEF PthreadTypes, Locals
  <2>9. OwnsWhere'
    BY <2>1, <2>3, <2>6, <2>7, Zenon DEF OwnsWhere
  <2>10. Owners' = Owners /\ Counted' = Counted
    BY <2>1, <2>3, <2>6, <2>7, OwnersChange, CountedChange
  <2>11. PublishedSound' /\ CondUnits' = CondUnits
    BY <2>5, <2>7, <2>10, OthersOpened, Zenon
  <2>12. WaitersCounted'
    BY <2>7, <2>10, <2>11, Zenon DEF WaitersCounted
  <2>13. PrivateSound'
    <3>1. Published' = Published /\ Published \subseteq DOMAIN sema
      BY <2>7, Zenon DEF Published, PublishedSound
    <3>2. /\ Private(t)' = {h} /\ Private(t) = {}
          /\ \A u \in PThread : u # t => Private(u)' = Private(u)
      BY <2>1, <2>3, <2>6, <2>7, Zenon DEF Private
    <3>3. \A u \in PThread : Private(u) \subseteq DOMAIN sema
      BY Zenon DEF PrivateSound
    <3>4. ASSUME NEW u \in PThread
          PROVE  /\ \A x \in Private(u)' : /\ x \in DOMAIN sema' /\ x \notin Published'
                                           /\ sema'[x].binary /\ sema'[x].units = 1
                 /\ at'[u] = "condCas" => /\ locals'[u].cand \in DOMAIN sema' /\ locals'[u].cand # cond'.sem
                                          /\ ~sema'[locals'[u].cand].binary
                 /\ at'[u] = "condPublish" /\ locals'[u].cand # NoFd => cond'.sem # NoFd
      <4>1. CASE u = t
        BY <4>1, <2>h, <2>5, <2>6, <3>1, <3>2, Zenon
      <4>2. CASE u # t
        BY <4>2, <2>3, <2>5, <2>6, <2>7, <3>1, <3>2 DEF PrivateSound
      <4> QED
        BY <4>1, <4>2, Zenon
    <3>5. ASSUME NEW u \in PThread, NEW v \in PThread, u # v
          PROVE  /\ Private(u)' \cap Private(v)' = {}
                 /\ at'[u] = "condCas" /\ at'[v] = "condCas" => locals'[u].cand # locals'[v].cand
      <4>1. Private(u) \cap Private(v) = {}
        BY <3>5, Zenon DEF PrivateSound
      <4>2. Private(u)' \cap Private(v)' = {}
        BY <4>1, <3>5, <3>2, <3>3, <2>h
      <4>3. at'[u] = "condCas" /\ at'[v] = "condCas" => locals'[u].cand # locals'[v].cand
        BY <3>5, <2>3, <2>6 DEF PrivateSound
      <4> QED
        BY <4>2, <4>3, Zenon
    <3> QED
      BY <3>4, <3>5, Zenon DEF PrivateSound
  <2> QED
    BY <2>8, <2>9, <2>11, <2>12, <2>13, Zenon
<1> QED
  BY <1>1, <1>2, <1>3, Zenon DEF MutexEnsure

(* Closing private semaphores of one thread, or publishing them, is nothing   *)
(* to the private ones of the others.                                        *)
LEMMA OthersPrivate ==
  ASSUME PthreadInv, NEW t \in PThread,
         \A u \in PThread : u # t => at'[u] = at[u] /\ locals'[u] = locals[u],
         at'[t] \notin {"mutexCas", "condCas"},
         at'[t] = "condPublish" /\ locals'[t].cand # NoFd =>
            /\ cond'.sem # NoFd /\ at[t] = "condCas"
            /\ locals'[t].cand2 = locals[t].cand2
            /\ locals'[t].cand2 \in DOMAIN sema' /\ sema'[locals'[t].cand2] = sema[locals[t].cand2]
            /\ Published' = Published,
         Published' \subseteq Published \cup Private(t),
         cond.sem # NoFd => cond'.sem = cond.sem,
         cond'.sem = cond.sem \/ (at[t] = "condCas" /\ cond'.sem = locals[t].cand),
         DOMAIN sema' \subseteq DOMAIN sema,
         \A x \in DOMAIN sema \ DOMAIN sema' :
            x \in Private(t) \/ (at[t] = "condCas" /\ x = locals[t].cand),
         \A x \in DOMAIN sema' : sema'[x] = sema[x]
  PROVE  PrivateSound'
<1> USE DEF PthreadInv
<1>1. \A u \in PThread : u # t => Private(u)' = Private(u)
  BY Zenon DEF Private
<1>2. Private(t)' \subseteq Private(t)
  BY Zenon DEF Private
<1>3. \A u \in PThread : u # t => Private(u) \cap Private(t) = {}
  BY Zenon DEF PrivateSound
<1>4. ASSUME NEW u \in PThread, u # t
      PROVE  /\ \A x \in Private(u)' : /\ x \in DOMAIN sema' /\ x \notin Published'
                                       /\ sema'[x].binary /\ sema'[x].units = 1
             /\ at'[u] = "condCas" => /\ locals'[u].cand \in DOMAIN sema' /\ locals'[u].cand # cond'.sem
                                      /\ ~sema'[locals'[u].cand].binary
             /\ at'[u] = "condPublish" /\ locals'[u].cand # NoFd => cond'.sem # NoFd
  <2>1. \A x \in Private(u) : /\ x \in DOMAIN sema /\ x \notin Published /\ sema[x].binary
                              /\ sema[x].units = 1
    BY DEF PrivateSound
  <2>2. at[t] = "condCas" => locals[t].cand \in DOMAIN sema /\ ~sema[locals[t].cand].binary
    BY Zenon DEF PrivateSound
  <2>3. \A x \in Private(u)' : /\ x \in DOMAIN sema' /\ x \notin Published'
                               /\ sema'[x].binary /\ sema'[x].units = 1
    BY <1>1, <1>3, <1>4, <2>1, <2>2
  <2>4. ASSUME at'[u] = "condCas"
        PROVE  /\ locals'[u].cand \in DOMAIN sema' /\ locals'[u].cand # cond'.sem
               /\ ~sema'[locals'[u].cand].binary
    <3>1. /\ at[u] = "condCas" /\ locals'[u].cand = locals[u].cand
          /\ locals[u].cand \in DOMAIN sema /\ locals[u].cand # cond.sem
          /\ ~sema[locals[u].cand].binary
      BY <2>4, <1>4 DEF PrivateSound
    <3>2. at[t] = "condCas" => locals[u].cand # locals[t].cand
      BY <3>1, <1>4, Zenon DEF PrivateSound
    <3>3. \A x \in Private(t) : sema[x].binary
      BY Zenon DEF PrivateSound
    <3> QED
      BY <3>1, <3>2, <3>3
  <2>5. at'[u] = "condPublish" /\ locals'[u].cand # NoFd => cond'.sem # NoFd
    BY <1>4 DEF PrivateSound
  <2> QED
    BY <2>3, <2>4, <2>5, Zenon
<1>5. /\ \A x \in Private(t)' : /\ x \in DOMAIN sema' /\ x \notin Published'
                                /\ sema'[x].binary /\ sema'[x].units = 1
      /\ at'[t] = "condCas" => /\ locals'[t].cand \in DOMAIN sema' /\ locals'[t].cand # cond'.sem
                               /\ ~sema'[locals'[t].cand].binary
      /\ at'[t] = "condPublish" /\ locals'[t].cand # NoFd => cond'.sem # NoFd
  <2>1. ASSUME NEW x \in Private(t)'
        PROVE  /\ x \in DOMAIN sema' /\ x \notin Published'
               /\ sema'[x].binary /\ sema'[x].units = 1
    <3>1. x = locals'[t].cand2 /\ at'[t] = "condPublish" /\ locals'[t].cand # NoFd
      BY Zenon DEF Private
    <3>2. /\ x \in DOMAIN sema /\ x \notin Published
          /\ sema[x].binary /\ sema[x].units = 1
      BY <1>2, Zenon DEF PrivateSound
    <3> QED
      BY <3>1, <3>2, Zenon
  <2> QED
    BY <2>1, Zenon
<1>6. ASSUME NEW u \in PThread, NEW v \in PThread, u # v
      PROVE  /\ Private(u)' \cap Private(v)' = {}
             /\ at'[u] = "condCas" /\ at'[v] = "condCas" => locals'[u].cand # locals'[v].cand
  <2>1. /\ Private(u) \cap Private(v) = {}
        /\ at[u] = "condCas" /\ at[v] = "condCas" => locals[u].cand # locals[v].cand
    BY <1>6, Zenon DEF PrivateSound
  <2>2. Private(u)' \subseteq Private(u) /\ Private(v)' \subseteq Private(v)
    BY <1>1, <1>2, Zenon
  <2>3. Private(u)' \cap Private(v)' = {}
    BY <2>1, <2>2, Zenon
  <2> QED
    BY <2>1, <2>3, Zenon
<1> QED
  BY <1>4, <1>5, <1>6, Zenon DEF PrivateSound

(* One thread installs its semaphore, and the others close theirs.         *)
LEMMA MutexCasPthreadInv ==
  ASSUME PthreadInv, NEW t \in PThread, MutexCas(t)
  PROVE  PthreadInv'
<1> USE DEF PthreadInv
<1> DEFINE l == [locals[t] EXCEPT !.cand = NoFd]
           c == locals[t].cand
<1>1. l \in Locals /\ l.held = locals[t].held
  BY LocalsTypes, Zenon DEF Locals, NoFd
<1>2. locals' = [locals EXCEPT ![t] = l]
  BY Zenon DEF MutexCas
<1> HIDE DEF l
<1>3. /\ locals' \in [PThread -> Locals] /\ locals'[t] = l
      /\ \A u \in PThread : u # t => locals'[u] = locals[u]
  BY <1>1, <1>2, LocalsSet, Zenon
<1>4. at' \in [PThread -> Places] /\ at'[t] = "mutexStore" /\ \A u \in PThread : u # t => at'[u] = at[u]
  BY Moved, Zenon DEF MutexCas, Places
<1>5. cond' = cond /\ unposted' = unposted /\ at[t] = "mutexCas"
  BY Zenon DEF MutexCas
<1>6. OwnsWhere'
  BY <1>1, <1>3, <1>4, <1>5, Zenon DEF OwnsWhere
<1>7. Owners' = Owners /\ Counted' = Counted
  BY <1>1, <1>3, <1>4, <1>5, OwnersChange, CountedChange
<1>8. Private(t) = {c} /\ c \in DOMAIN sema /\ c \notin Published /\ sema[c].binary /\ sema[c].units = 1
  BY <1>5, Zenon DEF Private, PrivateSound
<1>9. c \in Nat /\ c # NoFd
  BY <1>8, Zenon DEF PthreadTypes
<1> HIDE DEF c
<1>10. CASE mutex.fd = NoFd
  <2>1. /\ mutex'.fd = c /\ mutex' \in [fd : Nat, init : BOOLEAN] /\ sema' = sema
    BY <1>9, <1>10, Zenon DEF MutexCas, PthreadTypes, c
  <2>2. PthreadTypes'
    BY <1>3, <1>4, <1>5, <2>1, Zenon DEF PthreadTypes, Locals
  <2>3. PrivateSound'
    <3>1. Published' \subseteq Published \cup Private(t)
      BY <1>5, <1>8, <2>1, Zenon DEF Published
    <3> QED
      BY <3>1, <1>3, <1>4, <1>5, <2>1, OthersPrivate, Zenon
  <2>4. PublishedSound'
    <3>1. Owners' = {} /\ Cardinality(Owners') = 0
      BY <1>7, <1>10, FS_EmptySet, Zenon DEF PublishedSound
    <3>2. c # cond.wlock
      BY <1>8, <1>9, Zenon DEF Published
    <3>3. sema'[mutex'.fd].units + Cardinality(Owners') = 1
      BY <1>8, <2>1, <3>1
    <3> QED
      BY <1>5, <1>8, <1>9, <2>1, <3>1, <3>2, <3>3, Zenon DEF PublishedSound
  <2>5. WaitersCounted'
    BY <1>5, <1>7, <2>1, Zenon DEF WaitersCounted, CondUnits
  <2> QED
    BY <1>6, <2>2, <2>3, <2>4, <2>5, Zenon
<1>11. CASE mutex.fd # NoFd
  <2>1. mutex' = mutex /\ sema' = CloseSema(sema, c)
    BY <1>11, Zenon DEF MutexCas, c
  <2>2. /\ DOMAIN sema' = DOMAIN sema \ {c} /\ sema' \in [DOMAIN sema' -> [units : Nat, binary : BOOLEAN]]
        /\ \A x \in DOMAIN sema' : sema'[x] = sema[x]
    BY <2>1, Zenon DEF CloseSema, PthreadTypes
  <2>3. PthreadTypes'
    BY <1>3, <1>4, <1>5, <2>1, <2>2, Zenon DEF PthreadTypes, Locals
  <2>4. PrivateSound'
    <3>1. Published' \subseteq Published \cup Private(t)
      BY <1>5, <2>1, Zenon DEF Published
    <3> QED
      BY <3>1, <1>3, <1>4, <1>5, <1>8, <2>1, <2>2, OthersPrivate, Zenon
  <2>5. PublishedSound' /\ CondUnits' = CondUnits
    <3>1. c # mutex.fd /\ c # cond.wlock /\ c # cond.sem
      BY <1>8, <1>9, Zenon DEF Published, PublishedSound
    <3>2. NoFd \notin DOMAIN sema'
      BY <2>3, Zenon DEF PthreadTypes
    <3> QED
      BY <1>5, <1>7, <2>1, <2>2, <3>1, <3>2, OthersOpened, Zenon
  <2>6. WaitersCounted'
    BY <1>5, <1>7, <2>1, <2>5, Zenon DEF WaitersCounted
  <2> QED
    BY <1>6, <2>3, <2>4, <2>5, <2>6, Zenon
<1> QED
  BY <1>10, <1>11, Zenon

(* The same for the semaphores of a condition variable.                    *)
LEMMA CondCasPthreadInv ==
  ASSUME PthreadInv, NEW t \in PThread, CondCas(t)
  PROVE  PthreadInv'
<1> USE DEF PthreadInv
<1> DEFINE c == locals[t].cand
           d == locals[t].cand2
<1>1. at' \in [PThread -> Places] /\ at'[t] = "condPublish" /\ \A u \in PThread : u # t => at'[u] = at[u]
  BY Moved, Zenon DEF CondCas, Places
<1>2. mutex' = mutex /\ unposted' = unposted /\ at[t] = "condCas" /\ locals[t] \in Locals
  BY LocalsTypes, Zenon DEF CondCas
<1>3. /\ c \in DOMAIN sema /\ ~sema[c].binary /\ c # cond.sem
      /\ d \in DOMAIN sema /\ d \notin Published /\ sema[d].binary
      /\ Private(t) = {d}
  BY <1>2, Zenon DEF Private, PrivateSound
<1>4. c # NoFd /\ d # NoFd /\ c \in Nat /\ d \in Nat /\ c # d
  BY <1>3, Zenon DEF PthreadTypes
<1>5. CASE cond.sem = NoFd
  <2>1. /\ cond' \in [sem : Nat, wlock : Nat, waiters : Nat, init : BOOLEAN]
        /\ cond'.sem = c /\ cond'.wlock = cond.wlock /\ cond'.waiters = cond.waiters
        /\ cond'.init = cond.init /\ sema' = sema /\ locals' = locals
    BY <1>4, <1>5, Zenon DEF CondCas, PthreadTypes
  <2> HIDE DEF c, d
  <2>2. PthreadTypes'
    BY <1>1, <1>2, <2>1, Zenon DEF PthreadTypes
  <2>3. OwnsWhere'
    BY <1>1, <1>2, <2>1, Zenon DEF OwnsWhere
  <2>4. PrivateSound'
    <3>1. Published' = Published
      BY <1>2, <2>1, Zenon DEF Published
    <3>2. d \in DOMAIN sema' /\ d = locals[t].cand2 /\ c = locals[t].cand
      BY <1>3, <2>1, Zenon DEF c, d
    <3> QED
      BY <1>1, <1>2, <1>4, <1>5, <2>1, <3>1, <3>2, OthersPrivate, Zenon
  <2>5. Owners' = Owners /\ Counted' = Counted
    BY <1>1, <1>2, <2>1, CountedChange DEF Owners
  <2>6. PublishedSound'
    BY <1>2, <1>3, <1>4, <2>1, <2>5, Zenon DEF PublishedSound
  <2>7. WaitersCounted'
    <3>1. CondUnits = 0
      BY <1>5, Zenon DEF CondUnits, PthreadTypes
    <3>2. CondUnits' \in Nat
      BY <1>3, <2>1, Zenon DEF CondUnits, PthreadTypes
    <3>3. cond.waiters \in Nat /\ unposted \in Int
      BY Zenon DEF PthreadTypes
    <3> QED
      BY <1>2, <2>1, <2>5, <3>1, <3>2, <3>3, Finite DEF WaitersCounted
  <2> QED
    BY <2>2, <2>3, <2>4, <2>6, <2>7, Zenon
<1>6. CASE cond.sem # NoFd
  <2> DEFINE l == [locals[t] EXCEPT !.cand = NoFd, !.cand2 = NoFd]
  <2>1. l \in Locals /\ l.held = locals[t].held /\ l.call = locals[t].call /\ l.cand = NoFd
    BY <1>2, Zenon DEF Locals, NoFd
  <2>2. cond' = cond /\ locals' = [locals EXCEPT ![t] = l] /\ sema' = CloseSema(CloseSema(sema, c), d)
    BY <1>6, Zenon DEF CondCas
  <2> HIDE DEF l, c, d
  <2>3. /\ locals' \in [PThread -> Locals] /\ locals'[t] = l
        /\ \A u \in PThread : u # t => locals'[u] = locals[u]
    BY <2>1, <2>2, LocalsSet, Zenon
  <2>4. /\ DOMAIN sema' = DOMAIN sema \ {c, d}
        /\ sema' \in [DOMAIN sema' -> [units : Nat, binary : BOOLEAN]]
        /\ \A x \in DOMAIN sema' : sema'[x] = sema[x]
    BY <2>2, Zenon DEF CloseSema, PthreadTypes
  <2>5. PthreadTypes'
    BY <1>1, <1>2, <2>2, <2>3, <2>4, Zenon DEF PthreadTypes, Locals
  <2>6. OwnsWhere'
    BY <1>1, <1>2, <2>1, <2>2, <2>3, Zenon DEF OwnsWhere
  <2>7. PrivateSound'
    <3>1. Published' = Published
      BY <1>2, <2>2, Zenon DEF Published
    <3>2. c = locals[t].cand
      BY Zenon DEF c
    <3> QED
      BY <1>1, <1>2, <1>3, <2>1, <2>2, <2>3, <2>4, <3>1, <3>2, OthersPrivate
  <2>8. Owners' = Owners /\ Counted' = Counted
    BY <1>1, <1>2, <2>1, <2>3, OwnersChange, CountedChange
  <2>9. PublishedSound' /\ CondUnits' = CondUnits
    <3>1. \A x \in {mutex.fd, cond.sem, cond.wlock} : x \in DOMAIN sema => x # c /\ x # d
      BY <1>3, <1>4, Zenon DEF Published, PublishedSound
    <3>2. NoFd \notin DOMAIN sema'
      BY <2>5, Zenon DEF PthreadTypes
    <3> QED
      BY <1>2, <2>2, <2>4, <2>8, <3>1, <3>2, OthersOpened, Zenon
  <2>10. WaitersCounted'
    BY <1>2, <2>2, <2>8, <2>9, Zenon DEF WaitersCounted
  <2> QED
    BY <2>5, <2>6, <2>7, <2>9, <2>10, Zenon
<1> QED
  BY <1>5, <1>6, Zenon

(* The winner publishes both semaphores of the condition variable.         *)
LEMMA CondPublishPthreadInv ==
  ASSUME PthreadInv, NEW t \in PThread, CondPublish(t)
  PROVE  PthreadInv'
<1> USE DEF PthreadInv
<1> DEFINE d == locals[t].cand2
<1>1. /\ at[t] = "condPublish" /\ locals[t] \in Locals /\ mutex' = mutex /\ sema' = sema
      /\ unposted' = unposted /\ Move(t, locals[t].call)
  BY LocalsTypes, Zenon DEF CondPublish
<1>2. /\ locals[t].call \in {"wait", "signal", "broadcast"}
      /\ locals[t].call = "wait" => locals[t].held
  BY <1>1, Zenon DEF OwnsWhere, Locals
<1>3. /\ at' \in [PThread -> Places] /\ at'[t] = locals[t].call
      /\ \A u \in PThread : u # t => at'[u] = at[u]
  <2>1. locals[t].call \in Places
    BY <1>2, Zenon DEF Places
  <2> QED
    BY <1>1, <2>1, Moved, Zenon
<1>4. CASE locals[t].cand = NoFd
  <2>1. cond' = cond /\ locals' = locals /\ cond.init
    BY <1>4, Zenon DEF CondPublish
  <2>2. OwnsWhere'
    BY <1>1, <1>2, <1>3, <2>1, Zenon DEF OwnsWhere
  <2>3. at' = [at EXCEPT ![t] = at'[t]]
    BY <1>1, <1>3, Zenon DEF Move
  <2>4. mutex' \in [fd : Nat, init : BOOLEAN] /\ at'[t] \in Places
    BY <1>1, <1>3, Zenon DEF PthreadTypes
  <2>5. /\ at'[t] \notin {"mutexCas", "condCas", "condPublish"}
        /\ at[t] \in {"release", "sleep", "undo"} <=> at'[t] \in {"release", "sleep", "undo"}
    BY <1>1, <1>2, <1>3, Zenon
  <2> QED
    BY <1>1, <2>1, <2>2, <2>3, <2>4, <2>5, OnlyMoves, Zenon
<1>5. CASE locals[t].cand # NoFd
  <2> DEFINE l == [locals[t] EXCEPT !.cand = NoFd, !.cand2 = NoFd]
  <2>1. l \in Locals /\ l.held = locals[t].held /\ l.call = locals[t].call /\ l.cand = NoFd
    BY <1>1, Zenon DEF Locals, NoFd
  <2>2. locals' = [locals EXCEPT ![t] = l] /\ cond' = [cond EXCEPT !.wlock = d, !.init = TRUE]
    BY <1>5, Zenon DEF CondPublish
  <2>3. /\ d \in DOMAIN sema /\ d \notin Published /\ sema[d].binary
        /\ Private(t) = {d} /\ cond.sem # NoFd
    BY <1>1, <1>5, Zenon DEF Private, PrivateSound
  <2>4. d # NoFd /\ d \in Nat
    BY <2>3, Zenon DEF PthreadTypes
  <2> HIDE DEF l, d
  <2>5. /\ locals' \in [PThread -> Locals] /\ locals'[t] = l
        /\ \A u \in PThread : u # t => locals'[u] = locals[u]
    BY <2>1, <2>2, LocalsSet, Zenon
  <2>6. /\ cond' \in [sem : Nat, wlock : Nat, waiters : Nat, init : BOOLEAN]
        /\ cond'.sem = cond.sem /\ cond'.wlock = d /\ cond'.waiters = cond.waiters
        /\ cond'.init = TRUE
    <3>1. TRUE \in BOOLEAN
      BY Zenon
    <3> QED
      BY <3>1, <2>2, <2>4, Zenon DEF PthreadTypes
  <2>7. PthreadTypes'
    BY <1>1, <1>3, <2>5, <2>6, Zenon DEF PthreadTypes, Locals
  <2>8. OwnsWhere'
    BY <1>1, <1>2, <1>3, <2>1, <2>5, <2>6 DEF OwnsWhere
  <2>9. PrivateSound'
    <3>1. Published' \subseteq Published \cup Private(t)
      BY <1>1, <2>3, <2>6, Zenon DEF Published
    <3> QED
      BY <1>1, <1>2, <1>3, <2>5, <2>6, <3>1, OthersPrivate, Zenon
  <2>10. Owners' = Owners /\ Counted' = Counted
    BY <1>1, <1>2, <1>3, <2>1, <2>5, OwnersChange, CountedChange
  <2>11. PublishedSound'
    <3>1. mutex.fd # NoFd => mutex.fd # d
      BY <2>3, Zenon DEF Published
    <3> QED
      BY <1>1, <2>3, <2>4, <2>6, <2>10, <3>1, Zenon DEF PublishedSound
  <2>12. WaitersCounted'
    BY <1>1, <2>6, <2>10, Zenon DEF WaitersCounted, CondUnits
  <2> QED
    BY <2>7, <2>8, <2>9, <2>11, <2>12, Zenon
<1> QED
  BY <1>4, <1>5, Zenon

(* The first use of a condition variable creates its semaphores.           *)
LEMMA CondEnsurePthreadInv ==
  ASSUME PthreadInv, NEW t \in PThread, NEW call \in {"wait", "signal", "broadcast"},
         NEW timed \in BOOLEAN, CondEnsure(t, call, timed)
  PROVE  PthreadInv'
<1> USE DEF PthreadInv
<1>1. /\ mutex' = mutex /\ cond' = cond /\ unposted' = unposted /\ locals[t] \in Locals
      /\ at[t] \in {"held", "idle"} /\ (call = "wait" => locals[t].held)
  BY LocalsTypes, Zenon DEF CondEnsure, OwnsWhere
<1>2. CASE ~cond.init /\ Cardinality(FreeHandles) < 2 /\ UNCHANGED <<sema, locals, at>>
  BY <1>1, <1>2, Stutters, Zenon
<1>3. CASE /\ cond.init /\ Move(t, call)
           /\ locals' = [locals EXCEPT ![t].call = call, ![t].timed = timed]
           /\ UNCHANGED sema
  <2> DEFINE l == [locals[t] EXCEPT !.call = call, !.timed = timed]
  <2>1. l \in Locals /\ l.held = locals[t].held
    BY <1>1, Zenon DEF Locals
  <2>2. locals' = [locals EXCEPT ![t] = l]
    BY <1>3, Zenon DEF PthreadTypes
  <2> HIDE DEF l
  <2>3. locals'[t] = l /\ \A u \in PThread : u # t => locals'[u] = locals[u]
    BY <2>1, <2>2, LocalsSet, Zenon
  <2>4. /\ at' \in [PThread -> Places] /\ at'[t] = call
        /\ \A u \in PThread : u # t => at'[u] = at[u]
    <3>1. call \in Places
      BY Zenon DEF Places
    <3> QED
      BY <1>3, <3>1, Moved, Zenon
  <2>5. OwnsWhere'
    BY <1>1, <1>3, <2>1, <2>3, <2>4, Zenon DEF OwnsWhere
  <2>6. /\ DOMAIN sema' = DOMAIN sema /\ sema' = sema
        /\ sema' \in [DOMAIN sema -> [units : Nat, binary : BOOLEAN]]
        /\ unposted' \in Int
        /\ cond' \in [sem : Nat, wlock : Nat, waiters : Nat, init : BOOLEAN]
    BY <1>1, <1>3, Zenon DEF PthreadTypes
  <2>7. WaitersCounted'
    <3>1. Counted' = Counted
      BY <1>1, <2>4, CountedChange
    <3> QED
      BY <3>1, <1>1, <2>6, Zenon DEF WaitersCounted, CondUnits
  <2>8. at'[t] \notin {"mutexCas", "condCas", "condPublish"}
    BY <2>4, Zenon
  <2> QED
    BY <1>1, <2>1, <2>2, <2>4, <2>5, <2>6, <2>7, <2>8, CountsMove, Zenon
<1>4. CASE /\ ~cond.init /\ Cardinality(FreeHandles) >= 2
           /\ LET a == Min(FreeHandles)
                  b == Min(FreeHandles \ {a})
              IN  /\ sema' = WithSema(WithSema(sema, a, 0, FALSE), b, 1, TRUE)
                  /\ locals' = [locals EXCEPT ![t].cand = a, ![t].cand2 = b,
                                             ![t].call = call, ![t].timed = timed]
           /\ Move(t, "condCas")
  <2> DEFINE a == Min(FreeHandles)
             b == Min(FreeHandles \ {a})
             l == [locals[t] EXCEPT !.cand = a, !.cand2 = b, !.call = call, !.timed = timed]
  <2>h. /\ a \in Nat \ {NoFd} /\ b \in Nat \ {NoFd} /\ a # b
        /\ a \notin DOMAIN sema /\ b \notin DOMAIN sema
    BY <1>4, FreshHandle, Zenon
  <2>s. sema' = WithSema(WithSema(sema, a, 0, FALSE), b, 1, TRUE)
    BY <1>4, Zenon
  <2>t. locals' = [locals EXCEPT ![t].cand = a, ![t].cand2 = b, ![t].call = call, ![t].timed = timed]
    BY <1>4, Zenon
  <2> HIDE DEF a, b
  <2>1. /\ l \in Locals /\ l.held = locals[t].held /\ l.cand = a /\ l.cand2 = b /\ l.call = call
    BY <1>1, <2>h, Zenon DEF Locals
  <2>2. locals' = [locals EXCEPT ![t] = l]
    BY <2>t, Zenon DEF PthreadTypes
  <2> HIDE DEF l
  <2>3. /\ locals' \in [PThread -> Locals] /\ locals'[t] = l
        /\ \A u \in PThread : u # t => locals'[u] = locals[u]
    BY <2>1, <2>2, LocalsSet, Zenon
  <2>4. /\ DOMAIN sema' = DOMAIN sema \cup {a, b} /\ DOMAIN sema' \subseteq Nat \ {NoFd}
        /\ sema' = [x \in DOMAIN sema \cup {a, b} |->
                      IF x = b THEN [units |-> 1, binary |-> TRUE]
                      ELSE IF x = a THEN [units |-> 0, binary |-> FALSE] ELSE sema[x]]
    BY <2>s, <2>h DEF WithSema, PthreadTypes
  <2>5. /\ sema' \in [DOMAIN sema' -> [units : Nat, binary : BOOLEAN]]
        /\ sema'[a].binary = FALSE /\ sema'[b].binary = TRUE /\ sema'[b].units = 1
        /\ \A x \in DOMAIN sema : sema'[x] = sema[x]
    <3>1. TRUE \in BOOLEAN /\ FALSE \in BOOLEAN
      BY Zenon
    <3>2. /\ [units |-> 1, binary |-> TRUE] \in [units : Nat, binary : BOOLEAN]
          /\ [units |-> 0, binary |-> FALSE] \in [units : Nat, binary : BOOLEAN]
      BY <3>1, Zenon
    <3> QED
      BY <3>2, <2>4, <2>h, Zenon DEF PthreadTypes
  <2>6. at' \in [PThread -> Places] /\ at'[t] = "condCas" /\ \A u \in PThread : u # t => at'[u] = at[u]
    BY <1>4, Moved, Zenon DEF Places
  <2>8. PthreadTypes'
    BY <1>1, <2>3, <2>4, <2>5, <2>6, Zenon DEF PthreadTypes, Locals
  <2>9. OwnsWhere'
    BY <1>1, <2>1, <2>3, <2>6 DEF OwnsWhere
  <2>10. Owners' = Owners /\ Counted' = Counted
    BY <1>1, <2>1, <2>3, <2>6, OwnersChange, CountedChange
  <2>11. PublishedSound' /\ CondUnits' = CondUnits
    BY <1>1, <2>4, <2>5, <2>10, OthersOpened, Zenon
  <2>12. WaitersCounted'
    BY <1>1, <2>10, <2>11, Zenon DEF WaitersCounted
  <2>13. PrivateSound'
    <3>1. /\ Published' = Published /\ Published \subseteq DOMAIN sema
          /\ cond.sem = NoFd \/ cond.sem \in DOMAIN sema
      BY <1>1, Zenon DEF Published, PublishedSound
    <3>2. /\ Private(t)' = {b}
          /\ \A u \in PThread : u # t => Private(u)' = Private(u)
      BY <2>1, <2>3, <2>6, Zenon DEF Private
    <3>3. \A u \in PThread : Private(u) \subseteq DOMAIN sema
      BY Zenon DEF PrivateSound
    <3>4. ASSUME NEW u \in PThread
          PROVE  /\ \A x \in Private(u)' : /\ x \in DOMAIN sema' /\ x \notin Published'
                                           /\ sema'[x].binary /\ sema'[x].units = 1
                 /\ at'[u] = "condCas" => /\ locals'[u].cand \in DOMAIN sema' /\ locals'[u].cand # cond'.sem
                                          /\ ~sema'[locals'[u].cand].binary
                 /\ at'[u] = "condPublish" /\ locals'[u].cand # NoFd => cond'.sem # NoFd
      <4>1. CASE u = t
        BY <4>1, <1>1, <2>h, <2>1, <2>3, <2>4, <2>5, <2>6, <3>1, <3>2
      <4>2. CASE u # t
        <5>d. DOMAIN sema \subseteq DOMAIN sema'
          BY <2>4, Zenon
        <5> QED
          BY <5>d, <4>2, <1>1, <2>3, <2>5, <2>6, <3>1, <3>2 DEF PrivateSound
      <4> QED
        BY <4>1, <4>2, Zenon
    <3>5. ASSUME NEW u \in PThread, NEW v \in PThread, u # v
          PROVE  /\ Private(u)' \cap Private(v)' = {}
                 /\ at'[u] = "condCas" /\ at'[v] = "condCas" => locals'[u].cand # locals'[v].cand
      <4>1. Private(u) \cap Private(v) = {}
        BY <3>5, Zenon DEF PrivateSound
      <4>2. Private(u)' \cap Private(v)' = {}
        BY <4>1, <3>5, <3>2, <3>3, <2>h
      <4>3. \A w \in PThread : w # t /\ at'[w] = "condCas" => locals'[w].cand \in DOMAIN sema
        BY <2>3, <2>6, Zenon DEF PrivateSound
      <4>4. at'[u] = "condCas" /\ at'[v] = "condCas" => locals'[u].cand # locals'[v].cand
        BY <3>5, <4>3, <2>h, <2>1, <2>3, <2>6 DEF PrivateSound
      <4> QED
        BY <4>2, <4>4, Zenon
    <3> QED
      BY <3>4, <3>5, Zenon DEF PrivateSound
  <2> QED
    BY <2>8, <2>9, <2>11, <2>12, <2>13, Zenon
<1> QED
  BY <1>2, <1>3, <1>4, Zenon DEF CondEnsure

-----------------------------------------------------------------------------
(* The invariant, and what follows from it.                                 *)

(* Nothing is created at the start.                                        *)
LEMMA InitPthreadInv ==
  ASSUME PthreadInit
  PROVE  PthreadInv
<1>b. TRUE \in BOOLEAN /\ FALSE \in BOOLEAN
  BY Zenon
<1>l. \A t \in PThread : locals[t] = NoLocals
  BY Zenon DEF PthreadInit
<1>t. locals \in [PThread -> Locals]
  BY <1>b, Zenon DEF PthreadInit, NoLocals, Locals, NoFd
<1>h. NoLocals.held = FALSE /\ NoLocals.cand = NoFd
  BY Zenon DEF NoLocals
<1>a. at \in [PThread -> {"idle", "absent"}]
  BY Zenon DEF PthreadInit, StaticInit, DynamicInit
<1>1. OwnsWhere
  BY <1>l, <1>h, <1>a, Zenon DEF OwnsWhere
<1>2. Owners = {} /\ Counted = {}
  BY <1>l, <1>h, <1>a, Zenon DEF Owners, Counted
<1>3. Cardinality(Owners) = 0 /\ Cardinality(Counted) = 0
  BY <1>2, FS_EmptySet, Zenon
<1>4. PrivateSound
  <2>1. \A t \in PThread : Private(t) = {}
    BY <1>a, Zenon DEF Private
  <2> QED
    BY <1>a, <2>1, Zenon DEF PrivateSound
<1>5. CASE StaticInit
  <2>1. DOMAIN sema = {} /\ sema \in [DOMAIN sema -> [units : Nat, binary : BOOLEAN]]
    BY <1>5 DEF StaticInit
  <2>2. PthreadTypes
    BY <1>5, <1>b, <1>t, <1>a, <2>1 DEF PthreadInit, StaticInit, PthreadTypes, Locals, Places, NoFd
  <2>3. PublishedSound
    BY <1>5, <1>2, Zenon DEF StaticInit, PublishedSound
  <2>4. WaitersCounted
    <3>1. cond.waiters = 0 /\ CondUnits = 0 /\ unposted = 0
      BY <1>5, <2>1, Zenon DEF PthreadInit, StaticInit, CondUnits
    <3> QED
      BY <1>3, <3>1 DEF WaitersCounted
  <2> QED
    BY <1>1, <1>4, <2>2, <2>3, <2>4, Zenon DEF PthreadInv
<1>6. CASE DynamicInit
  <2>1. /\ DOMAIN sema = 1 .. 3 /\ sema[1] = [units |-> 1, binary |-> TRUE]
        /\ sema[2] = [units |-> 0, binary |-> FALSE] /\ sema[3] = [units |-> 1, binary |-> TRUE]
    BY <1>6 DEF DynamicInit
  <2>2. sema \in [DOMAIN sema -> [units : Nat, binary : BOOLEAN]]
    <3>1. /\ [units |-> 1, binary |-> TRUE] \in [units : Nat, binary : BOOLEAN]
          /\ [units |-> 0, binary |-> FALSE] \in [units : Nat, binary : BOOLEAN]
      BY <1>b, Zenon
    <3>2. \A x \in DOMAIN sema : sema[x] \in [units : Nat, binary : BOOLEAN]
      <4>1. DOMAIN sema = {1, 2, 3}
        BY <2>1
      <4>2. /\ sema[1] \in [units : Nat, binary : BOOLEAN] /\ sema[2] \in [units : Nat, binary : BOOLEAN]
            /\ sema[3] \in [units : Nat, binary : BOOLEAN]
        BY <2>1, <3>1, Zenon
      <4> QED
        BY <4>1, <4>2, Zenon
    <3>3. sema = [x \in DOMAIN sema |-> sema[x]]
      BY <1>6 DEF DynamicInit
    <3> QED
      BY <3>2, <3>3, Zenon
  <2>3. PthreadTypes
    <3>1. mutex \in [fd : Nat, init : BOOLEAN] /\ cond \in [sem : Nat, wlock : Nat, waiters : Nat, init : BOOLEAN]
      BY <1>6, <1>b, Zenon DEF DynamicInit
    <3>2. DOMAIN sema \subseteq Nat \ {NoFd} /\ unposted \in Int
      BY <2>1 DEF NoFd, PthreadInit
    <3>3. at \in [PThread -> Places]
      BY <1>a, Zenon DEF Places
    <3> QED
      BY <3>1, <3>2, <3>3, <2>2, <1>t, Zenon DEF PthreadTypes, Locals
  <2>4. PublishedSound
    BY <1>6, <1>2, <1>3, <2>1 DEF DynamicInit, PublishedSound, NoFd
  <2>5. WaitersCounted
    <3>1. cond.waiters = 0 /\ CondUnits = 0 /\ unposted = 0
      BY <1>6, <2>1, Zenon DEF PthreadInit, DynamicInit, CondUnits
    <3> QED
      BY <1>3, <3>1 DEF WaitersCounted
  <2> QED
    BY <1>1, <1>4, <2>3, <2>4, <2>5, Zenon DEF PthreadInv
<1> QED
  BY <1>5, <1>6, Zenon DEF PthreadInit

(* Every step of every thread keeps the invariant.                         *)
LEMMA NextPthreadInv ==
  ASSUME PthreadInv, [PthreadNext]_pthreadVars
  PROVE  PthreadInv'
<1>1. CASE UNCHANGED pthreadVars
  BY <1>1, Stutters, Zenon DEF pthreadVars
<1>2. ASSUME NEW t \in PThread,
             \/ MutexEnsure(t) \/ MutexCas(t) \/ MutexStore(t)
             \/ MutexLock(t) \/ MutexTrylock(t) \/ MutexUnlock(t)
      PROVE  PthreadInv'
  BY <1>2, MutexEnsurePthreadInv, MutexCasPthreadInv, MutexStorePthreadInv,
     MutexLockPthreadInv, MutexTrylockPthreadInv, MutexUnlockPthreadInv, Zenon
<1>3. ASSUME NEW t \in PThread, NEW timed \in BOOLEAN, CondEnsure(t, "wait", timed)
      PROVE  PthreadInv'
  BY <1>3, CondEnsurePthreadInv, Zenon
<1>4. ASSUME NEW t \in PThread, NEW call \in {"signal", "broadcast"}, CondEnsure(t, call, FALSE)
      PROVE  PthreadInv'
  <2>1. FALSE \in BOOLEAN /\ call \in {"wait", "signal", "broadcast"}
    BY Zenon
  <2> QED
    BY <1>4, <2>1, CondEnsurePthreadInv, Zenon
<1>5. ASSUME NEW t \in PThread, CondCas(t) \/ CondPublish(t) \/ CondRegister(t) \/ CondRelease(t)
      PROVE  PthreadInv'
  BY <1>5, CondCasPthreadInv, CondPublishPthreadInv, CondRegisterPthreadInv, CondReleasePthreadInv, Zenon
<1>6. ASSUME NEW t \in PThread,
             \/ CondWake(t) \/ CondTimeout(t) \/ CondUndo(t)
             \/ CondSignal(t) \/ CondBroadcast(t) \/ CondPost(t)
      PROVE  PthreadInv'
  BY <1>6, CondWakePthreadInv, CondTimeoutPthreadInv, CondUndoPthreadInv,
     CondSignalPthreadInv, CondBroadcastPthreadInv, CondPostPthreadInv, Zenon
<1> QED
  BY <1>1, <1>2, <1>3, <1>4, <1>5, <1>6, Zenon DEF PthreadNext

(* The invariant gives what is promised: one owner at most, because the       *)
(* mutex's unit and its owners add up to one; every waiter counted, because   *)
(* the waiters are among the counted.                                        *)
LEMMA PthreadInvSound ==
  ASSUME PthreadInv
  PROVE  PthreadSound
<1> USE DEF PthreadInv
<1>1. MutexExclusive
  <2>1. CASE mutex.fd = NoFd
    BY <2>1, FS_EmptySet DEF PublishedSound, MutexExclusive
  <2>2. CASE mutex.fd # NoFd
    <3>1. /\ sema[mutex.fd].units \in Nat /\ sema[mutex.fd].units + Cardinality(Owners) = 1
      BY <2>2, Zenon DEF PublishedSound, PthreadTypes
    <3> QED
      BY <3>1, Finite DEF MutexExclusive
  <2> QED
    BY <2>1, <2>2, Zenon
<1>2. NoWaiterForgotten
  <2>1. Waiting \subseteq Counted
    BY Zenon DEF Waiting, Counted
  <2>2. Cardinality(Waiting) <= Cardinality(Counted)
    BY <2>1, Finite, FS_Subset, Zenon
  <2>3. cond.waiters \in Nat /\ CondUnits \in Nat /\ unposted \in Int
    BY Zenon DEF PthreadTypes, CondUnits
  <2> QED
    BY <2>2, <2>3, Finite DEF WaitersCounted, NoWaiterForgotten
<1> QED
  BY <1>1, <1>2, Zenon DEF PthreadSound

(* At most one thread owns a mutex and no waiter of a condition variable is   *)
(* forgotten, for any number of threads, calls and handles, whether the two    *)
(* were initialised statically or by a call (userspace/libc/pthread.c).       *)
THEOREM PthreadSoundAlways == PthreadSpec => []PthreadSound
<1>1. PthreadInit => PthreadInv
  BY InitPthreadInv, Zenon
<1>2. PthreadInv /\ [PthreadNext]_pthreadVars => PthreadInv'
  BY NextPthreadInv, Zenon
<1>3. PthreadInv => PthreadSound
  BY PthreadInvSound, Zenon
<1> QED
  BY <1>1, <1>2, <1>3, PTL DEF PthreadSpec
=============================================================================
