------------------------------ MODULE SemProofs -----------------------------
(***************************************************************************)
(* When no kernel task is killed from outside, semaphores and mutexes keep *)
(* their units and tell their waiters the truth, no wake-up of a resume, a *)
(* signal or a join is lost, and a task dies only where nothing needs it   *)
(* or its stack: for any number of CPUs, tasks and objects.                *)
(***************************************************************************)
EXTENDS SemSteps, FiniteSetTheorems

-----------------------------------------------------------------------------
(* Counting the holders of a mutex.                                         *)

(* The holders of an object can be counted.                                *)
LEMMA HoldersFinite ==
  ASSUME NEW s
  PROVE  IsFiniteSet(Holders(s)) /\ Cardinality(Holders(s)) \in Nat
<1>1. Holders(s) \subseteq Task
  BY Zenon DEF Holders
<1>2. IsFiniteSet(Holders(s))
  BY <1>1, TaskAssumption, FS_Subset, Zenon
<1> QED
  BY <1>2, FS_CardinalityType, Zenon

(* How the number of holders of s changes with what one task holds.         *)
LEMMA HoldersChange ==
  ASSUME NEW s, NEW t \in Task,
         \A u \in Task : u # t => (s \in holds'[u] <=> s \in holds[u])
  PROVE  /\ (s \in holds'[t] <=> s \in holds[t]) => Holders(s)' = Holders(s)
         /\ s \notin holds[t] /\ s \in holds'[t] =>
               Cardinality(Holders(s)') = Cardinality(Holders(s)) + 1
         /\ s \in holds[t] /\ s \notin holds'[t] =>
               Cardinality(Holders(s)') = Cardinality(Holders(s)) - 1
<1>1. t \in Holders(s) <=> s \in holds[t]
  BY Zenon DEF Holders
<1>2. s \in holds'[t] => Holders(s)' = Holders(s) \cup {t}
  BY Zenon DEF Holders
<1>3. s \notin holds'[t] => Holders(s)' = Holders(s) \ {t}
  BY Zenon DEF Holders
<1>4. (s \in holds'[t] <=> s \in holds[t]) => Holders(s)' = Holders(s)
  BY Zenon DEF Holders
<1> QED
  BY <1>1, <1>2, <1>3, <1>4, HoldersFinite, FS_AddElement, FS_RemoveElement

-----------------------------------------------------------------------------
(* Waiting on a semaphore or a mutex.                                       *)

(* do_wait that takes a unit: the counter pays for the new holder.          *)
LEMMA WaitTakeSafe ==
  ASSUME PlaceInv, SafeInv, NEW c \in Cpu, NEW t \in Task, NEW s \in Sem, WaitTake(c, t, s)
  PROVE  SafeInv'
<1> TypeOK
  BY Zenon DEF PlaceInv
<1>1. /\ status[t] = "Running" /\ pc[t] = "kern" /\ waitSem[t] = NoSem
      /\ s \notin holds[t] /\ Take(s)
      /\ UNCHANGED <<blocked, status, pc, arg, running, waitSem, events,
                     broadcast, killVars, stackVars, resumed>>
      /\ cause' = [cause EXCEPT ![t] = "Normal"]
  BY AtRunning, Zenon DEF WaitTake, Take, notifyVars, queueVars
<1>2. /\ \A u \in Task : u # t => cause'[u] = cause[u] /\ holds'[u] = holds[u]
      /\ holds'[t] = IF s \in Mutex THEN holds[t] \cup {s} ELSE holds[t]
  BY <1>1, Zenon DEF TypeOK, WaitTake
<1>3. /\ \A x \in Sem : x # s => counter'[x] = counter[x] /\ signalled'[x] = signalled[x]
      /\ signalled'[s] => signalled[s]
      /\ counter'[s] = IF IsSem(s) THEN counter[s] - 1 ELSE counter[s]
      /\ IsSem(s) => counter[s] >= 1
      /\ counter[s] \in Int
  BY <1>1, Zenon DEF Take, CanTake, TypeOK
<1>4. ASSUME NEW x \in Sem PROVE ListsWaiters(x)' /\ UnitsSound(x)'
  <2>1. Elems(blocked[x]) \subseteq Task /\ ListsWaiters(x) /\ UnitsSound(x)
    BY ListMembers, Zenon DEF TypeOK, SafeInv
  <2>2. CASE x # s
    BY <1>1, <1>2, <1>3, <2>1, <2>2, SameLists, SameUnits, Zenon
  <2>3. CASE x = s
    <3>1. ListsWaiters(x)'
      <4>1. t \notin Elems(blocked[x])
        BY <1>1, <2>1, SemAssumption, Zenon DEF ListsWaiters
      <4>2. \A u \in Elems(blocked[x]) : holds'[u] = holds[u]
        BY <1>2, <2>1, <4>1, Zenon
      <4>3. ASSUME NEW u \in Elems(blocked'[x]) PROVE waitSem'[u] = x /\ x \notin holds'[u]
        BY <1>1, <2>1, <4>2, Zenon DEF ListsWaiters
      <4>4. NoRepeats(blocked'[x]) /\ \A u \in Task : waitSem'[u] = x => u \in Elems(blocked'[x])
        BY <1>1, <2>1, Zenon DEF ListsWaiters
      <4> QED
        BY <4>3, <4>4, Zenon DEF ListsWaiters
    <3>2. UnitsSound(x)'
      <4>1. CASE IsSem(s)
        <5>1. /\ counter[s] <= MaxCount[s] /\ Len(blocked[s]) = 0
              /\ counter'[s] = counter[s] - 1 /\ counter[s] >= 1
          BY <1>3, <2>1, <2>3, <4>1 DEF UnitsSound
        <5>2. MaxCount[s] \in Nat
          BY CountAssumption, Zenon
        <5>3. ASSUME s \in Mutex
              PROVE  counter'[s] + Cardinality(Holders(s)') + Len(blocked'[s]) = MaxCount[s]
          <6>1. Cardinality(Holders(s)') = Cardinality(Holders(s)) + 1
            BY <1>1, <1>2, <5>3, HoldersChange, Zenon
          <6>2. counter[s] + Cardinality(Holders(s)) + Len(blocked[s]) = MaxCount[s]
            BY <2>1, <2>3, <5>3, Zenon DEF UnitsSound
          <6>3. Cardinality(Holders(s)) \in Nat /\ counter[s] \in Int
            BY <1>3, HoldersFinite, Zenon
          <6> QED
            BY <1>1, <5>1, <5>2, <6>1, <6>2, <6>3
        <5>4. counter'[s] <= MaxCount[s] /\ Len(blocked'[s]) = (IF counter'[s] < 0 THEN -counter'[s] ELSE 0)
          BY <1>1, <1>3, <5>1, <5>2
        <5> QED
          BY <2>3, <4>1, <5>3, <5>4, Zenon DEF UnitsSound
      <4>2. CASE ~IsSem(s)
        <5>1. s \notin Mutex
          BY <4>2, SemAssumption, Zenon
        <5> QED
          BY <1>1, <1>2, <1>3, <2>1, <2>3, <4>2, <5>1, SameUnits, Zenon
      <4> QED
        BY <4>1, <4>2, Zenon
    <3> QED
      BY <3>1, <3>2, Zenon
  <2> QED
    BY <2>2, <2>3, Zenon
<1> QED
  BY <1>1, <1>2, <1>3, <1>4, NobodyMoves, Zenon

(* do_wait that blocks: the counter goes down with every waiter, and a task *)
(* that is marked to die does not go into an interruptible wait.            *)
LEMMA WaitBlockSafe ==
  ASSUME PlaceInv, SafeInv, NEW c \in Cpu, NEW t \in Task, NEW s \in Sem, NEW ticks,
         NEW intr \in BOOLEAN, WaitBlock(c, t, s, ticks, intr)
  PROVE  SafeInv'
<1> TypeOK
  BY Zenon DEF PlaceInv
<1>1. /\ status[t] = "Running" /\ pc[t] = "kern" /\ waitSem[t] = NoSem
      /\ s \notin holds[t] /\ Block(s, t) /\ (intr => t \notin pendingKill)
      /\ UNCHANGED <<running, holds, events, broadcast, killVars, stackVars, resumed>>
  BY AtRunning, Zenon DEF WaitBlock, WaitRefused, notifyVars, queueVars
<1>2. /\ \A u \in Task : u # t => /\ pc'[u] = pc[u] /\ arg'[u] = arg[u] /\ cause'[u] = cause[u]
                                  /\ status'[u] = status[u] /\ waitSem'[u] = waitSem[u]
      /\ pc'[t] = "waityield" /\ arg'[t] = <<NoTask, s>> /\ waitSem'[t] = s
      /\ status'[t] = IF intr THEN "WaitingInterruptible" ELSE "Waiting"
  BY Zenon DEF WaitBlock, Goto, TypeOK
<1>3. /\ \A x \in Sem : x # s => /\ counter'[x] = counter[x]
                                 /\ blocked'[x] = blocked[x]
      /\ signalled' = signalled
      /\ counter'[s] = IF IsSem(s) THEN counter[s] - 1 ELSE counter[s]
      /\ blocked'[s] = Append(blocked[s], t)
      /\ IF IsSem(s) THEN ~(counter[s] >= 1) ELSE ~signalled[s]
      /\ counter[s] \in Int
  BY <1>1 DEF Block, CanTake, TypeOK
<1>4. DeadKept /\ ReapedKept /\ CallsKept
  BY <1>1, <1>2, Zenon DEF DeadKept, ReapedKept, CallsKept
<1>5. NotifiesReaped' /\ JoinAfterReap' /\ StacksSound'
  BY <1>1, <1>3, <1>4, SameNotify, SameJoin, SameStacks, Zenon DEF SafeInv, stackVars
<1>6. DyingIsInterrupted'
  <2>1. \A u \in pendingKill : u \in Task
    BY TaskAssumption, Zenon DEF TypeOK
  <2>2. \A u \in pendingKill : status'[u] = "WaitingInterruptible" =>
           status[u] = status'[u] /\ waitSem'[u] = waitSem[u]
    BY <1>1, <1>2, <2>1, Zenon
  <2> QED
    BY <1>1, <1>4, <2>2, SameDying, Zenon DEF SafeInv, killVars
<1>7. ResumeNotLost'
  <2>1. \A u \in resumed : u \in Task
    BY Zenon DEF TypeOK
  <2> QED
    BY <1>1, <1>2, <1>4, <2>1, SameResume, Zenon DEF SafeInv
<1>8. ResultMatchesGrant'
  BY <1>1, <1>2, SameResults, Zenon DEF SafeInv
<1>9. ASSUME NEW u \in Task PROVE StatusMatchesPc(u)'
  <2>1. CASE u = t
    BY <1>1, <1>2, <2>1 DEF SafeInv, StatusMatchesPc, Waits, killVars
  <2>2. CASE u # t
    BY <1>1, <1>2, <2>2, SamePlace, Zenon DEF SafeInv, killVars
  <2> QED
    BY <2>1, <2>2, Zenon
<1>10. ASSUME NEW x \in Sem PROVE ListsWaiters(x)' /\ UnitsSound(x)'
  <2>1. /\ Elems(blocked[x]) \subseteq Task /\ ListsWaiters(x) /\ UnitsSound(x)
        /\ blocked[x] \in Seq(Task) /\ x # NoSem
    BY ListMembers, SemAssumption DEF TypeOK, SafeInv
  <2>2. CASE x # s
    BY <1>1, <1>2, <1>3, <2>1, <2>2, SameLists, SameUnits, Zenon
  <2>3. CASE x = s
    <3>0. t \notin Elems(blocked[s])
      BY <1>1, <2>1, <2>3, Zenon DEF ListsWaiters
    <3>1. /\ Elems(blocked'[s]) = Elems(blocked[s]) \cup {t}
          /\ NoRepeats(blocked'[s])
      BY <1>3, <2>1, <2>3, <3>0, AppendList, Zenon DEF ListsWaiters
    <3>2. ListsWaiters(x)'
      <4>1. ASSUME NEW u \in Elems(blocked'[s]) PROVE waitSem'[u] = s /\ s \notin holds'[u]
        <5>1. CASE u = t
          BY <1>1, <1>2, <5>1, Zenon
        <5>2. CASE u # t
          BY <1>1, <1>2, <2>1, <2>3, <3>1, <4>1, <5>2, Zenon DEF ListsWaiters
        <5> QED
          BY <5>1, <5>2, Zenon
      <4>2. ASSUME NEW u \in Task, waitSem'[u] = s PROVE u \in Elems(blocked'[s])
        BY <1>2, <2>1, <2>3, <3>1, <4>2, Zenon DEF ListsWaiters
      <4> QED
        BY <2>3, <3>1, <4>1, <4>2, Zenon DEF ListsWaiters
    <3>3. Len(blocked'[s]) = Len(blocked[s]) + 1 /\ Len(blocked[s]) \in Nat
      BY <1>3, <2>1, <2>3
    <3>4. UnitsSound(x)'
      <4>1. CASE IsSem(s)
        <5>1. /\ Len(blocked[s]) = (IF counter[s] < 0 THEN -counter[s] ELSE 0)
              /\ counter'[s] = counter[s] - 1 /\ counter[s] <= 0 /\ counter[s] <= MaxCount[s]
          BY <1>3, <2>1, <2>3, <4>1 DEF UnitsSound
        <5>2. MaxCount[s] \in Nat
          BY CountAssumption, Zenon
        <5>3. ASSUME s \in Mutex
              PROVE  counter'[s] + Cardinality(Holders(s)') + Len(blocked'[s]) = MaxCount[s]
          <6>1. Holders(s)' = Holders(s)
            BY <1>1, Zenon DEF Holders
          <6>2. counter[s] + Cardinality(Holders(s)) + Len(blocked[s]) = MaxCount[s]
            BY <2>1, <2>3, <5>3, Zenon DEF UnitsSound
          <6>3. Cardinality(Holders(s)) \in Nat /\ counter[s] \in Int
            BY <1>3, HoldersFinite, Zenon
          <6>4. Cardinality(Holders(s)') = Cardinality(Holders(s))
            BY <6>1, Zenon
          <6> QED
            BY <3>3, <5>1, <5>2, <6>2, <6>3, <6>4
        <5>4. counter'[s] <= MaxCount[s] /\ Len(blocked'[s]) = (IF counter'[s] < 0 THEN -counter'[s] ELSE 0)
          BY <1>3, <3>3, <5>1, <5>2
        <5> QED
          BY <2>3, <4>1, <5>3, <5>4, Zenon DEF UnitsSound
      <4>2. CASE ~IsSem(s)
        <5>1. s \notin Mutex
          BY <4>2, SemAssumption, Zenon
        <5> QED
          BY <1>3, <2>3, <4>2, <5>1, Zenon DEF UnitsSound
      <4> QED
        BY <4>1, <4>2, Zenon
    <3> QED
      BY <3>2, <3>4, Zenon
  <2> QED
    BY <2>2, <2>3, Zenon
<1> QED
  BY <1>5, <1>6, <1>7, <1>8, <1>9, <1>10, Zenon DEF SafeInv

-----------------------------------------------------------------------------
(* Wake-ups.                                                                *)

(* A waiter of s leaves and the unit it was owed is counted: given to it,   *)
(* or back.                                                                 *)
LEMMA UnitMoves ==
  ASSUME TypeOK, NEW s \in Sem, UnitsSound(s), blocked[s] # << >>,
         Len(blocked'[s]) = Len(blocked[s]) - 1, signalled'[s] = signalled[s],
         counter'[s] = IF IsSem(s) THEN Capped(s, counter[s] + 1) ELSE counter[s],
         s \in Mutex => Cardinality(Holders(s)') = Cardinality(Holders(s))
  PROVE  UnitsSound(s)'
<1>1. /\ Len(blocked[s]) \in Nat /\ Len(blocked[s]) > 0 /\ counter[s] \in Int
      /\ MaxCount[s] \in Nat /\ MaxCount[s] > 0 /\ Cardinality(Holders(s)) \in Nat
  <2>1. blocked[s] \in Seq(Task)
    BY Zenon DEF TypeOK
  <2> QED
    BY <2>1, CountAssumption, HoldersFinite DEF TypeOK
<1>2. CASE IsSem(s)
  <2>1. Len(blocked[s]) = -counter[s] /\ counter[s] < 0
    BY <1>1, <1>2 DEF UnitsSound
  <2>2. counter'[s] = counter[s] + 1
    BY <1>1, <1>2, <2>1 DEF Capped
  <2>3. ASSUME s \in Mutex
        PROVE  counter'[s] + Cardinality(Holders(s)') + Len(blocked'[s]) = MaxCount[s]
    <3>1. counter[s] + Cardinality(Holders(s)) + Len(blocked[s]) = MaxCount[s]
      BY <2>3, Zenon DEF UnitsSound
    <3>2. (counter[s] + 1) + Cardinality(Holders(s)) + (Len(blocked[s]) - 1) = MaxCount[s]
      BY <1>1, <3>1
    <3> QED
      BY <2>2, <2>3, <3>2, Zenon
  <2>4. counter'[s] <= MaxCount[s] /\ Len(blocked'[s]) = (IF counter'[s] < 0 THEN -counter'[s] ELSE 0)
    BY <1>1, <2>1, <2>2
  <2> QED
    BY <1>2, <2>3, <2>4, Zenon DEF UnitsSound
<1>3. CASE ~IsSem(s)
  <2>1. s \notin Mutex
    BY <1>3, SemAssumption, Zenon
  <2> QED
    BY <1>3, <2>1, Zenon DEF UnitsSound
<1> QED
  BY <1>2, <1>3, Zenon

(* signal(): the unit of a semaphore goes to its oldest waiter, or is kept  *)
(* when nobody waits, and then a mutex gets back what its holder took.      *)
LEMMA SignalSafe ==
  ASSUME PlaceInv, SafeInv, NEW c \in Cpu, NEW t \in Task, NEW s \in Sem, Signal(c, t, s)
  PROVE  SafeInv'
<1> TypeOK
  BY Zenon DEF PlaceInv
<1> DEFINE h == [holds EXCEPT ![t] = @ \ {s}]
<1>1. /\ status[t] = "Running" /\ pc[t] = "kern" /\ waitSem[t] = NoSem
      /\ s \in Mutex => s \in holds[t]
      /\ \A u \in Task : s # TermEvent[u]
      /\ UNCHANGED <<pc, arg, running, events, killVars, stackVars, resumed>>
      /\ DoSignal(c, s, h)
  BY AtRunning, Zenon DEF Signal
<1>2. /\ h \in [Task -> SUBSET Mutex] /\ h[t] = holds[t] \ {s}
      /\ \A u \in Task : u # t => h[u] = holds[u]
      /\ s \notin Mutex => h = holds
  BY DEF TypeOK
<1> HIDE DEF h
<1>3. CASE Kind[s] = "manual"
  <2>1. s \notin Mutex
    BY <1>3, SemAssumption, Zenon DEF IsSem
  <2>2. /\ broadcast' = [broadcast EXCEPT ![c] = s] /\ holds' = holds /\ NoWake
        /\ UNCHANGED semVars
    BY <1>1, <1>2, <1>3, <2>1, Zenon DEF DoSignal
  <2> QED
    BY <1>1, <1>3, <2>2, StartBroadcast, Zenon
<1>4. CASE Kind[s] # "manual" /\ WantsWake(s) /\ CanWake(s)
  <2> DEFINE v == Head(blocked[s])
  <2>1. /\ AddUnit(s) /\ blocked' = [blocked EXCEPT ![s] = Tail(@)]
        /\ WakeTask(c, v, s, "Normal", h) /\ UNCHANGED <<signalled, broadcast>>
    BY <1>1, <1>4, Zenon DEF DoSignal, SignalWoke
  <2>2. /\ blocked[s] \in Seq(Task) /\ blocked[s] # << >> /\ NoRepeats(blocked[s])
        /\ v \in Elems(blocked[s])
    BY <1>4, HeadWaits, ListMembers, Zenon DEF SafeInv, ListsWaiters
  <2>3. /\ blocked'[s] = Tail(blocked[s]) /\ \A x \in Sem : x # s => blocked'[x] = blocked[x]
        /\ counter'[s] = (IF IsSem(s) THEN Capped(s, counter[s] + 1) ELSE counter[s])
        /\ \A x \in Sem : x # s => counter'[x] = counter[x]
    BY <2>1, Zenon DEF AddUnit, TypeOK
  <2> HIDE DEF v
  <2>4. /\ Len(blocked'[s]) = Len(blocked[s]) - 1 /\ NoRepeats(blocked'[s])
        /\ Elems(blocked'[s]) = Elems(blocked[s]) \ {v}
    BY <2>2, <2>3, TailList, Zenon DEF v
  <2>5. v \in Task /\ v # t /\ s \notin holds[v]
    BY <1>1, <2>2, HeadWaits DEF Waits
  <2>6. /\ \A u \in Task : u # v => holds'[u] = h[u]
        /\ holds'[v] = IF s \in Mutex THEN h[v] \cup {s} ELSE h[v]
    BY <1>2, <2>1, <2>5, Zenon DEF WakeTask
  <2>7. s \in Mutex => Cardinality(Holders(s)') = Cardinality(Holders(s))
    <3> SUFFICES ASSUME s \in Mutex PROVE Cardinality(Holders(s)') = Cardinality(Holders(s))
      BY Zenon
    <3>1. /\ Holders(s)' = (Holders(s) \ {t}) \cup {v}
          /\ t \in Holders(s) /\ v \notin Holders(s) \ {t}
      BY <1>1, <1>2, <2>5, <2>6, Zenon DEF Holders
    <3>2. /\ IsFiniteSet(Holders(s)) /\ Cardinality(Holders(s)) \in Nat
          /\ IsFiniteSet(Holders(s) \ {t})
          /\ Cardinality(Holders(s) \ {t}) = Cardinality(Holders(s)) - 1
      BY <3>1, HoldersFinite, FS_RemoveElement, Zenon
    <3>3. Cardinality((Holders(s) \ {t}) \cup {v}) = Cardinality(Holders(s) \ {t}) + 1
      BY <3>1, <3>2, FS_AddElement, Zenon
    <3> QED
      BY <3>1, <3>2, <3>3
  <2>8. UnitsSound(s)'
    BY <2>1, <2>2, <2>3, <2>4, <2>7, UnitMoves, Zenon DEF SafeInv
  <2>9. ASSUME NEW x \in Sem, x # s PROVE UnitsSound(x)'
    <3>1. \A u \in Task : x \in holds'[u] <=> x \in holds[u]
      BY <1>2, <2>6, <2>9, Zenon
    <3> QED
      BY <2>1, <2>3, <2>9, <3>1, OtherObjects, Zenon
  <2>10. ReapedKept
    <3>1. \A u \in Task : u # v => status'[u] = status[u]
      BY <2>1, Zenon DEF WakeTask, TypeOK
    <3>2. status[v] # "Reaped"
      BY <2>2, HeadWaits, Zenon DEF Waits
    <3> QED
      BY <3>1, <3>2, Zenon DEF ReapedKept
  <2>11. NotifiesReaped' /\ JoinAfterReap'
    BY <1>1, <2>1, <2>10, SameNotify, SameJoin, Zenon DEF SafeInv
  <2>12. \A u \in Task : h[u] \subseteq holds[u] /\ (pc[u] # "kern" => h[u] = holds[u])
    BY <1>1, <1>2, Zenon
  <2> QED
    BY <1>1, <1>2, <2>1, <2>2, <2>3, <2>4, <2>8, <2>9, <2>11, <2>12, WakeSafe, Zenon
<1>5. CASE Kind[s] # "manual" /\ ~(WantsWake(s) /\ CanWake(s))
  <2>1. /\ SignalKept(s) /\ holds' = h /\ NoWake /\ UNCHANGED broadcast
    BY <1>1, <1>5, Zenon DEF DoSignal
  <2>2. /\ UNCHANGED <<blocked, status, waitSem, cause>>
        /\ counter'[s] = (IF IsSem(s) THEN Capped(s, counter[s] + 1) ELSE counter[s])
        /\ \A x \in Sem : x # s => counter'[x] = counter[x] /\ signalled'[x] = signalled[x]
        /\ IsSem(s) => signalled' = signalled
    BY <2>1, Zenon DEF SignalKept, NoWake, AddUnit, TypeOK, IsSem
  <2>3. \A u \in Task : holds'[u] \subseteq holds[u]
    BY <1>2, <2>1, Zenon
  <2>4. ASSUME NEW x \in Sem PROVE ListsWaiters(x)'
    <3>1. Elems(blocked[x]) \subseteq Task
      BY ListMembers, Zenon DEF TypeOK
    <3> QED
      BY <2>2, <2>3, <3>1, SameLists, Zenon DEF SafeInv
  <2>5. UnitsSound(s)'
    <3>0. UnitsSound(s) /\ counter[s] \in Int /\ blocked[s] \in Seq(Task)
      BY Zenon DEF SafeInv, TypeOK
    <3>1. CASE IsSem(s)
      <4>1. counter[s] >= 0
        <5>1. SUFFICES ASSUME counter[s] < 0 PROVE FALSE
          BY <3>0
        <5>2. MaxCount[s] \in Nat /\ MaxCount[s] > 0
          BY CountAssumption
        <5>3. WantsWake(s)
          BY <3>0, <3>1, <5>1, <5>2 DEF WantsWake, Capped
        <5>4. Len(blocked[s]) # 0
          BY <3>0, <3>1, <5>1 DEF UnitsSound
        <5>5. CanWake(s)
          BY <3>0, <5>4, HeadWaits
        <5> QED
          BY <1>5, <5>3, <5>5, Zenon
      <4>2. /\ Len(blocked[s]) = 0 /\ counter[s] <= MaxCount[s] /\ MaxCount[s] \in Nat
        BY <3>0, <3>1, <4>1, CountAssumption DEF UnitsSound
      <4>3. counter'[s] <= MaxCount[s] /\ counter'[s] >= 0
        BY <2>2, <3>0, <3>1, <4>1, <4>2 DEF Capped
      <4>4. ASSUME s \in Mutex
            PROVE  counter'[s] + Cardinality(Holders(s)') + Len(blocked'[s]) = MaxCount[s]
        <5>1. t \in Holders(s) /\ s \notin holds'[t] /\ s \in holds[t]
          BY <1>1, <1>2, <2>1, <4>4, Zenon DEF Holders
        <5>2. Cardinality(Holders(s)') = Cardinality(Holders(s)) - 1
          BY <1>2, <2>1, <5>1, HoldersChange, Zenon
        <5>3. Cardinality(Holders(s)) \in Nat /\ Cardinality(Holders(s)) # 0
          BY <5>1, HoldersFinite, FS_EmptySet, Zenon
        <5>4. counter[s] + Cardinality(Holders(s)) + Len(blocked[s]) = MaxCount[s]
          BY <3>0, <4>4, Zenon DEF UnitsSound
        <5>5. counter'[s] = counter[s] + 1
          BY <2>2, <3>0, <3>1, <4>2, <5>3, <5>4 DEF Capped
        <5> QED
          BY <2>2, <3>0, <4>2, <5>2, <5>3, <5>4, <5>5
      <4>5. Len(blocked'[s]) = (IF counter'[s] < 0 THEN -counter'[s] ELSE 0)
        <5>1. Len(blocked'[s]) = 0 /\ ~(counter'[s] < 0)
          BY <2>2, <3>0, <4>2, <4>3, CountAssumption, <3>1, <4>1 DEF Capped
        <5> QED
          BY <5>1, Zenon
      <4> QED
        BY <3>1, <4>3, <4>4, <4>5, Zenon DEF UnitsSound
    <3>2. CASE ~IsSem(s)
      <4>1. WantsWake(s)
        BY <1>5, <3>2, KindAssumption, Zenon DEF WantsWake, IsSem
      <4>2. blocked[s] = << >> /\ s \notin Mutex
        BY <1>5, <3>2, <4>1, HeadWaits, SemAssumption, Zenon
      <4> QED
        BY <2>2, <3>2, <4>2, Zenon DEF UnitsSound
    <3> QED
      BY <3>1, <3>2, Zenon
  <2>6. ASSUME NEW x \in Sem, x # s PROVE UnitsSound(x)'
    <3>1. \A u \in Task : x \in holds'[u] <=> x \in holds[u]
      BY <1>2, <2>1, <2>6, Zenon
    <3> QED
      BY <2>2, <2>6, <3>1, OtherObjects, Zenon
  <2>7. NotifiesReaped'
    BY <1>1, <2>1, <2>2, SameNotify, Zenon DEF SafeInv, ReapedKept
  <2>8. JoinAfterReap'
    <3>1. ASSUME NEW u \in Task, TermEvent[u] # NoSem
          PROVE  /\ signalled'[TermEvent[u]] => status'[u] = "Reaped"
                 /\ Locked(TermEvent[u])' => status'[u] = "Reaped"
      <4>1. TermEvent[u] \in Sem /\ TermEvent[u] # s
        BY <1>1, <3>1, SemAssumption, Zenon
      <4> QED
        BY <2>1, <2>2, <3>1, <4>1, Zenon DEF SafeInv, JoinAfterReap, Locked
    <3> QED
      BY <3>1, Zenon DEF JoinAfterReap
  <2>9. \A u \in Task : pc[u] # "kern" => holds'[u] = holds[u]
    BY <1>1, <1>2, <2>1, Zenon
  <2>10. \A x \in Sem : ListsWaiters(x)' /\ UnitsSound(x)'
    BY <2>4, <2>5, <2>6, Zenon
  <2> QED
    BY <1>1, <2>2, <2>7, <2>8, <2>9, <2>10, NobodyWoken, Zenon
<1> QED
  BY <1>3, <1>4, <1>5, Zenon

(* A wake-up that takes nothing from the caller: a turn of the Wake::All    *)
(* loop of an event, an expired timer, or an interruption.                  *)
LEMMA WakeHolding ==
  ASSUME PlaceInv, SafeInv, NEW c \in Cpu, NEW s \in Sem, NEW v \in Elems(blocked[s]),
         NEW why, WakeTask(c, v, s, why, holds), why = "Normal" => s \notin Mutex,
         \A u \in Task : \/ pc'[u] = pc[u] /\ arg'[u] = arg[u]
                         \/ /\ pc[u] = "intr" /\ pc'[u] = "kern"
                            /\ arg[u] = <<v, s>> /\ status[u] = "Running",
         \A x \in Sem : x # s => blocked'[x] = blocked[x] /\ counter'[x] = counter[x],
         UNCHANGED signalled,
         Elems(blocked'[s]) = Elems(blocked[s]) \ {v}, NoRepeats(blocked'[s]),
         Len(blocked'[s]) = Len(blocked[s]) - 1,
         counter'[s] = IF IsSem(s) THEN Capped(s, counter[s] + 1) ELSE counter[s],
         \A d \in Cpu : broadcast'[d] = broadcast[d] /\ events'[d] \subseteq events[d],
         UNCHANGED <<running, killVars, stackVars, resumed>>
  PROVE  SafeInv'
<1> TypeOK
  BY Zenon DEF PlaceInv
<1>1. /\ v \in Task /\ blocked[s] # << >> /\ status[v] \in Waits
      /\ holds' = holds /\ holds \in [Task -> SUBSET Mutex]
  <2>1. v \in Task /\ status[v] \in Waits
    BY HeadWaits, Zenon
  <2>2. blocked[s] # << >>
    BY SMT DEF Elems
  <2>3. holds' = holds
    BY Zenon DEF WakeTask
  <2> QED
    BY <2>1, <2>2, <2>3, Zenon DEF TypeOK
<1>2. UnitsSound(s)'
  <2>1. Holders(s)' = Holders(s)
    BY <1>1, Zenon DEF Holders
  <2> QED
    BY <1>1, <2>1, UnitMoves, Zenon DEF SafeInv
<1>3. ASSUME NEW x \in Sem, x # s PROVE UnitsSound(x)'
  BY <1>1, <1>3, OtherObjects, Zenon
<1>4. ReapedKept
  <2>1. \A u \in Task : u # v => status'[u] = status[u]
    BY Zenon DEF WakeTask, TypeOK
  <2> QED
    BY <1>1, <2>1, Zenon DEF ReapedKept, Waits
<1>5. NotifiesReaped' /\ JoinAfterReap'
  BY <1>4, SameNotify, SameJoin, Zenon DEF SafeInv
<1>6. \A u \in Task : holds[u] \subseteq holds[u]
  BY Zenon
<1> QED
  BY <1>1, <1>2, <1>3, <1>5, <1>6, WakeSafe

(* The waiter leaves by a timeout or an interruption, and its unit is       *)
(* counted back.                                                            *)
LEMMA WithdrawSafe ==
  ASSUME PlaceInv, SafeInv, NEW c \in Cpu, NEW s \in Sem, NEW v \in Elems(blocked[s]),
         NEW why \in {"TimerExpiry", "Interruption"},
         Withdraw(s, v), WakeTask(c, v, s, why, holds),
         \A u \in Task : \/ pc'[u] = pc[u] /\ arg'[u] = arg[u]
                         \/ /\ pc[u] = "intr" /\ pc'[u] = "kern"
                            /\ arg[u] = <<v, s>> /\ status[u] = "Running",
         UNCHANGED <<events, broadcast, running, killVars, stackVars, resumed>>
  PROVE  SafeInv'
<1> TypeOK
  BY Zenon DEF PlaceInv
<1>1. /\ blocked'[s] = Without(blocked[s], v)
      /\ \A x \in Sem : x # s => blocked'[x] = blocked[x] /\ counter'[x] = counter[x]
      /\ counter'[s] = IF IsSem(s) THEN Capped(s, counter[s] + 1) ELSE counter[s]
      /\ UNCHANGED signalled
  BY Zenon DEF Withdraw, AddUnit, TypeOK
<1>2. /\ blocked[s] \in Seq(Task) /\ NoRepeats(blocked[s]) /\ v \in Task
  BY HeadWaits, Zenon DEF SafeInv, ListsWaiters
<1>3. /\ Elems(blocked'[s]) = Elems(blocked[s]) \ {v} /\ NoRepeats(blocked'[s])
      /\ Len(blocked'[s]) = Len(blocked[s]) - 1
  BY <1>1, <1>2, WithoutList, WithoutLength, Zenon
<1>4. \A d \in Cpu : broadcast'[d] = broadcast[d] /\ events'[d] \subseteq events[d]
  BY Zenon
<1>5. why # "Normal"
  BY Zenon
<1> QED
  BY <1>1, <1>3, <1>4, <1>5, WakeHolding, Zenon

(* The interruption of safe_kill_thread: the victim is woken, or does not   *)
(* wait interruptibly for that object any more.                             *)
LEMMA InterruptWaitSafe ==
  ASSUME PlaceInv, SafeInv, NEW c \in Cpu, NEW t \in Task, InterruptWait(c, t)
  PROVE  SafeInv'
<1> TypeOK
  BY Zenon DEF PlaceInv
<1> DEFINE v == arg[t][1]
           s == arg[t][2]
<1>1. /\ status[t] = "Running" /\ pc[t] = "intr" /\ waitSem[t] = NoSem
      /\ v \in Task /\ s \in Sem /\ arg[t] = <<v, s>>
      /\ UNCHANGED <<running, events, broadcast, killVars, stackVars, resumed>>
      /\ DoSignalOnTask(c, s, v, "Interruption")
  <2>1. At(c, t, "intr") /\ v \in Task /\ s \in Sem /\ arg[t] = <<v, s>>
    BY DEF InterruptWait, PlaceInv, CallArgs, At, TypeOK
  <2>2. status[t] = "Running" /\ pc[t] = "intr" /\ waitSem[t] = NoSem
    BY <2>1, AtRunning, Zenon
  <2> QED
    BY <2>1, <2>2, Zenon DEF InterruptWait, notifyVars
<1>2. /\ \A u \in Task : u # t => pc'[u] = pc[u] /\ arg'[u] = arg[u]
      /\ pc'[t] = "kern"
  BY Zenon DEF InterruptWait, Goto, TypeOK
<1> HIDE DEF v, s
<1>3. CASE v \in Elems(blocked[s]) /\ Wakeable(v, "Interruption")
  <2>1. Withdraw(s, v) /\ WakeTask(c, v, s, "Interruption", holds)
    BY <1>1, <1>3, Zenon DEF DoSignalOnTask
  <2>2. \A u \in Task : \/ pc'[u] = pc[u] /\ arg'[u] = arg[u]
                        \/ /\ pc[u] = "intr" /\ pc'[u] = "kern"
                           /\ arg[u] = <<v, s>> /\ status[u] = "Running"
    BY <1>1, <1>2, Zenon
  <2> QED
    BY <1>1, <1>3, <2>1, <2>2, WithdrawSafe, Zenon
<1>4. CASE ~(v \in Elems(blocked[s]) /\ Wakeable(v, "Interruption"))
  <2>1. UNCHANGED <<semVars, holds, status, waitSem, cause>>
    BY <1>1, <1>4, Zenon DEF DoSignalOnTask, NoWake
  <2>2. DeadKept /\ ReapedKept
    BY <2>1, Zenon DEF DeadKept, ReapedKept
  <2>3. /\ \A x \in Sem : ListsWaiters(x)' /\ UnitsSound(x)'
        /\ NotifiesReaped' /\ JoinAfterReap'
    BY <1>1, <2>1, <2>2, ObjectsSame, Zenon
  <2>4. StacksSound'
    BY <1>1, <2>2, SameStacks, Zenon DEF SafeInv, stackVars
  <2>5. ASSUME NEW u \in Task PROVE StatusMatchesPc(u)'
    <3>1. CASE u = t
      BY <1>1, <1>2, <2>1, <3>1, Zenon DEF SafeInv, StatusMatchesPc, Waits, killVars
    <3>2. CASE u # t
      BY <1>1, <1>2, <2>1, <3>2, SamePlace, Zenon DEF SafeInv, killVars
    <3> QED
      BY <3>1, <3>2, Zenon
  <2>6. ResultMatchesGrant'
    BY <1>1, <1>2, <2>1, SameResults, Zenon DEF SafeInv
  <2>7. DyingIsInterrupted'
    <3>1. ASSUME NEW x \in pendingKill', status'[x] = "WaitingInterruptible"
          PROVE  \E u \in Task : /\ pc'[u] = "intr" /\ arg'[u] = <<x, waitSem'[x]>>
                                 /\ status'[u] \in {"Running", "Active"}
      <4>1. x \in pendingKill /\ x \in Task /\ status[x] = "WaitingInterruptible"
        BY <1>1, <2>1, <3>1, TaskAssumption, Zenon DEF TypeOK, killVars
      <4>2. PICK u \in Task : /\ pc[u] = "intr" /\ arg[u] = <<x, waitSem[x]>>
                              /\ status[u] \in {"Running", "Active"}
        BY <4>1, Zenon DEF SafeInv, DyingIsInterrupted
      <4>3. u # t
        <5>1. SUFFICES ASSUME u = t PROVE FALSE
          BY Zenon
        <5>2. x = v /\ waitSem[v] = s
          <6>1. arg[t] = <<x, waitSem[x]>> /\ arg[t] = <<v, s>>
            BY <1>1, <4>2, <5>1, Zenon
          <6> QED
            BY <6>1, SMTT(20)
        <5>3. v \in Elems(blocked[s])
          BY <1>1, <5>2, Zenon DEF SafeInv, ListsWaiters
        <5> QED
          BY <1>4, <4>1, <5>2, <5>3, Zenon DEF Wakeable
      <4> QED
        BY <1>2, <2>1, <4>2, <4>3, Zenon
    <3> QED
      BY <3>1, Zenon DEF DyingIsInterrupted
  <2>8. ResumeNotLost'
    <3>1. ASSUME NEW x \in resumed', status'[x] = "Suspended"
          PROVE  \E u \in Task : /\ pc'[u] = "resume" /\ arg'[u][1] = x
                                 /\ status'[u] \in {"Running", "Active"}
      <4>1. PICK u \in Task : /\ pc[u] = "resume" /\ arg[u][1] = x
                              /\ status[u] \in {"Running", "Active"}
        BY <1>1, <2>1, <3>1, Zenon DEF SafeInv, ResumeNotLost
      <4> QED
        BY <1>1, <1>2, <2>1, <4>1, Zenon
    <3> QED
      BY <3>1, Zenon DEF ResumeNotLost
  <2> QED
    BY <2>3, <2>4, <2>5, <2>6, <2>7, <2>8, Zenon DEF SafeInv
<1> QED
  BY <1>3, <1>4, Zenon

(* schedule() signals the term events of the tasks it reaped, and ends the  *)
(* waits whose time is over.                                                *)
LEMMA NotifyWatchersSafe ==
  ASSUME PlaceInv, SafeInv, NEW c \in Cpu, NotifyWatchers(c)
  PROVE  SafeInv'
<1> TypeOK
  BY Zenon DEF PlaceInv
<1>1. UNCHANGED <<pc, arg, running, killVars, stackVars, resumed>>
  BY Zenon DEF NotifyWatchers
<1>2. ASSUME NEW s \in events[c], events' = [events EXCEPT ![c] = @ \ {s}], DoSignal(c, s, holds)
      PROVE  SafeInv'
  <2>1. s \in Sem /\ s # NoSem /\ \A d \in Cpu : events'[d] \subseteq events[d]
    <3>1. events \in [Cpu -> SUBSET Sem] /\ NoSem \notin Sem
      BY SemAssumption, Zenon DEF TypeOK
    <3>2. s \in Sem /\ s # NoSem
      BY <1>2, <3>1, Zenon
    <3> QED
      BY <1>2, <3>1, <3>2, Zenon
  <2>2. Kind[s] = "manual" /\ \A t \in Task : TermEvent[t] = s => status[t] = "Reaped"
    BY <1>2, Zenon DEF SafeInv, NotifiesReaped
  <2>3. /\ broadcast' = [broadcast EXCEPT ![c] = s] /\ holds' = holds /\ NoWake
        /\ UNCHANGED semVars
    BY <1>2, <2>2, Zenon DEF DoSignal
  <2> QED
    BY <1>1, <2>1, <2>2, <2>3, StartBroadcast, Zenon
<1>3. ASSUME NEW r \in expired[c], DoSignalOnTask(c, r[2], r[1], "TimerExpiry"),
             UNCHANGED <<events, broadcast>>
      PROVE  SafeInv'
  <2>1. r[1] \in Task /\ r[2] \in Sem
    BY <1>3 DEF TypeOK
  <2>2. CASE /\ r[1] \in Elems(blocked[r[2]]) /\ Withdraw(r[2], r[1])
             /\ WakeTask(c, r[1], r[2], "TimerExpiry", holds)
    BY <1>1, <1>3, <2>1, <2>2, WithdrawSafe, Zenon
  <2>3. CASE holds' = holds /\ NoWake /\ UNCHANGED semVars
    <3>1. UNCHANGED <<semVars, holds, status, waitSem, cause>>
      BY <2>3, Zenon DEF NoWake
    <3>2. ReapedKept
      BY <3>1, Zenon DEF ReapedKept
    <3> QED
      BY <1>1, <1>3, <3>1, <3>2, ObjectsSame, NobodyWoken, Zenon
  <2> QED
    BY <1>3, <2>2, <2>3, Zenon DEF DoSignalOnTask
<1> QED
  BY <1>2, <1>3, Zenon DEF NotifyWatchers

(* The Wake::All loop wakes the waiters of an event one by one, and signals *)
(* it when none is left.                                                    *)
LEMMA BroadcastSafe ==
  ASSUME PlaceInv, SafeInv, NEW c \in Cpu, Broadcast(c)
  PROVE  SafeInv'
<1> TypeOK
  BY Zenon DEF PlaceInv
<1> DEFINE s == broadcast[c]
<1>1. /\ s \in Sem /\ Kind[s] = "manual" /\ Locked(s)
      /\ UNCHANGED <<pc, arg, running, events, killVars, stackVars, resumed>>
  BY Zenon DEF Broadcast, TypeOK, SafeInv, NotifiesReaped, Locked
<1>2. ~IsSem(s) /\ s \notin Mutex
  BY <1>1, SemAssumption, Zenon DEF IsSem
<1>3. \/ /\ CanWake(s) /\ BroadcastWoke(s) /\ UNCHANGED broadcast
         /\ WakeTask(c, Head(blocked[s]), s, "Normal", holds)
      \/ /\ ~CanWake(s) /\ BroadcastDone(s) /\ holds' = holds /\ NoWake
         /\ broadcast' = [broadcast EXCEPT ![c] = NoSem]
  BY Zenon DEF Broadcast
<1> HIDE DEF s
<1>4. CASE /\ CanWake(s) /\ BroadcastWoke(s) /\ UNCHANGED broadcast
           /\ WakeTask(c, Head(blocked[s]), s, "Normal", holds)
  <2>1. /\ blocked[s] \in Seq(Task) /\ blocked[s] # << >> /\ NoRepeats(blocked[s])
        /\ Head(blocked[s]) \in Elems(blocked[s])
    BY <1>1, <1>4, HeadWaits, ListMembers, Zenon DEF SafeInv, ListsWaiters
  <2>2. /\ blocked'[s] = Tail(blocked[s]) /\ \A x \in Sem : x # s => blocked'[x] = blocked[x]
        /\ UNCHANGED <<counter, signalled>>
    BY <1>1, <1>4, Zenon DEF BroadcastWoke, TypeOK
  <2>3. /\ Len(blocked'[s]) = Len(blocked[s]) - 1 /\ NoRepeats(blocked'[s])
        /\ Elems(blocked'[s]) = Elems(blocked[s]) \ {Head(blocked[s])}
    BY <2>1, <2>2, TailList, Zenon
  <2>4. counter'[s] = IF IsSem(s) THEN Capped(s, counter[s] + 1) ELSE counter[s]
    BY <1>2, <2>2, Zenon
  <2>5. /\ \A d \in Cpu : broadcast'[d] = broadcast[d] /\ events'[d] \subseteq events[d]
        /\ \A u \in Task : pc'[u] = pc[u] /\ arg'[u] = arg[u]
        /\ \A x \in Sem : x # s => blocked'[x] = blocked[x] /\ counter'[x] = counter[x]
    BY <1>1, <1>4, <2>2, Zenon
  <2> QED
    BY <1>1, <1>2, <1>4, <2>1, <2>2, <2>3, <2>4, <2>5, WakeHolding, Zenon
<1>5. CASE /\ ~CanWake(s) /\ BroadcastDone(s) /\ holds' = holds /\ NoWake
           /\ broadcast' = [broadcast EXCEPT ![c] = NoSem]
  <2>1. /\ UNCHANGED <<counter, blocked, status, waitSem, cause, holds>>
        /\ \A x \in Sem : x # s => signalled'[x] = signalled[x]
        /\ \A d \in Cpu : broadcast'[d] \in {broadcast[d], NoSem}
    BY <1>1, <1>5, Zenon DEF BroadcastDone, NoWake, TypeOK
  <2>2. ReapedKept
    BY <2>1, Zenon DEF ReapedKept
  <2>3. NotifiesReaped'
    BY <1>1, <2>1, <2>2, SameNotify, Zenon DEF SafeInv
  <2>4. JoinAfterReap'
    <3>1. ASSUME NEW t \in Task, TermEvent[t] # NoSem
          PROVE  /\ signalled'[TermEvent[t]] => status'[t] = "Reaped"
                 /\ Locked(TermEvent[t])' => status'[t] = "Reaped"
      <4>1. Locked(TermEvent[t])' => Locked(TermEvent[t])
        BY <2>1, <3>1, Zenon DEF Locked
      <4>2. TermEvent[t] \in Sem
        BY <3>1, SemAssumption, Zenon
      <4>3. /\ signalled[TermEvent[t]] => status[t] = "Reaped"
            /\ Locked(TermEvent[t]) => status[t] = "Reaped"
        BY <3>1, Zenon DEF SafeInv, JoinAfterReap
      <4> QED
        BY <1>1, <2>1, <4>1, <4>2, <4>3, Zenon
    <3> QED
      BY <3>1, Zenon DEF JoinAfterReap
  <2>5. ASSUME NEW x \in Sem PROVE ListsWaiters(x)' /\ UnitsSound(x)'
    <3>1. Elems(blocked[x]) \subseteq Task /\ ListsWaiters(x) /\ UnitsSound(x)
      BY ListMembers, Zenon DEF TypeOK, SafeInv
    <3>2. ListsWaiters(x)'
      BY <2>1, <3>1, SameLists, Zenon
    <3>3. CASE x # s
      BY <2>1, <3>1, <3>2, <3>3, SameUnits, Zenon
    <3>4. CASE x = s
      <4>1. blocked'[s] = << >>
        BY <1>1, <1>5, <2>1, HeadWaits, Zenon
      <4> QED
        BY <1>2, <3>2, <3>4, <4>1, Zenon DEF UnitsSound
    <3> QED
      BY <3>3, <3>4, Zenon
  <2> QED
    BY <1>1, <2>1, <2>3, <2>4, <2>5, NobodyWoken, Zenon
<1> QED
  BY <1>3, <1>4, <1>5, Zenon

-----------------------------------------------------------------------------
(* The invariant.                                                           *)

(* At the start no task waits, holds or is dead.                           *)
LEMMA InitSafe ==
  ASSUME Init
  PROVE  SafeInv
<1>1. PlaceInv
  BY InitPlace, Zenon
<1>2. /\ \A t \in Task : /\ status[t] \in {"Active", "New"} /\ waitSem[t] = NoSem
                         /\ pc[t] \in {"held", "init", "kern"} /\ holds[t] = {}
      /\ pendingKill = {} /\ safeToKill = {} /\ resumed = {} /\ freed = {}
      /\ \A c \in Cpu : /\ running[c] = NoTask /\ broadcast[c] = NoSem
                        /\ events[c] = {} /\ leftover[c] = {}
  BY Zenon DEF Init
<1>3. \A s \in Sem : blocked[s] = << >> /\ signalled[s] = FALSE /\ counter[s] = InitCount[s]
  BY Zenon DEF Init, KSemInit
<1>4. ASSUME NEW t \in Task PROVE StatusMatchesPc(t)
  BY <1>2, Zenon DEF StatusMatchesPc, Waits
<1>5. ASSUME NEW s \in Sem PROVE ListsWaiters(s) /\ UnitsSound(s)
  <2>1. ListsWaiters(s)
    BY <1>2, <1>3, SemAssumption DEF ListsWaiters, Elems, NoRepeats
  <2>2. Cardinality(Holders(s)) = 0
    <3>1. Holders(s) = {}
      BY <1>2, Zenon DEF Holders
    <3> QED
      BY <3>1, FS_EmptySet, Zenon
  <2>3. Len(blocked[s]) = 0 /\ InitCount[s] \in Nat /\ MaxCount[s] \in Nat
    BY <1>3, CountAssumption
  <2>4. counter[s] <= MaxCount[s] /\ counter[s] >= 0
    BY <1>3, CountAssumption
  <2>5. s \in Mutex => counter[s] = MaxCount[s]
    BY <1>3, SemAssumption, Zenon
  <2>6. UnitsSound(s)
    <3>1. Len(blocked[s]) = (IF counter[s] < 0 THEN -counter[s] ELSE 0)
      BY <1>3, <2>3, <2>4
    <3>2. s \in Mutex => counter[s] + Cardinality(Holders(s)) + Len(blocked[s]) = MaxCount[s]
      BY <2>2, <2>3, <2>5
    <3>3. blocked[s] = << >>
      BY <1>3, Zenon
    <3> QED
      BY <2>4, <3>1, <3>2, <3>3, Zenon DEF UnitsSound
  <2> QED
    BY <2>1, <2>6, Zenon
<1>6. NotifiesReaped /\ StacksSound
  BY <1>2, Zenon DEF NotifiesReaped, StacksSound
<1>7. JoinAfterReap
  BY <1>2, <1>3, SemAssumption, Zenon DEF JoinAfterReap, Locked
<1>8. ResultMatchesGrant /\ DyingIsInterrupted /\ ResumeNotLost
  BY <1>2, Zenon DEF ResultMatchesGrant, DyingIsInterrupted, ResumeNotLost
<1> QED
  BY <1>4, <1>5, <1>6, <1>7, <1>8, Zenon DEF SafeInv

(* Every step keeps the invariant, when kernel threads are not killed from *)
(* outside.                                                                *)
LEMMA NextSafe ==
  ASSUME Killable = {}, PlaceInv, SafeInv, [Next]_vars
  PROVE  SafeInv'
<1>1. CASE UNCHANGED vars
  <2>1. UNCHANGED <<semVars, status, pc, arg, running, waitSem, cause, holds, events,
                    broadcast, killVars, stackVars, resumed>>
    BY <1>1, Zenon DEF vars, queueVars, waitVars, notifyVars
  <2>2. ReapedKept /\ TypeOK
    BY <2>1, Zenon DEF ReapedKept, PlaceInv
  <2> QED
    BY <2>1, <2>2, ObjectsSame, NobodyWoken, Zenon
<1>2. ASSUME NEW c \in Cpu, CpuStep(c) PROVE SafeInv'
  BY <1>2, InterruptsSafe, ScheduleSafe, NotifyWatchersSafe, BroadcastSafe, Zenon DEF CpuStep
<1>3. ASSUME NEW c \in Cpu, NEW t \in Task, TaskStep(c, t) PROVE SafeInv'
  <2>1. ASSUME NEW s \in Sem, Wait(c, t, s) PROVE SafeInv'
    <3>1. PICK ticks \in (-1) .. MaxTicks,
               intr \in (IF t \in UserTask THEN BOOLEAN ELSE {FALSE}) :
             WaitFail(c, t, s, ticks, intr) \/ WaitBlock(c, t, s, ticks, intr)
      BY <2>1, Zenon DEF Wait
    <3>2. intr \in BOOLEAN
      BY Zenon
    <3> QED
      BY <3>1, <3>2, WaitFailSafe, WaitBlockSafe, Zenon
  <2>2. ASSUME NEW s \in Sem, WaitTake(c, t, s) \/ Signal(c, t, s) \/ ResetEvent(c, t, s)
        PROVE  SafeInv'
    BY <2>2, WaitTakeSafe, SignalSafe, ResetEventSafe, Zenon
  <2>3. ASSUME NEW v \in Task, StartTask(c, t, v) \/ SafeKill(c, t, v) \/ ResumeProcess(c, t, v)
        PROVE  SafeInv'
    BY <2>3, StartTaskSafe, CallSafe, Zenon
  <2>4. \A v \in Task : ~KillThread(c, t, v)
    BY Zenon DEF KillThread
  <2>5. ~DropTask(c, t)
    BY Zenon DEF DropTask, At, SafeInv, StatusMatchesPc
  <2>6. CASE \/ WaitReturn(c, t) \/ TransferToUser(c, t) \/ SyscallEnter(c, t)
             \/ SyscallExit(c, t) \/ SuspendProcess(c, t)
    BY <2>6, OwnMoves, Zenon
  <2>7. CASE InterruptWait(c, t) \/ ResumeTask(c, t) \/ ExitThread(c, t)
    BY <2>7, InterruptWaitSafe, ResumeTaskSafe, ExitThreadSafe, Zenon
  <2> QED
    BY <1>3, <2>1, <2>2, <2>3, <2>4, <2>5, <2>6, <2>7, Zenon DEF TaskStep
<1> QED
  BY <1>1, <1>2, <1>3, Zenon DEF Next

(* The inductive invariant of semaphores, deaths and wake-ups.             *)
LEMMA SafeInvariance ==
  ASSUME Killable = {}
  PROVE  Spec => [](PlaceInv /\ SafeInv)
<1>1. Init => PlaceInv /\ SafeInv
  BY InitPlace, InitSafe, Zenon
<1>2. PlaceInv /\ SafeInv /\ [Next]_vars => PlaceInv' /\ SafeInv'
  BY NextPlace, NextSafe, Zenon
<1> QED
  BY <1>1, <1>2, PTL DEF Spec

(* The counters of semaphores match their waiters, the units of a mutex its *)
(* holders and waiters, a wait tells whether it got the mutex, and a marked *)
(* task in an interruptible wait is about to be interrupted (semaphore.rs,  *)
(* scheduler.rs): for any tasks, CPUs and objects, if no kernel task is     *)
(* killed from outside.  With such a kill a unit can be lost.               *)
THEOREM SemaphoresSoundAlways ==
  ASSUME Killable = {}
  PROVE  Spec => []SemaphoresSound
<1>1. PlaceInv /\ SafeInv => SemaphoresSound
  <2> SUFFICES ASSUME PlaceInv, SafeInv PROVE SemaphoresSound
    BY Zenon
  <2>1. CounterMatchesWaiters
    BY Zenon DEF SafeInv, UnitsSound, CounterMatchesWaiters
  <2>2. ASSUME NEW s \in Mutex
        PROVE  /\ Cardinality(Holders(s)) <= MaxCount[s]
               /\ counter[s] + Cardinality(Holders(s)) + Len(blocked[s]) = MaxCount[s]
    <3>1. s \in Sem /\ IsSem(s)
      BY SemAssumption, Zenon
    <3>2. /\ counter[s] + Cardinality(Holders(s)) + Len(blocked[s]) = MaxCount[s]
          /\ Len(blocked[s]) = (IF counter[s] < 0 THEN -counter[s] ELSE 0)
      BY <3>1, Zenon DEF SafeInv, UnitsSound
    <3>3. counter[s] \in Int /\ Cardinality(Holders(s)) \in Nat
      BY <3>1, HoldersFinite, Zenon DEF PlaceInv, TypeOK
    <3> QED
      BY <3>2, <3>3
  <2> QED
    BY <2>1, <2>2, Zenon DEF SafeInv, SemaphoresSound, UnitsConserved
<1> QED
  BY <1>1, SafeInvariance, PTL

(* A resume_process is not lost against the suspension it answers, a        *)
(* signalled event has no waiter left behind, a join returns only when the  *)
(* joined task was reaped, and a task is on a blocked_list exactly while it *)
(* waits for the object.                                                    *)
THEOREM WakeUpsKeptAlways ==
  ASSUME Killable = {}
  PROVE  Spec => [](ResumeNotLost /\ SignalLeavesNoWaiter /\ JoinAfterReap /\ BlockedWait)
<1>1. PlaceInv /\ SafeInv => ResumeNotLost /\ SignalLeavesNoWaiter /\ JoinAfterReap /\ BlockedWait
  <2> SUFFICES ASSUME PlaceInv, SafeInv
               PROVE  ResumeNotLost /\ SignalLeavesNoWaiter /\ JoinAfterReap /\ BlockedWait
    BY Zenon
  <2>1. SignalLeavesNoWaiter
    BY Zenon DEF SafeInv, UnitsSound, SignalLeavesNoWaiter
  <2>2. ASSUME NEW s \in Sem, NEW t \in Elems(blocked[s])
        PROVE  waitSem[t] = s /\ status[t] \in Waits
    BY <2>2, HeadWaits, Zenon DEF PlaceInv
  <2>3. ASSUME NEW t \in Task, status[t] \in Waits
        PROVE  waitSem[t] # NoSem /\ t \in Elems(blocked[waitSem[t]])
    <3>1. waitSem[t] \in Sem
      BY <2>3, Zenon DEF PlaceInv, WaitsForObject
    <3> QED
      BY <3>1, SemAssumption, Zenon DEF SafeInv, ListsWaiters
  <2>4. \A s \in Sem : NoRepeats(blocked[s])
    BY Zenon DEF SafeInv, ListsWaiters
  <2>5. BlockedWait
    BY <2>2, <2>3, <2>4, Zenon DEF BlockedWait
  <2> QED
    BY <2>1, <2>5, Zenon DEF SafeInv
<1> QED
  BY <1>1, SafeInvariance, PTL

(* A user task that others kill dies in user mode or at the end of a        *)
(* syscall, holding no mutex and waiting for nothing (safe_kill_thread), or *)
(* in its own exit_thread, and no stack is unmapped while a CPU still       *)
(* executes on it (reap_tasks, flip_flop), if no kernel task is killed from *)
(* outside.  With such a kill a CPU can unmap the stack it is on.           *)
THEOREM DiesSafelyAlways ==
  ASSUME Killable = {}
  PROVE  Spec => DiesSafely
<1>1. PlaceInv /\ SafeInv /\ [Next]_vars => [DiesSafelyStep]_vars
  BY CpuDies, TaskDies, Zenon DEF Next
<1>2. Spec => [][DiesSafelyStep]_vars
  BY <1>1, SafeInvariance, PTL DEF Spec
<1> QED
  BY <1>2, Zenon DEF DiesSafely, DiesSafelyStep
=============================================================================
