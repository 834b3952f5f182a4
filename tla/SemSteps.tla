------------------------------ MODULE SemSteps ------------------------------
(***************************************************************************)
(* Lemmas for SemProofs: the steps of Sched that need no counting of the   *)
(* holders of a mutex keep SafeInv, and what a step may do to a task that  *)
(* dies.                                                                   *)
(***************************************************************************)
EXTENDS SchedProofs

-----------------------------------------------------------------------------
(* Lists.                                                                   *)

(* The oldest waiter leaves the list.                                       *)
LEMMA TailList ==
  ASSUME NEW q \in Seq(Task), NoRepeats(q), q # << >>
  PROVE  /\ Tail(q) \in Seq(Task) /\ Len(Tail(q)) = Len(q) - 1
         /\ NoRepeats(Tail(q)) /\ Elems(Tail(q)) = Elems(q) \ {Head(q)}
<1> DEFINE r == Tail(q)
<1>1. /\ r \in Seq(Task) /\ Len(r) = Len(q) - 1 /\ DOMAIN r = 1 .. Len(q) - 1
      /\ \A i \in 1 .. Len(q) - 1 : r[i] = q[i + 1]
      /\ DOMAIN q = 1 .. Len(q) /\ Len(q) \in Nat /\ Len(q) > 0 /\ Head(q) = q[1]
  OBVIOUS
<1> HIDE DEF r
<1>2. NoRepeats(r)
  <2>1. ASSUME NEW i \in DOMAIN r, NEW j \in DOMAIN r, r[i] = r[j] PROVE i = j
    <3>1. q[i + 1] = q[j + 1] /\ i + 1 \in DOMAIN q /\ j + 1 \in DOMAIN q
      BY <1>1, <2>1
    <3>2. i + 1 = j + 1
      BY <3>1, Zenon DEF NoRepeats
    <3> QED
      BY <1>1, <3>2
  <2> QED
    BY <2>1, Zenon DEF NoRepeats
<1>3. Elems(r) = Elems(q) \ {Head(q)}
  <2>1. ASSUME NEW x \in Elems(r) PROVE x \in Elems(q) /\ x # Head(q)
    <3>1. PICK i \in DOMAIN r : x = r[i]
      BY Zenon DEF Elems
    <3>2. i + 1 \in DOMAIN q /\ x = q[i + 1] /\ 1 \in DOMAIN q /\ i + 1 # 1
      BY <1>1, <3>1
    <3> QED
      BY <3>2, <1>1, Zenon DEF Elems, NoRepeats
  <2>2. ASSUME NEW x \in Elems(q), x # Head(q) PROVE x \in Elems(r)
    <3>1. PICK i \in DOMAIN q : x = q[i]
      BY Zenon DEF Elems
    <3>2. i - 1 \in DOMAIN r /\ r[i - 1] = q[i]
      BY <1>1, <2>2, <3>1
    <3> QED
      BY <3>1, <3>2, Zenon DEF Elems
  <2> QED
    BY <2>1, <2>2, Zenon
<1> QED
  BY <1>1, <1>2, <1>3, Zenon DEF r

(* A waiter leaves the list it is on.                                       *)
LEMMA WithoutLength ==
  ASSUME NEW q \in Seq(Task), NEW t \in Elems(q)
  PROVE  Len(Without(q, t)) = Len(q) - 1
<1>1. Without(q, t) = DropAt(q, PositionOf(q, t))
  BY Zenon DEF Without
<1>2. Len(q) \in Nat /\ Len(q) > 0
  BY DEF Elems
<1>3. DropAt(q, PositionOf(q, t)) = [j \in 1 .. (Len(q) - 1) |->
          IF j < PositionOf(q, t) THEN q[j] ELSE q[j + 1]]
  BY Zenon DEF DropAt
<1>4. Without(q, t) \in Seq(Task)
  BY WithoutList, ListMembers, Zenon
<1>5. DOMAIN Without(q, t) = 1 .. Len(q) - 1
  BY <1>1, <1>3, Zenon
<1>6. DOMAIN Without(q, t) = 1 .. Len(Without(q, t)) /\ Len(Without(q, t)) \in Nat
  BY <1>4
<1> QED
  BY <1>2, <1>5, <1>6

-----------------------------------------------------------------------------
(* What leaves each part of the invariant alone.                            *)

(* Of a blocked list: the waiters of the object are the same, and nobody   *)
(* got it.                                                                 *)
LEMMA SameLists ==
  ASSUME NEW s \in Sem, ListsWaiters(s), blocked'[s] = blocked[s],
         \A u \in Task : waitSem'[u] = s <=> waitSem[u] = s,
         \A u \in Task : s \in holds'[u] => s \in holds[u],
         Elems(blocked[s]) \subseteq Task
  PROVE  ListsWaiters(s)'
  BY Zenon DEF ListsWaiters

(* Of the units: the counter, the list and the holders are the same.       *)
LEMMA SameUnits ==
  ASSUME NEW s \in Sem, UnitsSound(s), counter'[s] = counter[s],
         blocked'[s] = blocked[s], signalled'[s] => signalled[s],
         \A u \in Task : s \in holds'[u] <=> s \in holds[u]
  PROVE  UnitsSound(s)'
<1>1. Holders(s)' = Holders(s)
  BY Zenon DEF Holders
<1> QED
  BY <1>1, Zenon DEF UnitsSound

(* The statuses of the dead are those of before.                            *)
DeadKept == \A u \in Task : \/ status'[u] = status[u]
                            \/ /\ status[u] \notin {"Terminated", "Reaped"}
                               /\ status'[u] \notin {"Terminated", "Reaped"}

ReapedKept == \A u \in Task : status[u] = "Reaped" => status'[u] = "Reaped"

(* Of the term events to signal: none was added, and the reaped stay       *)
(* reaped.                                                                 *)
LEMMA SameNotify ==
  ASSUME NotifiesReaped, ReapedKept,
         \A c \in Cpu : /\ broadcast'[c] \in {broadcast[c], NoSem}
                        /\ events'[c] \subseteq events[c]
  PROVE  NotifiesReaped'
  BY Zenon DEF NotifiesReaped, ReapedKept

(* Of the joins: no term event was signalled.                              *)
LEMMA SameJoin ==
  ASSUME JoinAfterReap, ReapedKept,
         \A s \in Sem : signalled'[s] => signalled[s],
         \A c \in Cpu : broadcast'[c] \in {broadcast[c], NoSem}
  PROVE  JoinAfterReap'
<1>1. ASSUME NEW t \in Task, TermEvent[t] # NoSem
      PROVE  /\ signalled'[TermEvent[t]] => status'[t] = "Reaped"
             /\ Locked(TermEvent[t])' => status'[t] = "Reaped"
  <2>1. TermEvent[t] \in Sem
    BY <1>1, SemAssumption, Zenon
  <2>2. Locked(TermEvent[t])' => Locked(TermEvent[t])
    BY <1>1, Zenon DEF Locked
  <2>3. /\ signalled[TermEvent[t]] => status[t] = "Reaped"
        /\ Locked(TermEvent[t]) => status[t] = "Reaped"
    BY <1>1, Zenon DEF JoinAfterReap
  <2>4. status[t] = "Reaped" => status'[t] = "Reaped"
    BY Zenon DEF ReapedKept
  <2> QED
    BY <2>1, <2>2, <2>3, <2>4, Zenon
<1> QED
  BY <1>1, Zenon DEF JoinAfterReap

(* Of the stacks: nothing was reaped, dropped or switched.                 *)
LEMMA SameStacks ==
  ASSUME TypeOK, StacksSound, DeadKept, UNCHANGED <<running, leftover, flipFlop, freed>>
  PROVE  StacksSound'
<1>1. /\ freed \subseteq Task /\ \A c \in Cpu : leftover[c] \subseteq Task
      /\ \A c \in Cpu : running[c] \in Task \cup {NoTask}
  BY Zenon DEF TypeOK
<1>2. ASSUME NEW u \in Task
      PROVE  /\ status'[u] = "Reaped" <=> status[u] = "Reaped"
             /\ status'[u] = "Terminated" <=> status[u] = "Terminated"
  BY Zenon DEF DeadKept
<1> QED
  BY <1>1, <1>2, Zenon DEF StacksSound

(* Every interruption and every resume under way goes on.                   *)
CallsKept == \A u \in Task : pc[u] \in {"intr", "resume"} /\ status[u] \in {"Running", "Active"} =>
                /\ pc'[u] = pc[u] /\ arg'[u] = arg[u] /\ status'[u] \in {"Running", "Active"}

(* Of the killed sleepers: their interruption goes on.                     *)
LEMMA SameDying ==
  ASSUME DyingIsInterrupted, CallsKept,
         \A u \in pendingKill' : status'[u] = "WaitingInterruptible" =>
            u \in pendingKill /\ status[u] = status'[u] /\ waitSem'[u] = waitSem[u]
  PROVE  DyingIsInterrupted'
<1>1. ASSUME NEW t \in pendingKill', status'[t] = "WaitingInterruptible"
      PROVE  \E u \in Task : /\ pc'[u] = "intr" /\ arg'[u] = <<t, waitSem'[t]>>
                             /\ status'[u] \in {"Running", "Active"}
  <2>1. PICK u \in Task : /\ pc[u] = "intr" /\ arg[u] = <<t, waitSem[t]>>
                          /\ status[u] \in {"Running", "Active"}
    BY <1>1, Zenon DEF DyingIsInterrupted
  <2> QED
    BY <1>1, <2>1, Zenon DEF CallsKept
<1> QED
  BY <1>1, Zenon DEF DyingIsInterrupted

(* Of the resumed: the call that wakes them goes on.                       *)
LEMMA SameResume ==
  ASSUME ResumeNotLost, CallsKept,
         \A u \in resumed' : status'[u] = "Suspended" => u \in resumed /\ status[u] = status'[u]
  PROVE  ResumeNotLost'
<1>1. ASSUME NEW t \in resumed', status'[t] = "Suspended"
      PROVE  \E u \in Task : /\ pc'[u] = "resume" /\ arg'[u][1] = t
                             /\ status'[u] \in {"Running", "Active"}
  <2>1. PICK u \in Task : /\ pc[u] = "resume" /\ arg[u][1] = t
                          /\ status[u] \in {"Running", "Active"}
    BY <1>1 DEF ResumeNotLost
  <2> QED
    BY <1>1, <2>1, Zenon DEF CallsKept
<1> QED
  BY <1>1, Zenon DEF ResumeNotLost

(* Of the results of waits: who returns from one did so before.            *)
LEMMA SameResults ==
  ASSUME ResultMatchesGrant,
         \A u \in Task : pc'[u] \in {"waityield", "waitret"} /\ status'[u] \in {"Active", "Running"} =>
            /\ pc[u] \in {"waityield", "waitret"} /\ status[u] \in {"Active", "Running"}
            /\ arg'[u] = arg[u] /\ cause'[u] = cause[u]
            /\ arg[u][2] \in holds'[u] <=> arg[u][2] \in holds[u]
  PROVE  ResultMatchesGrant'
  BY Zenon DEF ResultMatchesGrant

(* Of the status and the place in the code of one task: both are the same. *)
LEMMA SamePlace ==
  ASSUME NEW u \in Task, StatusMatchesPc(u), status'[u] = status[u], pc'[u] = pc[u],
         arg'[u] = arg[u], waitSem'[u] = waitSem[u], holds'[u] \subseteq holds[u],
         u \in safeToKill' => u \in safeToKill
  PROVE  StatusMatchesPc(u)'
  BY Zenon DEF StatusMatchesPc

-----------------------------------------------------------------------------
(* Steps of a task that change only where it is.                            *)

(* A task that executes anything but its last yield is running.             *)
LEMMA AtRunning ==
  ASSUME SafeInv, NEW c \in Cpu, NEW t \in Task, NEW where, At(c, t, where), where # "exit"
  PROVE  status[t] = "Running" /\ pc[t] = where /\ waitSem[t] = NoSem /\ running[c] = t
  BY Zenon DEF SafeInv, StatusMatchesPc, At, Waits

(* t goes on to a place where it neither waits nor works on another task,   *)
(* from one where it did not work on another task.                          *)
LEMMA MoveOn ==
  ASSUME PlaceInv, SafeInv, NEW t \in Task, NEW where, NEW what, Goto(t, where, what),
         pc[t] \notin {"intr", "resume"}, where \notin {"waityield", "waitret"},
         StatusMatchesPc(t)',
         status' = [status EXCEPT ![t] = status'[t]],
         status[t] = "Running", status'[t] \in {"Running", "Suspended"},
         status'[t] = "Suspended" => t \notin resumed,
         \A u \in safeToKill' : u # t => u \in safeToKill,
         UNCHANGED <<semVars, running, waitSem, cause, holds, events, broadcast,
                     pendingKill, stackVars, resumed>>
  PROVE  SafeInv'
<1> TypeOK
  BY Zenon DEF PlaceInv
<1>1. \A u \in Task : u # t => pc'[u] = pc[u] /\ arg'[u] = arg[u] /\ status'[u] = status[u]
  BY Zenon DEF Goto, TypeOK
<1>2. pc'[t] = where
  BY Zenon DEF Goto, TypeOK
<1>3. ASSUME NEW u \in Task PROVE StatusMatchesPc(u)'
  BY <1>1, SamePlace, Zenon DEF SafeInv
<1>4. ASSUME NEW s \in Sem PROVE ListsWaiters(s)' /\ UnitsSound(s)'
  <2>1. Elems(blocked[s]) \subseteq Task
    BY ListMembers, Zenon DEF TypeOK
  <2> QED
    BY <2>1, SameLists, SameUnits, Zenon DEF SafeInv, semVars
<1>5. DeadKept /\ ReapedKept
  BY <1>1, Zenon DEF DeadKept, ReapedKept
<1>6. CallsKept
  BY <1>1, Zenon DEF CallsKept
<1>7. NotifiesReaped' /\ JoinAfterReap' /\ StacksSound'
  BY <1>5, SameNotify, SameJoin, SameStacks, Zenon DEF SafeInv, semVars, stackVars
<1>8. DyingIsInterrupted'
  <2>1. \A u \in pendingKill : u \in Task
    BY TaskAssumption, Zenon DEF TypeOK
  <2> QED
    BY <1>1, <1>6, <2>1, SameDying, Zenon DEF SafeInv
<1>9. ResumeNotLost'
  <2>1. \A u \in resumed : u \in Task
    BY Zenon DEF TypeOK
  <2> QED
    BY <1>1, <1>6, <2>1, SameResume, Zenon DEF SafeInv
<1>10. ResultMatchesGrant'
  BY <1>1, <1>2, SameResults, Zenon DEF SafeInv
<1> QED
  BY <1>3, <1>4, <1>7, <1>8, <1>9, <1>10, Zenon DEF SafeInv

(* A task moves between user mode, kernel and the end of a wait without a  *)
(* change of any object.                                                   *)
LEMMA OwnMoves ==
  ASSUME PlaceInv, SafeInv, NEW c \in Cpu, NEW t \in Task,
         \/ WaitReturn(c, t) \/ TransferToUser(c, t) \/ SyscallEnter(c, t)
         \/ SyscallExit(c, t) \/ SuspendProcess(c, t)
  PROVE  SafeInv'
<1> TypeOK
  BY Zenon DEF PlaceInv
<1>0. StatusMatchesPc(t) /\ status = [status EXCEPT ![t] = status[t]]
  BY Zenon DEF SafeInv, TypeOK
<1>m. ASSUME NEW where, NEW what, Goto(t, where, what)
      PROVE  pc'[t] = where /\ \A st : [status EXCEPT ![t] = st][t] = st
  BY <1>m, Zenon DEF Goto, TypeOK
<1>1. CASE WaitReturn(c, t)
  <2>1. /\ status[t] = "Running" /\ pc[t] = "waitret" /\ waitSem[t] = NoSem
        /\ Goto(t, "kern", Nothing) /\ pc'[t] = "kern"
        /\ UNCHANGED <<semVars, status, queueVars, waitVars, notifyVars, killVars,
                       stackVars, clockVars, resumed>>
    BY <1>1, <1>m, AtRunning, Zenon DEF WaitReturn
  <2>2. StatusMatchesPc(t)'
    BY <1>0, <2>1, Zenon DEF StatusMatchesPc, Waits, waitVars, killVars
  <2> QED
    BY <1>0, <2>1, <2>2, MoveOn, Zenon DEF waitVars, killVars, queueVars, notifyVars
<1>2. CASE TransferToUser(c, t)
  <2>1. /\ status[t] = "Running" /\ pc[t] = "init" /\ waitSem[t] = NoSem
        /\ Goto(t, "user", Nothing) /\ pc'[t] = "user"
        /\ UNCHANGED <<semVars, status, queueVars, waitVars, notifyVars, killVars,
                       stackVars, clockVars, resumed>>
    BY <1>2, <1>m, AtRunning, Zenon DEF TransferToUser
  <2>2. StatusMatchesPc(t)'
    BY <1>0, <2>1, Zenon DEF StatusMatchesPc, Waits, waitVars, killVars
  <2> QED
    BY <1>0, <2>1, <2>2, MoveOn, Zenon DEF waitVars, killVars, queueVars, notifyVars
<1>3. CASE SyscallEnter(c, t)
  <2>1. /\ status[t] = "Running" /\ pc[t] = "user" /\ waitSem[t] = NoSem
        /\ Goto(t, "kern", Nothing) /\ pc'[t] = "kern"
        /\ UNCHANGED <<semVars, status, queueVars, waitVars, notifyVars, killVars,
                       stackVars, clockVars, resumed>>
    BY <1>3, <1>m, AtRunning, Zenon DEF SyscallEnter
  <2>2. StatusMatchesPc(t)'
    BY <1>0, <2>1, Zenon DEF StatusMatchesPc, Waits, waitVars, killVars
  <2> QED
    BY <1>0, <2>1, <2>2, MoveOn, Zenon DEF waitVars, killVars, queueVars, notifyVars
<1>4. CASE SyscallExit(c, t)
  <2>1. /\ status[t] = "Running" /\ pc[t] = "kern" /\ waitSem[t] = NoSem /\ holds[t] = {}
        /\ UNCHANGED <<semVars, status, queueVars, waitVars, notifyVars, pendingKill,
                       stackVars, clockVars, resumed>>
    BY <1>4, AtRunning, Zenon DEF SyscallExit
  <2>2. PICK where \in {"exit", "user"} :
          /\ Goto(t, where, Nothing) /\ pc'[t] = where
          /\ \A u \in safeToKill' : u # t => u \in safeToKill
          /\ t \in safeToKill' => where = "exit"
    BY <1>0, <1>4, <1>m, <2>1 DEF SyscallExit, StatusMatchesPc
  <2>3. StatusMatchesPc(t)'
    BY <1>0, <2>1, <2>2, Zenon DEF StatusMatchesPc, Waits, waitVars, killVars
  <2> QED
    BY <1>0, <2>1, <2>2, <2>3, MoveOn, Zenon DEF waitVars, killVars, queueVars, notifyVars
<1>5. CASE SuspendProcess(c, t)
  <2>1. /\ status[t] = "Running" /\ pc[t] = "held" /\ waitSem[t] = NoSem
        /\ UNCHANGED <<semVars, queueVars, waitVars, notifyVars, killVars, stackVars,
                       clockVars, resumed>>
    BY <1>5, AtRunning, Zenon DEF SuspendProcess
  <2>2. PICK where \in {"suspyield", "init"} :
          /\ Goto(t, where, Nothing) /\ pc'[t] = where
          /\ status' = [status EXCEPT ![t] = status'[t]]
          /\ \/ status'[t] = "Running"
             \/ status'[t] = "Suspended" /\ t \notin resumed /\ where = "suspyield"
    BY <1>0, <1>5, <1>m, <2>1, Zenon DEF SuspendProcess
  <2>3. StatusMatchesPc(t)'
    BY <1>0, <2>1, <2>2, Zenon DEF StatusMatchesPc, Waits, waitVars, killVars
  <2> QED
    BY <1>0, <2>1, <2>2, <2>3, MoveOn, Zenon DEF waitVars, killVars, queueVars, notifyVars
<1> QED
  BY <1>1, <1>2, <1>3, <1>4, <1>5, Zenon

-----------------------------------------------------------------------------
(* Steps of a task that leave the objects and the waits alone.              *)

(* What such a step keeps whatever it does to the statuses.                 *)
LEMMA ObjectsSame ==
  ASSUME TypeOK, SafeInv, ReapedKept,
         UNCHANGED <<semVars, waitSem, holds, events, broadcast>>
  PROVE  /\ \A s \in Sem : ListsWaiters(s)' /\ UnitsSound(s)'
         /\ NotifiesReaped' /\ JoinAfterReap'
<1>1. ASSUME NEW s \in Sem PROVE ListsWaiters(s)' /\ UnitsSound(s)'
  <2>1. Elems(blocked[s]) \subseteq Task
    BY ListMembers, Zenon DEF TypeOK
  <2> QED
    BY <2>1, SameLists, SameUnits, Zenon DEF SafeInv, semVars
<1>2. NotifiesReaped' /\ JoinAfterReap'
  BY SameNotify, SameJoin, Zenon DEF SafeInv, semVars
<1> QED
  BY <1>1, <1>2, Zenon

(* create_thread + start_task.                                              *)
LEMMA StartTaskSafe ==
  ASSUME PlaceInv, SafeInv, NEW c \in Cpu, NEW t \in Task, NEW v \in Task, StartTask(c, t, v)
  PROVE  SafeInv'
<1> TypeOK
  BY Zenon DEF PlaceInv
<1>1. /\ status[v] = "New" /\ status'[v] = "Active"
      /\ \A u \in Task : u # v => status'[u] = status[u]
      /\ UNCHANGED <<semVars, pc, arg, running, waitVars, notifyVars, killVars, stackVars, resumed>>
  BY Zenon DEF StartTask, TypeOK
<1>2. DeadKept /\ ReapedKept /\ CallsKept
  BY <1>1, Zenon DEF DeadKept, ReapedKept, CallsKept
<1>3. /\ \A s \in Sem : ListsWaiters(s)' /\ UnitsSound(s)'
      /\ NotifiesReaped' /\ JoinAfterReap'
  BY <1>1, <1>2, ObjectsSame, Zenon DEF waitVars, notifyVars
<1>4. ASSUME NEW u \in Task PROVE StatusMatchesPc(u)'
  <2>1. CASE u = v
    BY <1>1, <2>1, Zenon DEF SafeInv, StatusMatchesPc, Waits, waitVars, killVars
  <2>2. CASE u # v
    BY <1>1, <2>2, SamePlace, Zenon DEF SafeInv, waitVars, killVars
  <2> QED
    BY <2>1, <2>2, Zenon
<1>5. StacksSound'
  BY <1>1, <1>2, SameStacks, Zenon DEF SafeInv, stackVars
<1>6. DyingIsInterrupted'
  <2>1. \A u \in pendingKill : u \in Task
    BY TaskAssumption, Zenon DEF TypeOK
  <2> QED
    BY <1>1, <1>2, <2>1, SameDying, Zenon DEF SafeInv, waitVars, killVars
<1>7. ResumeNotLost'
  <2>1. \A u \in resumed : u \in Task
    BY Zenon DEF TypeOK
  <2> QED
    BY <1>1, <1>2, <2>1, SameResume, Zenon DEF SafeInv
<1>8. ResultMatchesGrant'
  <2>1. pc[v] \notin {"waityield", "waitret"}
    BY <1>1, Zenon DEF SafeInv, StatusMatchesPc
  <2> QED
    BY <1>1, <2>1, SameResults, Zenon DEF SafeInv, waitVars
<1> QED
  BY <1>3, <1>4, <1>5, <1>6, <1>7, <1>8, Zenon DEF SafeInv

(* safe_kill_thread marks a task, and is itself the interruption the mark   *)
(* calls for; resume_process likewise.                                      *)
LEMMA CallSafe ==
  ASSUME PlaceInv, SafeInv, NEW c \in Cpu, NEW t \in Task, NEW v \in Task,
         SafeKill(c, t, v) \/ ResumeProcess(c, t, v)
  PROVE  SafeInv'
<1> TypeOK
  BY Zenon DEF PlaceInv
<1>1. /\ status[t] = "Running" /\ pc[t] = "kern" /\ waitSem[t] = NoSem
      /\ UNCHANGED <<semVars, status, queueVars, waitVars, notifyVars, safeToKill, stackVars>>
  BY AtRunning, Zenon DEF SafeKill, ResumeProcess, killVars
<1>2. /\ \A u \in Task : u # t => pc'[u] = pc[u] /\ arg'[u] = arg[u]
      /\ pc'[t] \in {"kern", "intr", "resume"}
  BY <1>1, Zenon DEF SafeKill, ResumeProcess, Goto, TypeOK
<1>3. DeadKept /\ ReapedKept /\ CallsKept
  BY <1>1, <1>2, Zenon DEF DeadKept, ReapedKept, CallsKept
<1>4. /\ \A s \in Sem : ListsWaiters(s)' /\ UnitsSound(s)'
      /\ NotifiesReaped' /\ JoinAfterReap'
  BY <1>1, <1>3, ObjectsSame, Zenon DEF waitVars, notifyVars
<1>5. ASSUME NEW u \in Task PROVE StatusMatchesPc(u)'
  <2>1. CASE u = t
    BY <1>1, <1>2, <2>1, Zenon DEF SafeInv, StatusMatchesPc, Waits, waitVars
  <2>2. CASE u # t
    BY <1>1, <1>2, <2>2, SamePlace, Zenon DEF SafeInv, waitVars
  <2> QED
    BY <2>1, <2>2, Zenon
<1>6. StacksSound'
  BY <1>1, <1>3, SameStacks, Zenon DEF SafeInv, stackVars, queueVars
<1>7. ResultMatchesGrant'
  BY <1>1, <1>2, SameResults, Zenon DEF SafeInv, waitVars
<1>8. DyingIsInterrupted'
  <2>1. CASE pendingKill' = pendingKill
    BY <1>1, <1>3, <2>1, SameDying, Zenon DEF SafeInv, waitVars
  <2>2. CASE SafeKill(c, t, v)
    <3>1. ASSUME NEW x \in pendingKill', status'[x] = "WaitingInterruptible"
          PROVE  \E u \in Task : /\ pc'[u] = "intr" /\ arg'[u] = <<x, waitSem'[x]>>
                                 /\ status'[u] \in {"Running", "Active"}
      <4>1. CASE x = v
        <5>1. Goto(t, "intr", <<v, waitSem[v]>>)
          BY <1>1, <2>2, <3>1, <4>1, Zenon DEF SafeKill
        <5>2. pc'[t] = "intr" /\ arg'[t] = <<v, waitSem[v]>>
          BY <5>1, Zenon DEF Goto, TypeOK
        <5> QED
          BY <1>1, <4>1, <5>2, Zenon DEF waitVars
      <4>2. CASE x # v
        <5>1. x \in pendingKill /\ status[x] = "WaitingInterruptible"
          BY <1>1, <2>2, <3>1, <4>2, Zenon DEF SafeKill
        <5>2. PICK u \in Task : /\ pc[u] = "intr" /\ arg[u] = <<x, waitSem[x]>>
                                /\ status[u] \in {"Running", "Active"}
          BY <5>1, Zenon DEF SafeInv, DyingIsInterrupted
        <5> QED
          BY <1>1, <1>3, <5>2, Zenon DEF CallsKept, waitVars
      <4> QED
        BY <4>1, <4>2, Zenon
    <3> QED
      BY <3>1, Zenon DEF DyingIsInterrupted
  <2> QED
    BY <2>1, <2>2, Zenon DEF ResumeProcess, killVars
<1>9. ResumeNotLost'
  <2>1. CASE resumed' = resumed
    BY <1>1, <1>3, <2>1, SameResume, Zenon DEF SafeInv
  <2>2. CASE ResumeProcess(c, t, v)
    <3>1. ASSUME NEW x \in resumed', status'[x] = "Suspended"
          PROVE  \E u \in Task : /\ pc'[u] = "resume" /\ arg'[u][1] = x
                                 /\ status'[u] \in {"Running", "Active"}
      <4>1. CASE x = v
        <5>1. Goto(t, "resume", <<v, NoSem>>)
          BY <2>2, Zenon DEF ResumeProcess
        <5>2. pc'[t] = "resume" /\ arg'[t] = <<v, NoSem>>
          BY <5>1, Zenon DEF Goto, TypeOK
        <5> QED
          BY <1>1, <4>1, <5>2
      <4>2. CASE x # v
        <5>1. x \in resumed /\ status[x] = "Suspended"
          BY <1>1, <2>2, <3>1, <4>2, Zenon DEF ResumeProcess
        <5>2. PICK u \in Task : /\ pc[u] = "resume" /\ arg[u][1] = x
                                /\ status[u] \in {"Running", "Active"}
          BY <5>1, Zenon DEF SafeInv, ResumeNotLost
        <5> QED
          BY <1>1, <1>3, <5>2, Zenon DEF CallsKept
      <4> QED
        BY <4>1, <4>2, Zenon
    <3> QED
      BY <3>1, Zenon DEF ResumeNotLost
  <2> QED
    BY <2>1, <2>2, Zenon DEF SafeKill
<1> QED
  BY <1>4, <1>5, <1>6, <1>7, <1>8, <1>9, Zenon DEF SafeInv

(* The second half of resume_process: the task it resumes is suspended no   *)
(* more, and it resumes no other.                                           *)
LEMMA ResumeTaskSafe ==
  ASSUME PlaceInv, SafeInv, NEW c \in Cpu, NEW t \in Task, ResumeTask(c, t)
  PROVE  SafeInv'
<1> TypeOK
  BY Zenon DEF PlaceInv
<1> DEFINE v == arg[t][1]
<1>1. /\ status[t] = "Running" /\ pc[t] = "resume" /\ waitSem[t] = NoSem /\ v \in Task
      /\ UNCHANGED <<semVars, running, waitVars, notifyVars, killVars, stackVars, resumed>>
  BY AtRunning, SMTT(20) DEF ResumeTask, PlaceInv, CallArgs
<1>2. /\ \A u \in Task : u # t => pc'[u] = pc[u] /\ arg'[u] = arg[u]
      /\ pc'[t] = "kern"
  BY Zenon DEF ResumeTask, Goto, TypeOK
<1> HIDE DEF v
<1>3. /\ \A u \in Task : u # v => status'[u] = status[u]
      /\ \/ status'[v] = status[v] /\ status[v] # "Suspended"
         \/ status[v] = "Suspended" /\ status'[v] \in {"Active", "Running"}
  BY <1>1, SMTT(20) DEF v, ResumeTask, TypeOK
<1>4. DeadKept /\ ReapedKept
  BY <1>3, Zenon DEF DeadKept, ReapedKept
<1>5. /\ \A s \in Sem : ListsWaiters(s)' /\ UnitsSound(s)'
      /\ NotifiesReaped' /\ JoinAfterReap'
  BY <1>1, <1>4, ObjectsSame, Zenon DEF waitVars, notifyVars
<1>6. status'[t] = "Running"
  BY <1>1, <1>3, Zenon
<1>7. ASSUME NEW u \in Task PROVE StatusMatchesPc(u)'
  <2>1. CASE u = t
    BY <1>1, <1>2, <1>6, <2>1, Zenon DEF SafeInv, StatusMatchesPc, Waits, waitVars, killVars
  <2>2. CASE u # t /\ status'[u] = status[u]
    BY <1>1, <1>2, <2>2, SamePlace, Zenon DEF SafeInv, waitVars, killVars
  <2>3. CASE u # t /\ status[u] = "Suspended" /\ status'[u] \in {"Active", "Running"}
    <3>1. pc'[u] = pc[u] /\ arg'[u] = arg[u]
      BY <1>2, <2>3, Zenon
    <3> QED
      BY <1>1, <2>3, <3>1, Zenon DEF SafeInv, StatusMatchesPc, Waits, waitVars, killVars
  <2> QED
    BY <1>3, <2>1, <2>2, <2>3, Zenon
<1>8. StacksSound'
  BY <1>1, <1>4, SameStacks, Zenon DEF SafeInv, stackVars
<1>9. ResultMatchesGrant'
  <2>1. status[v] = "Suspended" => pc[v] \notin {"waityield", "waitret"}
    BY <1>1, Zenon DEF SafeInv, StatusMatchesPc
  <2> QED
    BY <1>1, <1>2, <1>3, <2>1, SameResults, Zenon DEF SafeInv, waitVars
<1>10. DyingIsInterrupted'
  <2>1. ASSUME NEW x \in pendingKill', status'[x] = "WaitingInterruptible"
        PROVE  \E u \in Task : /\ pc'[u] = "intr" /\ arg'[u] = <<x, waitSem'[x]>>
                               /\ status'[u] \in {"Running", "Active"}
    <3>1. x \in pendingKill /\ x \in Task /\ status[x] = "WaitingInterruptible"
      BY <1>1, <1>3, <2>1, TaskAssumption, Zenon DEF TypeOK, killVars
    <3>2. PICK u \in Task : /\ pc[u] = "intr" /\ arg[u] = <<x, waitSem[x]>>
                            /\ status[u] \in {"Running", "Active"}
      BY <3>1, Zenon DEF SafeInv, DyingIsInterrupted
    <3> QED
      BY <1>1, <1>2, <1>3, <3>2, Zenon DEF waitVars
  <2> QED
    BY <2>1, Zenon DEF DyingIsInterrupted
<1>11. ResumeNotLost'
  <2>1. ASSUME NEW x \in resumed', status'[x] = "Suspended"
        PROVE  \E u \in Task : /\ pc'[u] = "resume" /\ arg'[u][1] = x
                               /\ status'[u] \in {"Running", "Active"}
    <3>1. x \in resumed /\ x \in Task /\ x # v /\ status[x] = "Suspended"
      BY <1>1, <1>3, <2>1, Zenon DEF TypeOK
    <3>2. PICK u \in Task : /\ pc[u] = "resume" /\ arg[u][1] = x
                            /\ status[u] \in {"Running", "Active"}
      BY <3>1, Zenon DEF SafeInv, ResumeNotLost
    <3>3. u # t
      BY <3>1, <3>2, Zenon DEF v
    <3> QED
      BY <1>2, <1>3, <3>2, <3>3, Zenon
  <2> QED
    BY <2>1, Zenon DEF ResumeNotLost
<1> QED
  BY <1>5, <1>7, <1>8, <1>9, <1>10, <1>11, Zenon DEF SafeInv

(* exit_thread: the task is dead, and its CPU is still on its stack.        *)
LEMMA ExitThreadSafe ==
  ASSUME PlaceInv, SafeInv, NEW c \in Cpu, NEW t \in Task, ExitThread(c, t)
  PROVE  SafeInv'
<1> TypeOK /\ OnePlace
  BY Zenon DEF PlaceInv
<1>1. /\ status[t] = "Running" /\ pc[t] = "kern" /\ waitSem[t] = NoSem /\ running[c] = t
      /\ holds[t] = {} /\ Terminate(c, t)
      /\ UNCHANGED <<semVars, running, waitSem, cause, holds, notifyVars, killVars, freed, resumed>>
  BY AtRunning, Zenon DEF ExitThread
<1>2. /\ \A u \in Task : u # t => pc'[u] = pc[u] /\ arg'[u] = arg[u]
      /\ pc'[t] = "exit"
  BY Zenon DEF ExitThread, Goto, TypeOK
<1>3. status'[t] = "Terminated" /\ \A u \in Task : u # t => status'[u] = status[u]
  BY <1>1, Zenon DEF Terminate, TypeOK
<1>4. Core[t] = c
  BY <1>1, TaskAssumption, Zenon DEF OnePlace, OnItsCpu
<1>5. /\ leftover' = [leftover EXCEPT ![c] = @ \cup {t}]
      /\ flipFlop' = [flipFlop EXCEPT ![c] = TRUE]
  BY <1>1, <1>4, Zenon DEF Terminate
<1>6. ReapedKept /\ CallsKept
  BY <1>1, <1>2, <1>3, Zenon DEF ReapedKept, CallsKept
<1>7. /\ \A s \in Sem : ListsWaiters(s)' /\ UnitsSound(s)'
      /\ NotifiesReaped' /\ JoinAfterReap'
  BY <1>1, <1>6, ObjectsSame, Zenon DEF notifyVars
<1>8. ASSUME NEW u \in Task PROVE StatusMatchesPc(u)'
  <2>1. CASE u = t
    BY <1>1, <1>2, <1>3, <2>1, Zenon DEF SafeInv, StatusMatchesPc, Waits, killVars
  <2>2. CASE u # t
    BY <1>1, <1>2, <1>3, <2>2, SamePlace, Zenon DEF SafeInv, killVars
  <2> QED
    BY <2>1, <2>2, Zenon
<1>9. StacksSound'
  <2>1. ASSUME NEW x \in freed' PROVE status'[x] = "Reaped"
    <3>1. x \in Task /\ status[x] = "Reaped"
      BY <1>1, <2>1, Zenon DEF SafeInv, StacksSound, TypeOK
    <3> QED
      BY <1>1, <1>3, <3>1, Zenon
  <2>2. /\ leftover'[c] = leftover[c] \cup {t} /\ flipFlop'[c] = TRUE
        /\ \A d \in Cpu : d # c => leftover'[d] = leftover[d] /\ flipFlop'[d] = flipFlop[d]
    BY <1>5, Zenon DEF TypeOK
  <2>3. ASSUME NEW d \in Cpu, NEW x \in leftover'[d]
        PROVE  status'[x] = "Reaped" \/ (running'[d] = x /\ status'[x] = "Terminated" /\ flipFlop'[d])
    <3>1. CASE x = t
      <4>1. x \notin leftover[d]
        BY <1>1, <3>1, Zenon DEF SafeInv, StacksSound
      <4>2. d = c
        BY <2>2, <2>3, <3>1, <4>1, Zenon
      <4> QED
        BY <1>1, <1>3, <2>2, <3>1, <4>2, Zenon
    <3>2. CASE x # t
      <4>1. x \in leftover[d] /\ x \in Task /\ status'[x] = status[x]
        BY <1>3, <2>2, <2>3, <3>2, Zenon DEF TypeOK
      <4>2. status[x] = "Reaped" \/ (running[d] = x /\ status[x] = "Terminated" /\ flipFlop[d])
        BY <4>1, Zenon DEF SafeInv, StacksSound
      <4> QED
        BY <1>1, <2>2, <4>1, <4>2, Zenon
    <3> QED
      BY <3>1, <3>2, Zenon
  <2>4. ASSUME NEW d \in Cpu, running'[d] # NoTask, status'[running'[d]] = "Terminated"
        PROVE  running'[d] \in leftover'[d] /\ flipFlop'[d]
    <3>1. CASE running[d] = t
      <4>1. d = c
        BY <1>4, <3>1, TaskAssumption, Zenon DEF OnePlace, OnItsCpu
      <4> QED
        BY <1>1, <2>2, <4>1, Zenon
    <3>2. CASE running[d] # t
      <4>1. running[d] \in Task /\ d # c /\ status[running[d]] = "Terminated"
        BY <1>1, <1>3, <2>4, <3>2, Zenon DEF TypeOK
      <4>2. running[d] \in leftover[d] /\ flipFlop[d]
        BY <4>1, TaskAssumption, Zenon DEF SafeInv, StacksSound
      <4> QED
        BY <1>1, <2>2, <4>1, <4>2, Zenon
    <3> QED
      BY <3>1, <3>2, Zenon
  <2> QED
    BY <2>1, <2>3, <2>4, Zenon DEF StacksSound
<1>10. ResultMatchesGrant'
  BY <1>1, <1>2, <1>3, SameResults, Zenon DEF SafeInv
<1>11. DyingIsInterrupted'
  <2>1. \A u \in pendingKill : u \in Task
    BY TaskAssumption, Zenon DEF TypeOK
  <2> QED
    BY <1>1, <1>3, <1>6, <2>1, SameDying, Zenon DEF SafeInv, killVars
<1>12. ResumeNotLost'
  <2>1. \A u \in resumed : u \in Task
    BY Zenon DEF TypeOK
  <2> QED
    BY <1>1, <1>3, <1>6, <2>1, SameResume, Zenon DEF SafeInv
<1> QED
  BY <1>7, <1>8, <1>9, <1>10, <1>11, <1>12, Zenon DEF SafeInv

-----------------------------------------------------------------------------
(* Steps that move no task: interrupts, and calls that do not block.        *)

(* A step that changes objects, and no task but one in the kernel that     *)
(* calls it.                                                               *)
LEMMA NobodyWoken ==
  ASSUME PlaceInv, SafeInv,
         UNCHANGED <<status, pc, arg, running, waitSem, killVars, stackVars, resumed>>,
         \A u \in Task : pc[u] # "kern" => cause'[u] = cause[u] /\ holds'[u] = holds[u],
         \A s \in Sem : ListsWaiters(s)' /\ UnitsSound(s)',
         NotifiesReaped', JoinAfterReap'
  PROVE  SafeInv'
<1> TypeOK
  BY Zenon DEF PlaceInv
<1>1. DeadKept /\ CallsKept
  BY Zenon DEF DeadKept, CallsKept
<1>2. StacksSound'
  BY <1>1, SameStacks, Zenon DEF SafeInv, stackVars
<1>3. DyingIsInterrupted' /\ ResumeNotLost'
  BY <1>1, SameDying, SameResume, Zenon DEF SafeInv, killVars
<1>4. ResultMatchesGrant'
  BY SameResults, Zenon DEF SafeInv
<1>5. ASSUME NEW u \in Task PROVE StatusMatchesPc(u)'
  <2>1. CASE pc[u] = "kern"
    BY <2>1, Zenon DEF SafeInv, StatusMatchesPc, killVars
  <2>2. CASE pc[u] # "kern"
    BY <2>2, SamePlace, Zenon DEF SafeInv, killVars
  <2> QED
    BY <2>1, <2>2, Zenon
<1> QED
  BY <1>2, <1>3, <1>4, <1>5, Zenon DEF SafeInv

(* The same, when no event was signalled and no list of term events        *)
(* changed.                                                                *)
LEMMA NobodyMoves ==
  ASSUME PlaceInv, SafeInv,
         UNCHANGED <<status, pc, arg, running, waitSem, events, broadcast, killVars,
                     stackVars, resumed>>,
         \A u \in Task : pc[u] # "kern" => cause'[u] = cause[u] /\ holds'[u] = holds[u],
         \A s \in Sem : signalled'[s] => signalled[s],
         \A s \in Sem : ListsWaiters(s)' /\ UnitsSound(s)'
  PROVE  SafeInv'
<1>1. ReapedKept
  BY Zenon DEF ReapedKept
<1>2. NotifiesReaped' /\ JoinAfterReap'
  BY <1>1, SameNotify, SameJoin, Zenon DEF SafeInv
<1> QED
  BY <1>2, NobodyWoken, Zenon

(* The notification of a CPU and the timer tick only ask for schedule().   *)
LEMMA InterruptsSafe ==
  ASSUME PlaceInv, SafeInv, NEW c \in Cpu, HandleIpi(c) \/ ScheduleTick(c)
  PROVE  SafeInv'
<1> TypeOK
  BY Zenon DEF PlaceInv
<1>1. UNCHANGED <<semVars, status, pc, arg, running, waitSem, cause, holds, events, broadcast,
                  killVars, stackVars, resumed>>
  BY Zenon DEF HandleIpi, ScheduleTick, waitVars, notifyVars, queueVars
<1>2. ReapedKept
  BY <1>1, Zenon DEF ReapedKept
<1> QED
  BY <1>1, <1>2, ObjectsSame, NobodyMoves, Zenon DEF semVars

(* Resetting an event leaves its waiters.                                  *)
LEMMA ResetEventSafe ==
  ASSUME PlaceInv, SafeInv, NEW c \in Cpu, NEW t \in Task, NEW s \in Sem, ResetEvent(c, t, s)
  PROVE  SafeInv'
<1> TypeOK
  BY Zenon DEF PlaceInv
<1>1. /\ UNCHANGED <<counter, blocked, status, pc, arg, running, waitSem, cause, holds, events,
                     broadcast, killVars, stackVars, resumed>>
      /\ \A x \in Sem : signalled'[x] => signalled[x]
  BY Zenon DEF ResetEvent, Reset, TypeOK, waitVars, notifyVars, queueVars
<1>2. ASSUME NEW x \in Sem PROVE ListsWaiters(x)' /\ UnitsSound(x)'
  <2>1. Elems(blocked[x]) \subseteq Task
    BY ListMembers, Zenon DEF TypeOK
  <2> QED
    BY <1>1, <2>1, SameLists, SameUnits, Zenon DEF SafeInv
<1> QED
  BY <1>1, <1>2, NobodyMoves, Zenon

(* A wait that is refused changes no object.                               *)
LEMMA WaitFailSafe ==
  ASSUME PlaceInv, SafeInv, NEW c \in Cpu, NEW t \in Task, NEW s \in Sem, NEW ticks, NEW intr,
         WaitFail(c, t, s, ticks, intr)
  PROVE  SafeInv'
<1> TypeOK
  BY Zenon DEF PlaceInv
<1>1. /\ UNCHANGED <<semVars, status, pc, arg, running, waitSem, holds, events, broadcast,
                     killVars, stackVars, resumed>>
      /\ pc[t] = "kern" /\ cause' = [cause EXCEPT ![t] = "Normal"]
  BY Zenon DEF WaitFail, notifyVars, queueVars, At
<1>2. ReapedKept /\ \A u \in Task : u # t => cause'[u] = cause[u]
  BY <1>1, Zenon DEF ReapedKept, TypeOK
<1> QED
  BY <1>1, <1>2, ObjectsSame, NobodyMoves, Zenon DEF semVars

-----------------------------------------------------------------------------
(* Wake-ups.                                                                *)

(* The head of a list waits for the object: it can be woken.                *)
LEMMA HeadWaits ==
  ASSUME TypeOK, SafeInv, NEW s \in Sem
  PROVE  /\ CanWake(s) <=> blocked[s] # << >>
         /\ blocked[s] \in Seq(Task)
         /\ \A v \in Elems(blocked[s]) :
               /\ v \in Task /\ status[v] \in Waits /\ waitSem[v] = s /\ s \notin holds[v]
               /\ pc[v] \in {"waityield", "waitret"} /\ arg[v][2] = s
<1>1. blocked[s] \in Seq(Task) /\ s # NoSem
  BY SemAssumption, Zenon DEF TypeOK
<1>2. ASSUME NEW v \in Elems(blocked[s])
      PROVE  /\ v \in Task /\ status[v] \in Waits /\ waitSem[v] = s /\ s \notin holds[v]
             /\ pc[v] \in {"waityield", "waitret"} /\ arg[v][2] = s
  <2>1. v \in Task /\ waitSem[v] = s /\ s \notin holds[v]
    BY <1>1, ListMembers, Zenon DEF SafeInv, ListsWaiters
  <2> QED
    BY <1>1, <2>1, Zenon DEF SafeInv, StatusMatchesPc
<1> QED
  BY <1>1, <1>2, ListMembers, Zenon DEF CanWake

(* v, on the list of s, is woken; the caller may be the safe_kill_thread    *)
(* that interrupts v.                                                       *)
LEMMA WakeSafe ==
  ASSUME PlaceInv, SafeInv, NEW c \in Cpu, NEW s \in Sem, NEW v \in Elems(blocked[s]),
         NEW why, NEW h \in [Task -> SUBSET Mutex], WakeTask(c, v, s, why, h),
         \A u \in Task : h[u] \subseteq holds[u] /\ (pc[u] # "kern" => h[u] = holds[u]),
         \A u \in Task : \/ pc'[u] = pc[u] /\ arg'[u] = arg[u]
                         \/ /\ pc[u] = "intr" /\ pc'[u] = "kern"
                            /\ arg[u] = <<v, s>> /\ status[u] = "Running",
         \A x \in Sem : x # s => blocked'[x] = blocked[x] /\ UnitsSound(x)',
         Elems(blocked'[s]) = Elems(blocked[s]) \ {v}, NoRepeats(blocked'[s]),
         UnitsSound(s)', NotifiesReaped', JoinAfterReap',
         UNCHANGED <<running, killVars, stackVars, resumed>>
  PROVE  SafeInv'
<1> TypeOK
  BY Zenon DEF PlaceInv
<1>1. /\ v \in Task /\ status[v] \in Waits /\ waitSem[v] = s /\ s \notin holds[v]
      /\ pc[v] \in {"waityield", "waitret"} /\ arg[v][2] = s /\ s # NoSem
  BY HeadWaits, SemAssumption, Zenon
<1>2. /\ status'[v] \in {"Active", "Running"} /\ waitSem'[v] = NoSem /\ cause'[v] = why
      /\ \A u \in Task : u # v => /\ status'[u] = status[u] /\ waitSem'[u] = waitSem[u]
                                  /\ cause'[u] = cause[u] /\ holds'[u] = h[u]
      /\ holds'[v] = IF why = "Normal" /\ s \in Mutex THEN h[v] \cup {s} ELSE h[v]
  BY <1>1 DEF WakeTask, TypeOK
<1>3. pc'[v] = pc[v] /\ arg'[v] = arg[v]
  BY <1>1, Zenon
<1>4. ASSUME NEW u \in Task PROVE StatusMatchesPc(u)'
  <2>0. StatusMatchesPc(u)
    BY Zenon DEF SafeInv
  <2>1. CASE u = v
    BY <1>1, <1>2, <1>3, <2>0, <2>1, Zenon DEF StatusMatchesPc, Waits, killVars
  <2>2. CASE u # v /\ pc'[u] = pc[u] /\ arg'[u] = arg[u]
    BY <1>2, <2>0, <2>2, SamePlace, Zenon DEF killVars
  <2>3. CASE u # v /\ pc[u] = "intr" /\ pc'[u] = "kern" /\ status[u] = "Running"
    BY <1>2, <2>0, <2>3, Zenon DEF StatusMatchesPc, Waits, killVars
  <2> QED
    BY <2>1, <2>2, <2>3, Zenon
<1>5. DeadKept
  BY <1>1, <1>2, Zenon DEF DeadKept, Waits
<1>6. StacksSound'
  BY <1>5, SameStacks, Zenon DEF SafeInv, stackVars
<1>7. ASSUME NEW x \in Sem PROVE ListsWaiters(x)'
  <2>1. Elems(blocked[x]) \subseteq Task /\ ListsWaiters(x)
    BY ListMembers, Zenon DEF TypeOK, SafeInv
  <2>2. CASE x # s
    BY <1>1, <1>2, <2>1, <2>2, SameLists, SemAssumption
  <2>3. CASE x = s
    <3>1. ASSUME NEW u \in Elems(blocked'[s]) PROVE waitSem'[u] = s /\ s \notin holds'[u]
      BY <1>2, <2>1, <2>3, <3>1 DEF ListsWaiters
    <3>2. ASSUME NEW u \in Task, waitSem'[u] = s PROVE u \in Elems(blocked'[s])
      BY <1>1, <1>2, <2>1, <2>3, <3>2 DEF ListsWaiters
    <3> QED
      BY <2>3, <3>1, <3>2, Zenon DEF ListsWaiters
  <2> QED
    BY <2>2, <2>3, Zenon
<1>8. DyingIsInterrupted'
  <2>1. ASSUME NEW x \in pendingKill', status'[x] = "WaitingInterruptible"
        PROVE  \E u \in Task : /\ pc'[u] = "intr" /\ arg'[u] = <<x, waitSem'[x]>>
                               /\ status'[u] \in {"Running", "Active"}
    <3>1. /\ x \in pendingKill /\ x \in Task /\ x # v
          /\ status[x] = "WaitingInterruptible" /\ waitSem'[x] = waitSem[x]
      BY <1>2, <2>1, TaskAssumption, Zenon DEF TypeOK, killVars
    <3>2. PICK u \in Task : /\ pc[u] = "intr" /\ arg[u] = <<x, waitSem[x]>>
                            /\ status[u] \in {"Running", "Active"}
      BY <3>1, Zenon DEF SafeInv, DyingIsInterrupted
    <3>3. arg[u] # <<v, s>> /\ u # v
      BY <1>1, <3>1, <3>2
    <3>4. pc'[u] = pc[u] /\ arg'[u] = arg[u] /\ status'[u] = status[u]
      BY <1>2, <3>3, Zenon
    <3> QED
      BY <3>1, <3>2, <3>4, Zenon
  <2> QED
    BY <2>1, Zenon DEF DyingIsInterrupted
<1>9. ResumeNotLost'
  <2>1. ASSUME NEW x \in resumed', status'[x] = "Suspended"
        PROVE  \E u \in Task : /\ pc'[u] = "resume" /\ arg'[u][1] = x
                               /\ status'[u] \in {"Running", "Active"}
    <3>1. x \in resumed /\ x \in Task /\ status[x] = "Suspended"
      BY <1>2, <2>1, Zenon DEF TypeOK
    <3>2. PICK u \in Task : /\ pc[u] = "resume" /\ arg[u][1] = x
                            /\ status[u] \in {"Running", "Active"}
      BY <3>1, Zenon DEF SafeInv, ResumeNotLost
    <3>3. u # v
      BY <1>1, <3>2, Zenon
    <3>4. pc'[u] = pc[u] /\ arg'[u] = arg[u] /\ status'[u] = status[u]
      BY <1>2, <3>2, <3>3, Zenon
    <3> QED
      BY <3>2, <3>4, Zenon
  <2> QED
    BY <2>1, Zenon DEF ResumeNotLost
<1>10. ResultMatchesGrant'
  <2>1. ASSUME NEW u \in Task, pc'[u] \in {"waityield", "waitret"},
               status'[u] \in {"Active", "Running"}, arg'[u][2] \in Mutex
        PROVE  cause'[u] = "Normal" <=> arg'[u][2] \in holds'[u]
    <3>1. CASE u = v
      <4>1. arg'[u][2] = s /\ s \notin h[v]
        BY <1>1, <1>3, <3>1, Zenon
      <4> QED
        BY <1>2, <2>1, <3>1, <4>1, Zenon
    <3>2. CASE u # v
      <4>1. pc'[u] = pc[u] /\ arg'[u] = arg[u] /\ holds'[u] = holds[u]
        BY <1>2, <2>1, <3>2, Zenon
      <4> QED
        BY <1>2, <2>1, <3>2, <4>1 DEF SafeInv, ResultMatchesGrant
    <3> QED
      BY <3>1, <3>2, Zenon
  <2> QED
    BY <2>1, Zenon DEF ResultMatchesGrant
<1> QED
  BY <1>4, <1>6, <1>7, <1>8, <1>9, <1>10, Zenon DEF SafeInv

(* set() of a manual-reset event starts its Wake::All loop: an event of the *)
(* kernel, or the term event of a task that has been reaped.                *)
LEMMA StartBroadcast ==
  ASSUME PlaceInv, SafeInv, NEW c \in Cpu, NEW s \in Sem, Kind[s] = "manual",
         broadcast' = [broadcast EXCEPT ![c] = s], holds' = holds, NoWake,
         \A t \in Task : TermEvent[t] = s => status[t] = "Reaped",
         \A d \in Cpu : events'[d] \subseteq events[d],
         UNCHANGED <<semVars, pc, arg, running, killVars, stackVars, resumed>>
  PROVE  SafeInv'
<1> TypeOK
  BY Zenon DEF PlaceInv
<1>1. UNCHANGED <<status, waitSem, cause>>
  BY Zenon DEF NoWake
<1>2. broadcast'[c] = s /\ \A d \in Cpu : d # c => broadcast'[d] = broadcast[d]
  BY Zenon DEF TypeOK
<1>3. NotifiesReaped'
  BY <1>1, <1>2 DEF SafeInv, NotifiesReaped
<1>4. JoinAfterReap'
  <2>1. ASSUME NEW t \in Task, TermEvent[t] # NoSem
        PROVE  /\ signalled'[TermEvent[t]] => status'[t] = "Reaped"
               /\ Locked(TermEvent[t])' => status'[t] = "Reaped"
    <3>1. Locked(TermEvent[t])' => TermEvent[t] = s \/ Locked(TermEvent[t])
      BY <1>2, Zenon DEF Locked
    <3> QED
      BY <1>1, <2>1, <3>1, Zenon DEF SafeInv, JoinAfterReap, semVars
  <2> QED
    BY <2>1, Zenon DEF JoinAfterReap
<1>5. \A x \in Sem : ListsWaiters(x)' /\ UnitsSound(x)'
  <2> SUFFICES ASSUME NEW x \in Sem PROVE ListsWaiters(x)' /\ UnitsSound(x)'
    BY Zenon
  <2>1. Elems(blocked[x]) \subseteq Task
    BY ListMembers, Zenon DEF TypeOK
  <2> QED
    BY <1>1, <2>1, SameLists, SameUnits, Zenon DEF SafeInv, semVars
<1> QED
  BY <1>1, <1>3, <1>4, <1>5, NobodyWoken, Zenon

(* What a signal may change of the objects other than s.                    *)
LEMMA OtherObjects ==
  ASSUME TypeOK, SafeInv, NEW s \in Sem, NEW x \in Sem, x # s,
         counter'[x] = counter[x], blocked'[x] = blocked[x], signalled'[x] => signalled[x],
         \A u \in Task : x \in holds'[u] <=> x \in holds[u]
  PROVE  UnitsSound(x)'
  BY SameUnits, Zenon DEF SafeInv

-----------------------------------------------------------------------------
(* schedule().                                                              *)

(* A task that schedule() reaps is in user mode or at its last yield: it    *)
(* holds nothing and waits for nothing.                                     *)
LEMMA DeadHoldNothing ==
  ASSUME PlaceInv, SafeInv, NEW c \in Cpu, NEW switch \in BOOLEAN,
         NEW n \in 0 .. Len(active[c]), SwitchTasks(c, switch, n),
         NEW u \in Dead(c, switch, n)
  PROVE  /\ u \in Task /\ Core[u] = c
         /\ pc[u] \in {"user", "exit"} /\ holds[u] = {} /\ waitSem[u] = NoSem
<1> TypeOK /\ OnePlace
  BY Zenon DEF PlaceInv
<1>1. u \in Task /\ Core[u] = c
  BY SwitchFacts
<1>2. StatusMatchesPc(u) /\ Placed(u)
  BY <1>1, Zenon DEF SafeInv, OnePlace
<1>3. KillReady(u) \/ status[u] = "Terminated"
  <2>1. CASE u \in {active[c][i] : i \in 1 .. n}
    <3>1. PICK i \in 1 .. n : u = active[c][i]
      BY <2>1, Zenon
    <3>2. switch
      BY <3>1 DEF SwitchTasks
    <3> QED
      BY <3>1, <3>2, Zenon DEF SwitchTasks, Skipped
  <2>2. CASE u \in terminatedQ
    BY <1>2, <2>2, Zenon DEF Placed
  <2>3. CASE u \in Doomed(c, switch, n)
    BY <2>3, Zenon DEF Doomed
  <2> QED
    BY <2>1, <2>2, <2>3, Zenon DEF Dead
<1>4. pc[u] \in {"user", "exit"}
  BY <1>2, <1>3, Zenon DEF StatusMatchesPc, KillReady
<1> QED
  BY <1>1, <1>2, <1>4, Zenon DEF StatusMatchesPc

(* What becomes of a task.                                                  *)
LEMMA SwitchOutcome ==
  ASSUME PlaceInv, SafeInv, NEW c \in Cpu, NEW switch \in BOOLEAN,
         NEW n \in 0 .. Len(active[c]), SwitchTasks(c, switch, n), NEW u \in Task
  PROVE  /\ \/ u \in Dead(c, switch, n) /\ status'[u] = "Reaped" /\ pc'[u] = pc[u]
            \/ /\ u \notin Dead(c, switch, n)
               /\ \/ status'[u] = status[u]
                  \/ status[u] \in {"Active", "Running"} /\ status'[u] \in {"Active", "Running"}
         /\ \/ pc'[u] = pc[u]
            \/ pc[u] = "waityield" /\ pc'[u] = "waitret"
            \/ pc[u] = "suspyield" /\ pc'[u] = "init"
<1> TypeOK /\ OnePlace
  BY Zenon DEF PlaceInv
<1>1. status'[u] = IF u \in Dead(c, switch, n) THEN "Reaped"
                   ELSE IF u = NextTask(c, switch, n) THEN "Running"
                   ELSE IF u = running[c] /\ Requeued(c, switch, n) THEN "Active"
                   ELSE status[u]
  BY Zenon DEF SwitchTasks
<1>2. u = NextTask(c, switch, n) => status[u] \in {"Active", "Running"}
  BY SwitchFacts, TaskAssumption
<1>3. u = running[c] /\ Requeued(c, switch, n) => status[u] = "Running"
  BY SwitchFacts
<1>4. pc'[u] = pc[u] \/ (u = running[c] /\ pc'[u] = AfterYield(u))
  <2>1. pc' = pc \/ (running[c] # NoTask /\ pc' = [pc EXCEPT ![running[c]] = AfterYield(running[c])])
    BY Zenon DEF SwitchTasks
  <2> QED
    BY <2>1 DEF TypeOK
<1>5. \/ pc'[u] = pc[u]
      \/ pc[u] = "waityield" /\ pc'[u] = "waitret"
      \/ pc[u] = "suspyield" /\ pc'[u] = "init"
  BY <1>4, Zenon DEF AfterYield
<1>6. u \in Dead(c, switch, n) => pc'[u] = pc[u]
  <2> SUFFICES ASSUME u \in Dead(c, switch, n) PROVE pc'[u] = pc[u]
    BY Zenon
  <2>1. pc[u] \in {"user", "exit"}
    BY DeadHoldNothing, SMTT(20)
  <2>2. pc[u] # "waityield" /\ pc[u] # "suspyield"
    BY <2>1, Zenon
  <2> QED
    BY <1>5, <2>2, Zenon
<1> QED
  BY <1>1, <1>2, <1>3, <1>5, <1>6, Zenon

(* A dead task that is still on its CPU leaves it now.                      *)
LEMMA DeadLeaves ==
  ASSUME PlaceInv, NEW c \in Cpu, NEW switch \in BOOLEAN,
         NEW n \in 0 .. Len(active[c]), SwitchTasks(c, switch, n),
         running[c] # NoTask, status[running[c]] = "Terminated"
  PROVE  running[c] \in Dead(c, switch, n)
<1> TypeOK /\ OnePlace
  BY Zenon DEF PlaceInv
<1>1. MustLeave(running[c]) /\ running[c] \in Task
  BY Zenon DEF MustLeave, TypeOK
<1>2. NextTask(c, switch, n) # running[c]
  BY <1>1, SwitchFacts, SMTT(20)
<1> QED
  BY <1>1, <1>2, Zenon DEF Dead, Leaves

(* The stacks: what is unmapped, and what is kept, belongs to reaped tasks, *)
(* and the stack schedule() executes on is not unmapped.                    *)
LEMMA SwitchStacks ==
  ASSUME PlaceInv, SafeInv, NEW c \in Cpu, NEW switch \in BOOLEAN,
         NEW n \in 0 .. Len(active[c]), SwitchTasks(c, switch, n)
  PROVE  /\ StacksSound'
         /\ \A d \in Cpu : running[d] # NoTask => running[d] \notin freed'
<1> TypeOK /\ OnePlace /\ StacksSound
  BY Zenon DEF PlaceInv, SafeInv
<1> DEFINE dead == Dead(c, switch, n)
           doomed == Doomed(c, switch, n)
           left == leftover[c] \cup doomed
           flip == flipFlop[c] \/ doomed # {}
<1>1. /\ leftover' = [leftover EXCEPT ![c] = IF flip THEN left ELSE {}]
      /\ flipFlop' = [flipFlop EXCEPT ![c] = FALSE]
      /\ freed' = freed \cup (IF flip THEN {} ELSE left) \cup (dead \ left)
  BY Zenon DEF SwitchTasks, ReapTasks
<1>2. /\ leftover'[c] = IF flip THEN left ELSE {}
      /\ \A d \in Cpu : d # c => leftover'[d] = leftover[d] /\ flipFlop'[d] = flipFlop[d]
  BY <1>1, Zenon DEF TypeOK
<1>3. doomed \subseteq dead /\ \A u \in dead : u \in Task /\ Core[u] = c
  BY SwitchFacts DEF Dead
<1>4. running'[c] = NextTask(c, switch, n) /\ \A d \in Cpu : d # c => running'[d] = running[d]
  BY Zenon DEF SwitchTasks, TypeOK
<1>5. \A u \in Task : /\ u \in dead => status'[u] = "Reaped"
                      /\ status[u] = "Reaped" => status'[u] = "Reaped"
                      /\ status[u] = "Terminated" => status'[u] \in {"Terminated", "Reaped"}
                      /\ status'[u] = "Terminated" => status[u] = "Terminated"
  BY SwitchOutcome, Zenon
<1>6. \A u \in leftover[c] : u \in Task /\ status'[u] = "Reaped"
  <2> SUFFICES ASSUME NEW u \in leftover[c] PROVE u \in Task /\ status'[u] = "Reaped"
    BY Zenon
  <2>1. u \in Task /\ u # NoTask
    BY TaskAssumption DEF TypeOK
  <2>2. status[u] = "Reaped" \/ (running[c] = u /\ status[u] = "Terminated")
    BY Zenon DEF StacksSound
  <2>3. CASE running[c] = u /\ status[u] = "Terminated"
    BY <1>5, <2>1, <2>3, DeadLeaves, Zenon
  <2> QED
    BY <1>5, <2>1, <2>2, <2>3, Zenon
<1> HIDE DEF dead, doomed
<1>7. \A u \in left \cup dead : u \in Task /\ status'[u] = "Reaped"
  BY <1>3, <1>5, <1>6, Zenon
<1>8. ASSUME NEW u \in freed' PROVE status'[u] = "Reaped"
  <2>1. u \in freed => u \in Task /\ status[u] = "Reaped"
    BY Zenon DEF StacksSound, TypeOK
  <2> QED
    BY <1>1, <1>5, <1>7, <1>8, <2>1, Zenon
<1>9. ASSUME NEW d \in Cpu, NEW u \in leftover'[d]
      PROVE  status'[u] = "Reaped" \/ (running'[d] = u /\ status'[u] = "Terminated" /\ flipFlop'[d])
  <2>1. CASE d = c
    BY <1>2, <1>7, <1>9, <2>1, Zenon
  <2>2. CASE d # c
    <3>1. u \in leftover[d] /\ u \in Task
      BY <1>2, <1>9, <2>2, Zenon DEF TypeOK
    <3>2. status[u] = "Reaped" \/ (running[d] = u /\ status[u] = "Terminated" /\ flipFlop[d])
      BY <3>1, Zenon DEF StacksSound
    <3> QED
      BY <1>2, <1>4, <1>5, <2>2, <3>1, <3>2, Zenon
  <2> QED
    BY <2>1, <2>2, Zenon
<1>10. ASSUME NEW d \in Cpu, running'[d] # NoTask, status'[running'[d]] = "Terminated"
       PROVE  running'[d] \in leftover'[d] /\ flipFlop'[d]
  <2>1. CASE d = c
    <3>1. NextTask(c, switch, n) \in Task /\ status[NextTask(c, switch, n)] \in {"Active", "Running"}
      BY <1>4, <1>10, <2>1, SwitchFacts
    <3> QED
      BY <1>4, <1>5, <1>10, <2>1, <3>1, Zenon
  <2>2. CASE d # c
    <3>1. running[d] \in Task /\ running[d] # NoTask /\ status[running[d]] = "Terminated"
      BY <1>4, <1>5, <1>10, <2>2 DEF TypeOK
    <3>2. running[d] \in leftover[d] /\ flipFlop[d]
      BY <3>1, Zenon DEF StacksSound
    <3> QED
      BY <1>2, <1>4, <2>2, <3>2, Zenon
  <2> QED
    BY <2>1, <2>2, Zenon
<1>11. ASSUME NEW d \in Cpu, running[d] # NoTask, running[d] \in freed' PROVE FALSE
  <2>1. /\ running[d] \in Task /\ Core[running[d]] = d
        /\ status[running[d]] \in Waits \cup {"Running", "Suspended", "Terminated"}
    BY <1>11 DEF OnePlace, OnItsCpu, TypeOK
  <2>2. status[running[d]] # "Reaped"
    BY <2>1, Zenon DEF Waits
  <2>3. running[d] \notin freed
    BY <2>2, Zenon DEF StacksSound
  <2>4. ~flip => running[d] \notin left
    <3>1. ~flip => running[d] \notin leftover[c]
      BY <2>2, Zenon DEF StacksSound
    <3> QED
      BY <3>1, Zenon
  <2>5. running[d] \in dead /\ running[d] \notin left
    BY <1>1, <1>11, <2>3, <2>4, Zenon
  <2>6. d = c
    BY <1>3, <2>1, <2>5, Zenon
  <2>7. status[running[c]] # "Terminated"
    BY <1>11, <2>5, <2>6, Zenon DEF StacksSound
  <2>8. running[c] \notin terminatedQ
    BY <2>1, <2>6, <2>7, Zenon DEF OnePlace, Placed
  <2>9. running[c] \notin {active[c][i] : i \in 1 .. n}
    <3>1. status[running[c]] # "Active"
      BY <2>1, <2>6, Zenon DEF Waits
    <3>2. ASSUME NEW i \in 1 .. n PROVE active[c][i] \in Elems(active[c])
      <4>1. active[c] \in Seq(Task)
        BY Zenon DEF TypeOK
      <4>2. i \in DOMAIN active[c]
        BY <4>1
      <4> QED
        BY <4>2, Zenon DEF Elems
    <3> QED
      BY <3>1, <3>2, Zenon DEF OnePlace, QueuedOnce
  <2> QED
    BY <2>5, <2>6, <2>7, <2>8, <2>9, Zenon DEF dead, doomed, Dead
<1> QED
  BY <1>8, <1>9, <1>10, <1>11, Zenon DEF StacksSound

(* schedule(): the switch, the reaping and the dropping of stacks at once. *)
LEMMA ScheduleSafe ==
  ASSUME PlaceInv, SafeInv, NEW c \in Cpu, Schedule(c)
  PROVE  SafeInv'
<1> TypeOK /\ OnePlace
  BY Zenon DEF PlaceInv
<1>1. PICK switch \in BOOLEAN, n \in 0 .. Len(active[c]) : SwitchTasks(c, switch, n)
  BY Zenon DEF Schedule
<1>2. UNCHANGED <<semVars, arg, waitSem, cause, holds, broadcast, killVars, resumed>>
  BY Zenon DEF Schedule
<1> DEFINE dead == Dead(c, switch, n)
<1>3. \A u \in Task :
        /\ \/ u \in dead /\ status'[u] = "Reaped" /\ pc'[u] = pc[u]
           \/ /\ u \notin dead
              /\ \/ status'[u] = status[u]
                 \/ status[u] \in {"Active", "Running"} /\ status'[u] \in {"Active", "Running"}
        /\ \/ pc'[u] = pc[u]
           \/ pc[u] = "waityield" /\ pc'[u] = "waitret"
           \/ pc[u] = "suspyield" /\ pc'[u] = "init"
  BY <1>1, SwitchOutcome, Zenon
<1>4. \A u \in dead : /\ u \in Task /\ pc[u] \in {"user", "exit"}
                      /\ holds[u] = {} /\ waitSem[u] = NoSem
  BY <1>1, DeadHoldNothing
<1>5. /\ events'[c] = {TermEvent[u] : u \in dead} \ {NoSem}
      /\ \A d \in Cpu : d # c => events'[d] = events[d]
  BY <1>1, Zenon DEF SwitchTasks, ReapTasks, TypeOK
<1>6. StacksSound'
  BY <1>1, SwitchStacks, Zenon
<1> HIDE DEF dead
<1>7. ReapedKept
  BY <1>3, Zenon DEF ReapedKept
<1>8. CallsKept
  <2>1. ASSUME NEW u \in Task, pc[u] \in {"intr", "resume"}, status[u] \in {"Running", "Active"}
        PROVE  pc'[u] = pc[u] /\ arg'[u] = arg[u] /\ status'[u] \in {"Running", "Active"}
    <3>1. u \notin dead /\ pc'[u] = pc[u]
      BY <1>3, <1>4, <2>1, Zenon
    <3> QED
      BY <1>2, <1>3, <2>1, <3>1, Zenon
  <2> QED
    BY <2>1, Zenon DEF CallsKept
<1>9. ASSUME NEW u \in Task PROVE StatusMatchesPc(u)'
  <2>0. /\ StatusMatchesPc(u) /\ arg'[u] = arg[u] /\ waitSem'[u] = waitSem[u]
        /\ holds'[u] = holds[u] /\ (u \in safeToKill' <=> u \in safeToKill)
    BY <1>2, Zenon DEF SafeInv, killVars
  <2>1. CASE u \in dead /\ status'[u] = "Reaped" /\ pc'[u] = pc[u]
    BY <1>4, <2>0, <2>1, Zenon DEF StatusMatchesPc, Waits
  <2>2. CASE status'[u] = status[u]
    BY <1>3, <2>0, <2>2, Zenon DEF StatusMatchesPc, Waits
  <2>3. CASE status[u] \in {"Active", "Running"} /\ status'[u] \in {"Active", "Running"}
    BY <1>3, <2>0, <2>3, Zenon DEF StatusMatchesPc, Waits
  <2> QED
    BY <1>3, <2>1, <2>2, <2>3, Zenon
<1>10. ASSUME NEW s \in Sem PROVE ListsWaiters(s)' /\ UnitsSound(s)'
  <2>1. Elems(blocked[s]) \subseteq Task
    BY ListMembers, Zenon DEF TypeOK
  <2> QED
    BY <1>2, <2>1, SameLists, SameUnits, Zenon DEF SafeInv, semVars
<1>11. NotifiesReaped'
  <2>1. ASSUME NEW d \in Cpu
        PROVE  /\ broadcast'[d] # NoSem => Kind[broadcast'[d]] = "manual"
               /\ \A s \in events'[d] : Kind[s] = "manual"
               /\ \A t \in Task : TermEvent[t] \in events'[d] => status'[t] = "Reaped"
    <3>1. broadcast'[d] # NoSem => Kind[broadcast'[d]] = "manual"
      BY <1>2, Zenon DEF SafeInv, NotifiesReaped
    <3>2. CASE d = c
      <4>1. ASSUME NEW s \in events'[d] PROVE Kind[s] = "manual"
        <5>1. PICK u \in dead : s = TermEvent[u] /\ s # NoSem
          BY <1>5, <3>2, <4>1, Zenon
        <5> QED
          BY <1>4, <5>1, SemAssumption
      <4>2. ASSUME NEW t \in Task, TermEvent[t] \in events'[d] PROVE status'[t] = "Reaped"
        <5>1. PICK u \in dead : TermEvent[t] = TermEvent[u] /\ TermEvent[t] # NoSem
          BY <1>5, <3>2, <4>2, Zenon
        <5>2. t = u
          BY <1>4, <5>1, SemAssumption, Zenon
        <5> QED
          BY <1>3, <5>2, Zenon
      <4> QED
        BY <3>1, <4>1, <4>2, Zenon
    <3>3. CASE d # c
      <4>1. events'[d] = events[d]
        BY <1>5, <3>3, Zenon
      <4> QED
        BY <1>7, <3>1, <4>1, Zenon DEF SafeInv, NotifiesReaped, ReapedKept
    <3> QED
      BY <3>2, <3>3, Zenon
  <2> QED
    BY <2>1, Zenon DEF NotifiesReaped
<1>12. JoinAfterReap'
  BY <1>2, <1>7, SameJoin, Zenon DEF SafeInv, semVars
<1>13. DyingIsInterrupted'
  <2>1. \A u \in pendingKill : u \in Task
    BY TaskAssumption, Zenon DEF TypeOK
  <2>2. \A u \in pendingKill : status'[u] = "WaitingInterruptible" => status[u] = status'[u]
    BY <1>3, <2>1, Zenon
  <2> QED
    BY <1>2, <1>8, <2>2, SameDying, Zenon DEF SafeInv, killVars
<1>14. ResumeNotLost'
  <2>1. \A u \in resumed : u \in Task
    BY Zenon DEF TypeOK
  <2>2. \A u \in resumed : status'[u] = "Suspended" => status[u] = status'[u]
    BY <1>3, <2>1, Zenon
  <2> QED
    BY <1>2, <1>8, <2>2, SameResume, Zenon DEF SafeInv
<1>15. ResultMatchesGrant'
  <2>1. \A u \in Task : pc'[u] \in {"waityield", "waitret"} /\ status'[u] \in {"Active", "Running"} =>
           pc[u] \in {"waityield", "waitret"} /\ status[u] \in {"Active", "Running"}
    BY <1>3, Zenon
  <2> QED
    BY <1>2, <2>1, SameResults, Zenon DEF SafeInv
<1> QED
  BY <1>6, <1>9, <1>10, <1>11, <1>12, <1>13, <1>14, <1>15, Zenon DEF SafeInv

-----------------------------------------------------------------------------
(* Dying.                                                                   *)

DiesSafelyStep ==
  /\ \A t \in UserTask : status[t] # "Terminated" /\ status'[t] \in {"Terminated", "Reaped"} =>
        \/ pc[t] \in {"user", "exit"} /\ holds[t] = {} /\ waitSem[t] = NoSem
        \/ pc'[t] = "exit" /\ running[Core[t]] = t
  /\ \A c \in Cpu : running[c] # NoTask => running[c] \notin freed'

(* A task that has been reaped needs nothing.                               *)
LEMMA ReapedHoldNothing ==
  ASSUME SafeInv, NEW t \in Task, status[t] = "Reaped"
  PROVE  pc[t] \in {"user", "exit"} /\ holds[t] = {} /\ waitSem[t] = NoSem
  BY Zenon DEF SafeInv, StatusMatchesPc, Waits

(* The stack of the task a CPU is on is not free.                           *)
LEMMA OwnStackMapped ==
  ASSUME PlaceInv, SafeInv, NEW c \in Cpu, running[c] # NoTask
  PROVE  running[c] \notin freed
<1>1. status[running[c]] # "Reaped"
  BY Zenon DEF PlaceInv, OnePlace, OnItsCpu, Waits
<1> QED
  BY <1>1, Zenon DEF SafeInv, StacksSound

(* A step in which no task dies and no stack is dropped satisfies          *)
(* DiesSafely.                                                             *)
LEMMA NobodyDies ==
  ASSUME PlaceInv, SafeInv, DeadKept, UNCHANGED freed
  PROVE  DiesSafelyStep
<1>1. \A t \in UserTask : t \in Task
  BY TaskAssumption, Zenon
<1>2. ASSUME NEW t \in UserTask, status[t] # "Terminated", status'[t] \in {"Terminated", "Reaped"}
      PROVE  pc[t] \in {"user", "exit"} /\ holds[t] = {} /\ waitSem[t] = NoSem
  <2>1. t \in Task /\ status[t] = "Reaped"
    BY <1>1, <1>2, Zenon DEF DeadKept
  <2> QED
    BY <2>1, ReapedHoldNothing, Zenon
<1> QED
  BY <1>2, OwnStackMapped, Zenon DEF DiesSafelyStep

(* A wake-up leaves the dead as they are.                                  *)
LEMMA WakeKeepsDead ==
  ASSUME TypeOK, NEW c \in Cpu, NEW s, NEW why, NEW h, WakeOrNot(c, s, why, h)
  PROVE  DeadKept
<1>1. CASE NoWake
  BY <1>1, Zenon DEF NoWake, DeadKept
<1>2. ASSUME NEW t \in Task, status[t] \in Waits, WakeTask(c, t, s, why, h) PROVE DeadKept
  <2>1. status'[t] \in {"Active", "Running"} /\ \A u \in Task : u # t => status'[u] = status[u]
    BY <1>2, SMTT(20) DEF WakeTask, TypeOK
  <2> QED
    BY <1>2, <2>1, Zenon DEF DeadKept, Waits
<1> QED
  BY <1>1, <1>2, Zenon DEF WakeOrNot

(* Of the steps of a CPU only schedule() kills, and only tasks that are    *)
(* about to leave.                                                         *)
LEMMA CpuDies ==
  ASSUME PlaceInv, SafeInv, NEW c \in Cpu, CpuStep(c)
  PROVE  DiesSafelyStep
<1> TypeOK
  BY Zenon DEF PlaceInv
<1>1. CASE HandleIpi(c) \/ ScheduleTick(c)
  BY <1>1, NobodyDies, Zenon DEF HandleIpi, ScheduleTick, DeadKept, stackVars
<1>2. CASE NotifyWatchers(c)
  <2>1. UNCHANGED freed /\ holds \in [Task -> SUBSET Mutex]
    BY <1>2, Zenon DEF NotifyWatchers, stackVars, TypeOK
  <2>2. ASSUME NEW s \in events[c], DoSignal(c, s, holds) PROVE DeadKept
    <3>1. s \in Sem
      BY Zenon DEF TypeOK
    <3> QED
      BY <2>1, <2>2, <3>1, SignalEffect, WakeKeepsDead, Zenon
  <2>3. ASSUME NEW r \in expired[c], DoSignalOnTask(c, r[2], r[1], "TimerExpiry") PROVE DeadKept
    <3>1. r[1] \in Task /\ r[2] \in Sem
      BY DEF TypeOK
    <3> QED
      BY <2>3, <3>1, SignalOnTaskEffect, WakeKeepsDead, Zenon
  <2> QED
    BY <1>2, <2>1, <2>2, <2>3, NobodyDies, Zenon DEF NotifyWatchers
<1>3. CASE Broadcast(c)
  <2>1. UNCHANGED freed /\ DeadKept
    BY <1>3, BroadcastEffect, WakeKeepsDead, Zenon DEF Broadcast, stackVars
  <2> QED
    BY <2>1, NobodyDies, Zenon
<1>4. CASE Schedule(c)
  <2>1. PICK switch \in BOOLEAN, n \in 0 .. Len(active[c]) : SwitchTasks(c, switch, n)
    BY <1>4, Zenon DEF Schedule
  <2>2. ASSUME NEW t \in UserTask, status[t] # "Terminated", status'[t] \in {"Terminated", "Reaped"}
        PROVE  pc[t] \in {"user", "exit"} /\ holds[t] = {} /\ waitSem[t] = NoSem
    <3>1. t \in Task
      BY TaskAssumption, Zenon
    <3>2. t \in Dead(c, switch, n) \/ status[t] = "Reaped"
      BY <2>1, <2>2, <3>1, SwitchOutcome, Zenon
    <3> QED
      BY <2>1, <3>1, <3>2, DeadHoldNothing, ReapedHoldNothing
  <2>3. \A d \in Cpu : running[d] # NoTask => running[d] \notin freed'
    BY <2>1, SwitchStacks, Zenon
  <2> QED
    BY <2>2, <2>3, Zenon DEF DiesSafelyStep
<1> QED
  BY <1>1, <1>2, <1>3, <1>4, Zenon DEF CpuStep

(* Of the steps of a task only exit_thread kills, and only the caller.     *)
LEMMA TaskDies ==
  ASSUME Killable = {}, PlaceInv, SafeInv, NEW c \in Cpu, NEW t \in Task, TaskStep(c, t)
  PROVE  DiesSafelyStep
<1> TypeOK
  BY Zenon DEF PlaceInv
<1>1. ASSUME UNCHANGED <<status, freed>> PROVE DiesSafelyStep
  BY <1>1, NobodyDies, Zenon DEF DeadKept
<1>2. ASSUME NEW v \in Task, UNCHANGED freed, status[v] \notin {"Terminated", "Reaped"},
             NEW st, st \notin {"Terminated", "Reaped"}, status' = [status EXCEPT ![v] = st]
      PROVE  DiesSafelyStep
  <2>1. status'[v] = st /\ \A u \in Task : u # v => status'[u] = status[u]
    BY <1>2, Zenon DEF TypeOK
  <2> QED
    BY <1>2, <2>1, NobodyDies, Zenon DEF DeadKept
<1>3. ASSUME NEW s \in Sem, WaitTake(c, t, s) \/ ResetEvent(c, t, s) PROVE DiesSafelyStep
  BY <1>1, <1>3, Zenon DEF WaitTake, ResetEvent, stackVars
<1>4. ASSUME NEW s \in Sem, Wait(c, t, s) PROVE DiesSafelyStep
  <2>1. PICK ticks, intr : WaitFail(c, t, s, ticks, intr) \/ WaitBlock(c, t, s, ticks, intr)
    BY <1>4, Zenon DEF Wait
  <2>2. CASE WaitFail(c, t, s, ticks, intr)
    BY <1>1, <2>2, Zenon DEF WaitFail, stackVars
  <2>3. CASE WaitBlock(c, t, s, ticks, intr)
    <3>1. status[t] = "Running" /\ UNCHANGED freed
      BY <2>3, AtRunning, Zenon DEF WaitBlock, stackVars
    <3>2. \E st \in Waits : status' = [status EXCEPT ![t] = st]
      BY <2>3, Zenon DEF WaitBlock, Waits
    <3> QED
      BY <1>2, <3>1, <3>2, Zenon DEF Waits
  <2> QED
    BY <2>1, <2>2, <2>3, Zenon
<1>5. ASSUME NEW s \in Sem, Signal(c, t, s) PROVE DiesSafelyStep
  <2> DEFINE h == [holds EXCEPT ![t] = @ \ {s}]
  <2>1. h \in [Task -> SUBSET Mutex] /\ DoSignal(c, s, h) /\ UNCHANGED freed
    BY <1>5, Zenon DEF TypeOK, Signal, stackVars
  <2> HIDE DEF h
  <2>2. DeadKept
    BY <2>1, SignalEffect, WakeKeepsDead, Zenon
  <2> QED
    BY <2>1, <2>2, NobodyDies, Zenon
<1>6. ASSUME NEW v \in Task, StartTask(c, t, v) PROVE DiesSafelyStep
  BY <1>2, <1>6, Zenon DEF StartTask, stackVars
<1>7. ASSUME NEW v \in Task, SafeKill(c, t, v) \/ ResumeProcess(c, t, v) PROVE DiesSafelyStep
  BY <1>1, <1>7, Zenon DEF SafeKill, ResumeProcess, stackVars
<1>8. CASE WaitReturn(c, t) \/ TransferToUser(c, t) \/ SyscallEnter(c, t) \/ SyscallExit(c, t)
  BY <1>1, <1>8, Zenon DEF WaitReturn, TransferToUser, SyscallEnter, SyscallExit, stackVars
<1>9. CASE SuspendProcess(c, t)
  BY <1>1, <1>2, <1>9, Zenon DEF SuspendProcess, stackVars
<1>10. CASE ResumeTask(c, t)
  <2>1. arg[t][1] \in Task
    BY <1>10, Zenon DEF ResumeTask, At, PlaceInv, CallArgs
  <2>2. UNCHANGED freed
    BY <1>10, Zenon DEF ResumeTask, stackVars
  <2>3. \/ UNCHANGED status
        \/ /\ status[arg[t][1]] = "Suspended"
           /\ \E st \in {"Active", "Running"} : status' = [status EXCEPT ![arg[t][1]] = st]
    BY <1>10, Zenon DEF ResumeTask
  <2> QED
    BY <1>1, <1>2, <2>1, <2>2, <2>3, Zenon
<1>11. CASE InterruptWait(c, t)
  <2>1. arg[t][1] \in Task /\ arg[t][2] \in Sem
    BY <1>11, Zenon DEF InterruptWait, At, PlaceInv, CallArgs
  <2>2. DeadKept /\ UNCHANGED freed
    BY <1>11, <2>1, SignalOnTaskEffect, WakeKeepsDead, Zenon DEF InterruptWait, stackVars
  <2> QED
    BY <2>2, NobodyDies, Zenon
<1>12. CASE ExitThread(c, t)
  <2>1. /\ pc'[t] = "exit" /\ running[c] = t /\ UNCHANGED freed /\ status'[t] = "Terminated"
        /\ \A u \in Task : u # t => status'[u] = status[u]
    BY <1>12, Zenon DEF ExitThread, Terminate, Goto, At, TypeOK
  <2>2. Core[t] = c
    BY <2>1, TaskAssumption, Zenon DEF PlaceInv, OnePlace, OnItsCpu
  <2>3. ASSUME NEW u \in UserTask, status[u] # "Terminated", status'[u] \in {"Terminated", "Reaped"}
        PROVE  \/ pc[u] \in {"user", "exit"} /\ holds[u] = {} /\ waitSem[u] = NoSem
               \/ pc'[u] = "exit" /\ running[Core[u]] = u
    <3>1. u \in Task
      BY TaskAssumption, Zenon
    <3>2. u # t => status[u] = "Reaped"
      BY <2>1, <2>3, <3>1, Zenon
    <3> QED
      BY <2>1, <2>2, <3>1, <3>2, ReapedHoldNothing, Zenon
  <2> QED
    BY <2>1, <2>3, OwnStackMapped, Zenon DEF DiesSafelyStep
<1>13. \A v \in Task : ~KillThread(c, t, v)
  BY Zenon DEF KillThread
<1>14. ~DropTask(c, t)
  BY Zenon DEF DropTask, At, SafeInv, StatusMatchesPc
<1> QED
  BY <1>3, <1>4, <1>5, <1>6, <1>7, <1>8, <1>9, <1>10, <1>11, <1>12, <1>13, <1>14, Zenon DEF TaskStep
=============================================================================
