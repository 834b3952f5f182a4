---------------------------- MODULE SchedTypes ----------------------------
(***************************************************************************)
(* Lemmas for SchedProofs: the lists of the scheduler, and that every step *)
(* of Sched keeps the type invariant.                                      *)
(***************************************************************************)
EXTENDS Sched, TLAPS

-----------------------------------------------------------------------------
(* Lists.                                                                   *)

(* Putting a task at the tail of a run queue (add_node).                    *)
LEMMA AppendList ==
  ASSUME NEW q \in Seq(Task), NEW t \in Task
  PROVE  /\ Append(q, t) \in Seq(Task)
         /\ Elems(Append(q, t)) = Elems(q) \cup {t}
         /\ NoRepeats(q) /\ t \notin Elems(q) => NoRepeats(Append(q, t))
<1> DEFINE r == Append(q, t)
<1>1. /\ r \in Seq(Task) /\ Len(r) = Len(q) + 1 /\ DOMAIN r = 1 .. Len(q) + 1
      /\ \A i \in 1 .. Len(q) : r[i] = q[i]
      /\ r[Len(q) + 1] = t
      /\ DOMAIN q = 1 .. Len(q) /\ Len(q) \in Nat
  OBVIOUS
<1>2. Elems(r) = Elems(q) \cup {t}
  BY <1>1 DEF Elems
<1>3. ASSUME NoRepeats(q), t \notin Elems(q) PROVE NoRepeats(r)
  BY <1>1, <1>3 DEF NoRepeats, Elems
<1> QED
  BY <1>1, <1>2, <1>3, Zenon

(* Putting a task at the head of a run queue (insert_node_at_head).         *)
LEMMA ConsList ==
  ASSUME NEW q \in Seq(Task), NEW t \in Task
  PROVE  /\ <<t>> \o q \in Seq(Task)
         /\ Elems(<<t>> \o q) = Elems(q) \cup {t}
         /\ NoRepeats(q) /\ t \notin Elems(q) => NoRepeats(<<t>> \o q)
<1> DEFINE r == <<t>> \o q
<1>1. /\ r \in Seq(Task) /\ Len(r) = Len(q) + 1 /\ DOMAIN r = 1 .. Len(q) + 1
      /\ r[1] = t
      /\ \A i \in 1 .. Len(q) : r[i + 1] = q[i]
      /\ DOMAIN q = 1 .. Len(q) /\ Len(q) \in Nat
  OBVIOUS
<1> HIDE DEF r
<1>2. \A i \in 2 .. Len(q) + 1 : r[i] = q[i - 1] /\ i - 1 \in 1 .. Len(q)
  <2> SUFFICES ASSUME NEW i \in 2 .. Len(q) + 1
               PROVE  r[i] = q[i - 1] /\ i - 1 \in 1 .. Len(q)
    BY Zenon
  <2>1. i - 1 \in 1 .. Len(q) /\ (i - 1) + 1 = i
    BY <1>1
  <2> QED
    BY <1>1, <2>1, Zenon
<1>3. \A i \in DOMAIN r : i = 1 \/ i \in 2 .. Len(q) + 1
  BY <1>1
<1>4. Elems(r) \subseteq Elems(q) \cup {t}
  <2> SUFFICES ASSUME NEW i \in DOMAIN r PROVE r[i] \in Elems(q) \cup {t}
    BY Zenon DEF Elems
  <2>1. CASE i = 1
    BY <1>1, <2>1, Zenon
  <2>2. CASE i \in 2 .. Len(q) + 1
    BY <1>1, <1>2, <2>2, Zenon DEF Elems
  <2> QED
    BY <1>3, <2>1, <2>2, Zenon
<1>5. t \in Elems(r) /\ Elems(q) \subseteq Elems(r)
  <2>1. 1 \in DOMAIN r /\ \A i \in 1 .. Len(q) : i + 1 \in DOMAIN r
    BY <1>1
  <2> QED
    BY <1>1, <2>1, Zenon DEF Elems
<1>6. Elems(r) = Elems(q) \cup {t}
  BY <1>4, <1>5, Zenon
<1>7. ASSUME NoRepeats(q), t \notin Elems(q) PROVE NoRepeats(r)
  <2> SUFFICES ASSUME NEW i \in DOMAIN r, NEW j \in DOMAIN r, r[i] = r[j]
               PROVE  i = j
    BY Zenon DEF NoRepeats
  <2>1. \A k \in 2 .. Len(q) + 1 : r[k] \in Elems(q)
    BY <1>1, <1>2, Zenon DEF Elems
  <2>2. CASE i = 1 \/ j = 1
    BY <1>1, <1>7, <1>3, <2>1, <2>2, Zenon
  <2>3. CASE i \in 2 .. Len(q) + 1 /\ j \in 2 .. Len(q) + 1
    <3>1. i - 1 = j - 1
      BY <1>1, <1>2, <1>7, <2>3 DEF NoRepeats
    <3> QED
      BY <2>3, <3>1
  <2> QED
    BY <1>3, <2>2, <2>3, Zenon
<1> QED
  BY <1>1, <1>6, <1>7, Zenon DEF r

(* find_and_remove takes its one match out and keeps the rest.              *)
LEMMA WithoutList ==
  ASSUME NEW q \in Seq(Task), NEW t \in Task
  PROVE  /\ Without(q, t) \in Seq(Task)
         /\ NoRepeats(q) => /\ NoRepeats(Without(q, t))
                            /\ Elems(Without(q, t)) = Elems(q) \ {t}
<1>1. CASE t \notin Elems(q)
  BY <1>1, Zenon DEF Without
<1>2. CASE t \in Elems(q)
  <2> DEFINE p == PositionOf(q, t)
             r == DropAt(q, p)
  <2>1. p \in DOMAIN q /\ q[p] = t
    BY <1>2, Zenon DEF Elems, PositionOf
  <2> HIDE DEF p
  <2>2. DOMAIN q = 1 .. Len(q) /\ Len(q) \in Nat /\ Len(q) # 0
    BY <2>1
  <2>3. r = [j \in 1 .. (Len(q) - 1) |-> IF j < p THEN q[j] ELSE q[j + 1]]
    BY Zenon DEF DropAt
  <2> HIDE DEF r
  <2>4. \A j \in 1 .. (Len(q) - 1) : r[j] \in Task
    BY <2>1, <2>2, <2>3
  <2>5. r \in Seq(Task) /\ DOMAIN r = 1 .. (Len(q) - 1)
    BY <2>2, <2>3, <2>4
  <2>6. Without(q, t) = r
    BY <1>2, Zenon DEF Without, p, r
  <2>7. ASSUME NoRepeats(q)
        PROVE  NoRepeats(r) /\ Elems(r) = Elems(q) \ {t}
    <3>1. NoRepeats(r)
      <4> SUFFICES ASSUME NEW i \in 1 .. (Len(q) - 1), NEW j \in 1 .. (Len(q) - 1),
                          r[i] = r[j]
                   PROVE  i = j
        BY <2>5, Zenon DEF NoRepeats
      <4>1. \A k \in 1 .. (Len(q) - 1) :
               /\ k < p => r[k] = q[k] /\ k \in DOMAIN q
               /\ ~(k < p) => r[k] = q[k + 1] /\ k + 1 \in DOMAIN q
        BY <2>1, <2>2, <2>3
      <4>2. p \in Int /\ i \in Int /\ j \in Int
        BY <2>1, <2>2
      <4> QED
        BY <2>7, <4>1, <4>2 DEF NoRepeats
    <3>2. Elems(r) \subseteq Elems(q) \ {t}
      BY <2>1, <2>2, <2>3, <2>5, <2>7 DEF NoRepeats, Elems
    <3>3. ASSUME NEW x \in Elems(q) \ {t} PROVE x \in Elems(r)
      <4>1. PICK i \in 1 .. Len(q) : q[i] = x
        BY <2>2, <3>3, Zenon DEF Elems
      <4>2. i # p
        BY <2>1, <3>3, <4>1, Zenon
      <4>3. CASE i < p
        BY <2>1, <2>2, <2>3, <2>5, <4>1, <4>3 DEF Elems
      <4>4. CASE i > p
        <5>1. i - 1 \in 1 .. (Len(q) - 1) /\ r[i - 1] = x
          BY <2>1, <2>2, <2>3, <4>1, <4>4
        <5> QED
          BY <2>5, <5>1, Zenon DEF Elems
      <4> QED
        BY <2>1, <2>2, <4>1, <4>2, <4>3, <4>4
    <3> QED
      BY <3>1, <3>2, <3>3, Zenon
  <2> QED
    BY <2>5, <2>6, <2>7, Zenon
<1> QED
  BY <1>1, <1>2, Zenon

(* The rest of a run queue after its first n tasks have been taken.         *)
LEMMA RestList ==
  ASSUME NEW q \in Seq(Task), NEW n \in 0 .. Len(q)
  PROVE  /\ SubSeq(q, n + 1, Len(q)) \in Seq(Task)
         /\ Elems(SubSeq(q, n + 1, Len(q))) = {q[i] : i \in n + 1 .. Len(q)}
         /\ NoRepeats(q) => NoRepeats(SubSeq(q, n + 1, Len(q)))
<1> DEFINE r == SubSeq(q, n + 1, Len(q))
<1>1. /\ r \in Seq(Task) /\ Len(r) = Len(q) - n
      /\ DOMAIN r = 1 .. Len(q) - n /\ Len(q) \in Nat /\ n \in Nat
      /\ \A i \in 1 .. Len(q) - n : r[i] = q[n + i]
      /\ DOMAIN q = 1 .. Len(q)
  OBVIOUS
<1> HIDE DEF r
<1>2. Elems(r) \subseteq {q[i] : i \in n + 1 .. Len(q)}
  BY <1>1 DEF Elems
<1>3. \A i \in n + 1 .. Len(q) : q[i] = r[i - n] /\ i - n \in DOMAIN r
  <2> SUFFICES ASSUME NEW i \in n + 1 .. Len(q)
               PROVE  q[i] = r[i - n] /\ i - n \in DOMAIN r
    BY Zenon
  <2>1. i - n \in 1 .. Len(q) - n /\ n + (i - n) = i
    BY <1>1
  <2> QED
    BY <1>1, <2>1, Zenon
<1>4. {q[i] : i \in n + 1 .. Len(q)} \subseteq Elems(r)
  BY <1>3, Zenon DEF Elems
<1>5. ASSUME NoRepeats(q) PROVE NoRepeats(r)
  <2> SUFFICES ASSUME NEW i \in 1 .. Len(q) - n, NEW j \in 1 .. Len(q) - n,
                      r[i] = r[j]
               PROVE  i = j
    BY <1>1, Zenon DEF NoRepeats
  <2>1. n + i \in DOMAIN q /\ n + j \in DOMAIN q
    BY <1>1
  <2>2. n + i = n + j
    BY <1>1, <1>5, <2>1, Zenon DEF NoRepeats
  <2> QED
    BY <1>1, <2>2
<1> QED
  BY <1>1, <1>2, <1>4, <1>5, Zenon DEF r

(* The members of a list are tasks, and a non-empty list has a head.        *)
LEMMA ListMembers ==
  ASSUME NEW q \in Seq(Task)
  PROVE  /\ Elems(q) \subseteq Task
         /\ q # << >> => /\ Head(q) \in Task /\ Head(q) \in Elems(q)
                         /\ Tail(q) \in Seq(Task)
  BY DEF Elems

-----------------------------------------------------------------------------
(* Waking, in one formula: a signal, a broadcast, an expired timer and an   *)
(* interruption all wake one waiting task or none.                          *)

WakeOrNot(c, s, why, h) ==
  \/ NoWake /\ holds' = h
  \/ \E t \in Task : status[t] \in Waits /\ WakeTask(c, t, s, why, h)

SemTypeOK ==
  /\ counter \in [Sem -> Int]
  /\ signalled \in [Sem -> BOOLEAN]
  /\ blocked \in [Sem -> Seq(Task)]

WakeTypeOK ==
  /\ status \in [Task -> Waits \cup {"New", "Active", "Running", "Suspended",
                                     "Terminated", "Reaped"}]
  /\ active \in [Cpu -> Seq(Task)]
  /\ waitingQ \subseteq Task
  /\ waitSem \in [Task -> Sem \cup {NoSem}]
  /\ timers \subseteq Task \X Sem \X Nat
  /\ cause \in [Task -> {"Normal", "TimerExpiry", "Interruption"}]
  /\ timerOn \in [Cpu -> BOOLEAN]
  /\ ipi \in [Cpu -> BOOLEAN]
  /\ holds \in [Task -> SUBSET Mutex]

(* Counting a unit back keeps the counters integers.                        *)
LEMMA AddUnitType ==
  ASSUME TypeOK, NEW s \in Sem, AddUnit(s)
  PROVE  counter' \in [Sem -> Int]
  BY CountAssumption DEF TypeOK, AddUnit, Capped

(* notify_other_cpu only touches timers and interrupts of the CPUs.         *)
LEMMA NotifyType ==
  ASSUME TypeOK, NEW c \in Cpu, NEW d \in Cpu, NotifyOtherCpu(c, d)
  PROVE  timerOn' \in [Cpu -> BOOLEAN] /\ ipi' \in [Cpu -> BOOLEAN]
  BY ZenonT(40) DEF TypeOK, NotifyOtherCpu

(* signal_waiting_task keeps the types of what it changes.                  *)
LEMMA WakeTypes ==
  ASSUME TypeOK, NEW c \in Cpu, NEW s \in Sem,
         NEW why \in {"Normal", "TimerExpiry", "Interruption"},
         NEW h \in [Task -> SUBSET Mutex], WakeOrNot(c, s, why, h)
  PROVE  WakeTypeOK'
<1>1. CASE NoWake /\ holds' = h
  BY <1>1, Zenon DEF TypeOK, NoWake, WakeTypeOK, clockVars
<1>2. CASE \E t \in Task : status[t] \in Waits /\ WakeTask(c, t, s, why, h)
  <2>1. PICK t \in Task : status[t] \in Waits /\ WakeTask(c, t, s, why, h)
    BY <1>2, Zenon
  <2>2. Core[t] \in Cpu
    BY TaskAssumption, Zenon
  <2>3. timerOn' \in [Cpu -> BOOLEAN] /\ ipi' \in [Cpu -> BOOLEAN]
    BY <2>1, <2>2, NotifyType, Zenon DEF WakeTask
  <2>4. active' \in [Cpu -> Seq(Task)]
    <3>1. active \in [Cpu -> Seq(Task)]
      BY Zenon DEF TypeOK
    <3>2. <<t>> \o active[Core[t]] \in Seq(Task)
      BY <2>2, <3>1, ConsList, Zenon
    <3>3. \/ active' = active
          \/ active' = [active EXCEPT ![Core[t]] = <<t>> \o active[Core[t]]]
      BY <2>1, Zenon DEF WakeTask
    <3> QED
      BY <2>2, <3>1, <3>2, <3>3, Zenon
  <2>5. /\ status' \in [Task -> Waits \cup {"New", "Active", "Running",
                           "Suspended", "Terminated", "Reaped"}]
        /\ waitingQ' \subseteq Task
    <3>1. /\ \E st \in {"Active", "Running"} : status' = [status EXCEPT ![t] = st]
          /\ waitingQ' \subseteq waitingQ
      BY <2>1, Zenon DEF WakeTask
    <3> QED
      BY <3>1 DEF TypeOK
  <2>6. /\ waitSem' \in [Task -> Sem \cup {NoSem}]
        /\ timers' \subseteq Task \X Sem \X Nat
        /\ cause' \in [Task -> {"Normal", "TimerExpiry", "Interruption"}]
    <3>1. timers' \subseteq timers
      BY <2>1, Zenon DEF WakeTask, TimersWithout
    <3> QED
      BY <2>1, <3>1, Zenon DEF WakeTask, TypeOK
  <2>7. holds' \in [Task -> SUBSET Mutex]
    BY <2>1, Zenon DEF WakeTask
  <2> QED
    BY <2>3, <2>4, <2>5, <2>6, <2>7, Zenon DEF WakeTypeOK
<1> QED
  BY <1>1, <1>2, Zenon DEF WakeOrNot

(* do_signal wakes a task that waits, or none.                              *)
LEMMA SignalEffect ==
  ASSUME TypeOK, NEW c \in Cpu, NEW s \in Sem,
         NEW h \in [Task -> SUBSET Mutex], DoSignal(c, s, h)
  PROVE  /\ WakeOrNot(c, s, "Normal", h)
         /\ SemTypeOK'
         /\ broadcast' \in [Cpu -> Sem \cup {NoSem}]
<1>1. CASE /\ broadcast' = [broadcast EXCEPT ![c] = s]
           /\ holds' = h /\ NoWake /\ UNCHANGED semVars
  BY <1>1, Zenon DEF WakeOrNot, TypeOK, SemTypeOK, semVars
<1>2. CASE /\ CanWake(s) /\ SignalWoke(s) /\ UNCHANGED broadcast
           /\ WakeTask(c, Head(blocked[s]), s, "Normal", h)
  <2>1. Head(blocked[s]) \in Task /\ Tail(blocked[s]) \in Seq(Task)
    BY <1>2, ListMembers, Zenon DEF CanWake, TypeOK
  <2>2. WakeOrNot(c, s, "Normal", h)
    BY <1>2, <2>1, Zenon DEF WakeOrNot, CanWake
  <2>3. SemTypeOK'
    BY <1>2, <2>1, AddUnitType, Zenon DEF SignalWoke, SemTypeOK, TypeOK
  <2> QED
    BY <1>2, <2>2, <2>3, Zenon DEF TypeOK
<1>3. CASE SignalKept(s) /\ holds' = h /\ NoWake /\ UNCHANGED broadcast
  <2>1. SemTypeOK'
    BY <1>3, AddUnitType, Zenon DEF SignalKept, SemTypeOK, TypeOK
  <2> QED
    BY <1>3, <2>1, Zenon DEF WakeOrNot, TypeOK
<1> QED
  BY <1>1, <1>2, <1>3, Zenon DEF DoSignal

(* do_signal_on_task wakes its task if that one waits for the object.       *)
LEMMA SignalOnTaskEffect ==
  ASSUME TypeOK, NEW c \in Cpu, NEW s \in Sem, NEW t \in Task, NEW why,
         DoSignalOnTask(c, s, t, why)
  PROVE  WakeOrNot(c, s, why, holds) /\ SemTypeOK'
<1>1. CASE /\ t \in Elems(blocked[s]) /\ Wakeable(t, why)
           /\ Withdraw(s, t) /\ WakeTask(c, t, s, why, holds)
  <2>1. WakeOrNot(c, s, why, holds)
    BY <1>1, Zenon DEF WakeOrNot, Wakeable, Waits
  <2>2. SemTypeOK'
    BY <1>1, AddUnitType, WithoutList, Zenon DEF Withdraw, SemTypeOK, TypeOK
  <2> QED
    BY <2>1, <2>2, Zenon
<1>2. CASE holds' = holds /\ NoWake /\ UNCHANGED semVars
  BY <1>2, Zenon DEF WakeOrNot, SemTypeOK, TypeOK, semVars
<1> QED
  BY <1>1, <1>2, Zenon DEF DoSignalOnTask

(* One turn of the Wake::All loop wakes a task that waits, or none.         *)
LEMMA BroadcastEffect ==
  ASSUME TypeOK, NEW c \in Cpu, Broadcast(c)
  PROVE  /\ broadcast[c] \in Sem
         /\ WakeOrNot(c, broadcast[c], "Normal", holds)
         /\ SemTypeOK'
         /\ broadcast' \in [Cpu -> Sem \cup {NoSem}]
<1> DEFINE s == broadcast[c]
<1>1. s \in Sem
  BY Zenon DEF Broadcast, TypeOK
<1>2. CASE /\ CanWake(s) /\ BroadcastWoke(s) /\ UNCHANGED broadcast
           /\ WakeTask(c, Head(blocked[s]), s, "Normal", holds)
  <2>1. Head(blocked[s]) \in Task /\ Tail(blocked[s]) \in Seq(Task)
    BY <1>1, <1>2, ListMembers, Zenon DEF CanWake, TypeOK
  <2>2. WakeOrNot(c, s, "Normal", holds)
    BY <1>2, <2>1, Zenon DEF WakeOrNot, CanWake
  <2>3. SemTypeOK'
    BY <1>2, <2>1, Zenon DEF BroadcastWoke, SemTypeOK, TypeOK
  <2> QED
    BY <1>1, <1>2, <2>2, <2>3, Zenon DEF TypeOK
<1>3. CASE /\ BroadcastDone(s) /\ broadcast' = [broadcast EXCEPT ![c] = NoSem]
           /\ holds' = holds /\ NoWake
  <2>1. SemTypeOK'
    BY <1>3, Zenon DEF BroadcastDone, SemTypeOK, TypeOK
  <2> QED
    BY <1>1, <1>3, <2>1, Zenon DEF WakeOrNot, TypeOK
<1> QED
  BY <1>1, <1>2, <1>3, Zenon DEF Broadcast

-----------------------------------------------------------------------------
(* Types.                                                                   *)

(* update_timers keeps positive timers and hands over the expired ones.     *)
LEMMA TickTypes ==
  ASSUME TypeOK, NEW c \in Cpu, TickTimers(c)
  PROVE  /\ timers' \subseteq Task \X Sem \X Nat
         /\ expired' \in [Cpu -> SUBSET (Task \X Sem)]
<1>1. \A r \in Ticked(c) : r[1] \in Task /\ r[2] \in Sem /\ r[3] \in Int
                            /\ r = <<r[1], r[2], r[3]>>
  BY DEF Ticked, TypeOK
<1>2. timers' \subseteq Task \X Sem \X Nat
  BY <1>1 DEF TickTimers, TypeOK
<1>3. {<<r[1], r[2]>> : r \in {x \in Ticked(c) : x[3] = 0}} \subseteq Task \X Sem
  BY <1>1
<1> QED
  BY <1>2, <1>3, Zenon DEF TickTimers, TypeOK

(* The killing half of kill_thread keeps the types of what it changes.      *)
LEMMA TerminateTypes ==
  ASSUME TypeOK, NEW c \in Cpu, NEW v \in Task, Terminate(c, v)
  PROVE  /\ status' \in [Task -> Waits \cup {"New", "Active", "Running",
                            "Suspended", "Terminated", "Reaped"}]
         /\ active' \in [Cpu -> Seq(Task)]
         /\ waitingQ' \subseteq Task /\ suspendedQ' \subseteq Task
         /\ terminatedQ' \subseteq Task
         /\ timers' \subseteq Task \X Sem \X Nat
         /\ leftover' \in [Cpu -> SUBSET Task] /\ flipFlop' \in [Cpu -> BOOLEAN]
         /\ timerOn' \in [Cpu -> BOOLEAN] /\ ipi' \in [Cpu -> BOOLEAN]
<1>1. Core[v] \in Cpu
  BY TaskAssumption, Zenon
<1>2. active' \in [Cpu -> Seq(Task)]
  <2>1. active \in [Cpu -> Seq(Task)]
    BY Zenon DEF TypeOK
  <2>2. Without(active[Core[v]], v) \in Seq(Task)
    BY <1>1, <2>1, WithoutList, Zenon
  <2>3. active' = [active EXCEPT ![Core[v]] =
                     IF status[v] = "Active" THEN Without(active[Core[v]], v)
                                             ELSE active[Core[v]]]
    BY Zenon DEF Terminate
  <2> QED
    BY <1>1, <2>1, <2>2, <2>3, Zenon
<1>3. timerOn' \in [Cpu -> BOOLEAN] /\ ipi' \in [Cpu -> BOOLEAN]
  BY <1>1, NotifyType, Zenon DEF Terminate, TypeOK, clockVars
<1>4. leftover' \in [Cpu -> SUBSET Task] /\ flipFlop' \in [Cpu -> BOOLEAN]
  <2>1. leftover \in [Cpu -> SUBSET Task] /\ flipFlop \in [Cpu -> BOOLEAN]
    BY Zenon DEF TypeOK
  <2>2. \/ UNCHANGED <<leftover, flipFlop>>
        \/ /\ leftover' = [leftover EXCEPT ![Core[v]] = @ \cup {v}]
           /\ flipFlop' = [flipFlop EXCEPT ![Core[v]] = TRUE]
    BY Zenon DEF Terminate
  <2>3. leftover[Core[v]] \cup {v} \in SUBSET Task
    BY <1>1, <2>1, Zenon
  <2>4. leftover' \in [Cpu -> SUBSET Task]
    BY <1>1, <2>1, <2>2, <2>3, Zenon
  <2>5. flipFlop' \in [Cpu -> BOOLEAN]
    BY <1>1, <2>1, <2>2, Zenon
  <2> QED
    BY <2>4, <2>5, Zenon
<1>5. timers' \subseteq timers
  BY Zenon DEF Terminate
<1>6. /\ status' \in [Task -> Waits \cup {"New", "Active", "Running",
                         "Suspended", "Terminated", "Reaped"}]
      /\ waitingQ' \subseteq Task /\ suspendedQ' \subseteq Task
      /\ terminatedQ' \subseteq Task
  BY Zenon DEF Terminate, TypeOK
<1> QED
  BY <1>2, <1>3, <1>4, <1>5, <1>6, Zenon DEF TypeOK

(* The steps of the CPUs other than schedule() keep the types.              *)
LEMMA CpuTypes ==
  ASSUME PlaceInv, NEW c \in Cpu,
         HandleIpi(c) \/ ScheduleTick(c) \/ NotifyWatchers(c) \/ Broadcast(c)
  PROVE  TypeOK'
<1> TypeOK
  BY Zenon DEF PlaceInv
<1>1. CASE HandleIpi(c)
  BY <1>1, Zenon DEF HandleIpi, TypeOK, semVars, queueVars, waitVars, notifyVars,
              killVars, stackVars
<1>2. CASE ScheduleTick(c)
  BY <1>2, TickTypes, Zenon
  DEF ScheduleTick, TypeOK, semVars, queueVars, killVars, stackVars, clockVars
<1>3. CASE NotifyWatchers(c)
  <2>1. holds \in [Task -> SUBSET Mutex]
    BY Zenon DEF TypeOK
  <2>2. CASE \E s \in events[c] :
                /\ events' = [events EXCEPT ![c] = @ \ {s}]
                /\ DoSignal(c, s, holds)
                /\ UNCHANGED expired
    <3>1. PICK s \in events[c] : /\ events' = [events EXCEPT ![c] = @ \ {s}]
                                 /\ DoSignal(c, s, holds)
                                 /\ UNCHANGED expired
      BY <2>2, Zenon
    <3>2. s \in Sem
      BY Zenon DEF TypeOK
    <3>3. WakeTypeOK' /\ SemTypeOK' /\ broadcast' \in [Cpu -> Sem \cup {NoSem}]
      BY <2>1, <3>1, <3>2, SignalEffect, WakeTypes, Zenon
    <3>4. events' \in [Cpu -> SUBSET Sem]
      BY <3>1, Zenon DEF TypeOK
    <3> QED
      BY <1>3, <3>1, <3>3, <3>4, Zenon
      DEF NotifyWatchers, TypeOK, WakeTypeOK, SemTypeOK, killVars, stackVars
  <2>3. CASE /\ \E r \in expired[c] :
                   /\ expired' = [expired EXCEPT ![c] = @ \ {r}]
                   /\ DoSignalOnTask(c, r[2], r[1], "TimerExpiry")
             /\ UNCHANGED <<events, broadcast>>
    <3>1. PICK r \in expired[c] :
                   /\ expired' = [expired EXCEPT ![c] = @ \ {r}]
                   /\ DoSignalOnTask(c, r[2], r[1], "TimerExpiry")
      BY <2>3, Zenon
    <3>2. r[1] \in Task /\ r[2] \in Sem
      BY DEF TypeOK
    <3>3. WakeTypeOK' /\ SemTypeOK'
      BY <2>1, <3>1, <3>2, SignalOnTaskEffect, WakeTypes, Zenon
    <3>4. expired' \in [Cpu -> SUBSET (Task \X Sem)]
      BY <3>1, Zenon DEF TypeOK
    <3> QED
      BY <1>3, <2>3, <3>3, <3>4, Zenon
      DEF NotifyWatchers, TypeOK, WakeTypeOK, SemTypeOK, killVars, stackVars
  <2> QED
    BY <1>3, <2>2, <2>3, Zenon DEF NotifyWatchers
<1>4. CASE Broadcast(c)
  <2>1. holds \in [Task -> SUBSET Mutex]
    BY Zenon DEF TypeOK
  <2>2. WakeTypeOK' /\ SemTypeOK' /\ broadcast' \in [Cpu -> Sem \cup {NoSem}]
    BY <1>4, <2>1, BroadcastEffect, WakeTypes, Zenon
  <2> QED
    BY <1>4, <2>2, Zenon
    DEF Broadcast, TypeOK, WakeTypeOK, SemTypeOK, killVars, stackVars
<1> QED
  BY <1>1, <1>2, <1>3, <1>4, Zenon

(* Who schedule() picks, reaps and puts away are tasks.                      *)
LEMMA SwitchTypes ==
  ASSUME TypeOK, NEW c \in Cpu, NEW switch \in BOOLEAN, NEW n \in 0 .. Len(active[c])
  PROVE  /\ active[c] \in Seq(Task)
         /\ running[c] \in Task \cup {NoTask}
         /\ NextTask(c, switch, n) \in Task \cup {NoTask}
         /\ Rest(c, switch, n) \in Seq(Task)
         /\ Doomed(c, switch, n) \subseteq Task
         /\ Dead(c, switch, n) \subseteq Task
         /\ \A st : PutAway(c, switch, n, st) \subseteq Task
<1>1. active[c] \in Seq(Task) /\ running[c] \in Task \cup {NoTask}
  BY Zenon DEF TypeOK
<1>2. NextTask(c, switch, n) \in Task \cup {NoTask}
  <2>1. CASE Found(c, switch, n)
    <3>1. n + 1 \in 1 .. Len(active[c])
      BY <1>1, <2>1 DEF Found
    <3>2. active[c][n + 1] \in Task
      BY <1>1, <3>1
    <3> QED
      BY <2>1, <3>2, Zenon DEF NextTask
  <2>2. CASE ~Found(c, switch, n)
    BY <1>1, <2>2, Zenon DEF NextTask
  <2> QED
    BY <2>1, <2>2, Zenon
<1>3. Rest(c, switch, n) \in Seq(Task)
  BY <1>1 DEF Rest, Found
<1>4. Doomed(c, switch, n) \subseteq Task
  BY <1>1, Zenon DEF Doomed, Leaves
<1>5. {active[c][i] : i \in 1 .. n} \subseteq Task
  BY <1>1
<1>6. Dead(c, switch, n) \subseteq Task
  BY <1>4, <1>5, Zenon DEF Dead, TypeOK
<1> QED
  BY <1>1, <1>2, <1>3, <1>4, <1>6, Zenon DEF PutAway

(* schedule() keeps the types.                                              *)
LEMMA ScheduleTypes ==
  ASSUME PlaceInv, NEW c \in Cpu, Schedule(c)
  PROVE  TypeOK'
<1> TypeOK
  BY Zenon DEF PlaceInv
<1>1. /\ timers' \subseteq Task \X Sem \X Nat
      /\ expired' \in [Cpu -> SUBSET (Task \X Sem)]
  BY TickTypes, Zenon DEF Schedule
<1>2. PICK switch \in BOOLEAN, n \in 0 .. Len(active[c]) : SwitchTasks(c, switch, n)
  BY Zenon DEF Schedule
<1> DEFINE next == NextTask(c, switch, n)
           rest == Rest(c, switch, n)
           dead == Dead(c, switch, n)
           doomed == Doomed(c, switch, n)
<1>3. /\ running[c] \in Task \cup {NoTask} /\ next \in Task \cup {NoTask}
      /\ rest \in Seq(Task) /\ doomed \subseteq Task /\ dead \subseteq Task
      /\ \A st : PutAway(c, switch, n, st) \subseteq Task
  BY SwitchTypes, Zenon
<1>4. status' \in [Task -> Waits \cup {"New", "Active", "Running", "Suspended",
                                       "Terminated", "Reaped"}]
  BY <1>2, Zenon DEF TypeOK, SwitchTasks
<1>5. running' \in [Cpu -> Task \cup {NoTask}]
  BY <1>2, <1>3, Zenon DEF TypeOK, SwitchTasks
<1>6. active' \in [Cpu -> Seq(Task)]
  <2>1. running[c] \in Task => Append(rest, running[c]) \in Seq(Task)
    BY <1>3, AppendList, Zenon
  <2>2. Requeued(c, switch, n) => running[c] \in Task
    BY <1>3, Zenon DEF Requeued, Leaves
  <2>3. active' = [active EXCEPT ![c] = IF Requeued(c, switch, n)
                                        THEN Append(rest, running[c]) ELSE rest]
    BY <1>2, Zenon DEF SwitchTasks
  <2>4. active \in [Cpu -> Seq(Task)]
    BY Zenon DEF TypeOK
  <2> HIDE DEF rest
  <2> QED
    BY <1>3, <2>1, <2>2, <2>3, <2>4, Zenon
<1>7. waitingQ' \subseteq Task /\ suspendedQ' \subseteq Task
  BY <1>2, <1>3, Zenon DEF TypeOK, SwitchTasks
<1>8. ReapTasks(c, dead, doomed)
  BY <1>2, Zenon DEF SwitchTasks
<1> HIDE DEF dead, doomed
<1>9. /\ terminatedQ' \subseteq Task /\ leftover' \in [Cpu -> SUBSET Task]
      /\ flipFlop' \in [Cpu -> BOOLEAN] /\ freed' \subseteq Task
      /\ events' \in [Cpu -> SUBSET Sem]
  <2>1. leftover[c] \cup doomed \subseteq Task
    BY <1>3, Zenon DEF TypeOK
  <2>2. terminatedQ' \subseteq Task /\ freed' \subseteq Task
    BY <1>3, <1>8, <2>1, Zenon DEF ReapTasks, TypeOK
  <2>3. leftover' \in [Cpu -> SUBSET Task]
    <3>1. \/ leftover' = [leftover EXCEPT ![c] = leftover[c] \cup doomed]
          \/ leftover' = [leftover EXCEPT ![c] = {}]
      BY <1>8, Zenon DEF ReapTasks
    <3>2. leftover \in [Cpu -> SUBSET Task] /\ {} \subseteq Task
      BY Zenon DEF TypeOK
    <3> QED
      BY <2>1, <3>1, <3>2, Zenon
  <2>4. flipFlop' \in [Cpu -> BOOLEAN]
    BY <1>8, Zenon DEF ReapTasks, TypeOK
  <2>5. events' \in [Cpu -> SUBSET Sem]
    <3>1. {TermEvent[t] : t \in dead} \ {NoSem} \subseteq Sem
      BY <1>3, SemAssumption
    <3> QED
      BY <1>8, <3>1, Zenon DEF ReapTasks, TypeOK
  <2> QED
    BY <2>2, <2>3, <2>4, <2>5, Zenon
<1>10. timerOn' \in [Cpu -> BOOLEAN]
  <2>1. timerOn' = timerOn \/ timerOn' = [timerOn EXCEPT ![c] = FALSE]
    BY <1>2, Zenon DEF SwitchTasks
  <2> QED
    BY <2>1, Zenon DEF TypeOK
<1>11. pc' \in [Task -> PcValues]
  <2>1. pc' = pc \/ (running[c] \in Task /\ pc' = [pc EXCEPT ![running[c]] = AfterYield(running[c])])
    BY <1>2, <1>3, Zenon DEF SwitchTasks
  <2>2. running[c] \in Task => AfterYield(running[c]) \in PcValues
    BY Zenon DEF TypeOK, AfterYield, PcValues
  <2> QED
    BY <2>1, <2>2, Zenon DEF TypeOK
<1>12. UNCHANGED <<semVars, arg, waitSem, cause, holds, broadcast, killVars,
                   ipi, resumed>>
  BY Zenon DEF Schedule
<1> QED
  BY <1>1, <1>4, <1>5, <1>6, <1>7, <1>9, <1>10, <1>11, <1>12, Zenon
  DEF TypeOK, semVars, killVars

(* The calls of the synchronisation objects keep the types.                 *)
LEMMA ObjectCallTypes ==
  ASSUME PlaceInv, NEW c \in Cpu, NEW t \in Task, NEW s \in Sem,
         \/ WaitTake(c, t, s) \/ Wait(c, t, s) \/ Signal(c, t, s)
         \/ ResetEvent(c, t, s)
  PROVE  TypeOK'
<1> TypeOK
  BY Zenon DEF PlaceInv
<1>1. CASE WaitTake(c, t, s)
  <2>1. SemTypeOK'
    <3>1. SemTypeOK /\ Take(s)
      BY <1>1, Zenon DEF WaitTake, TypeOK, SemTypeOK
    <3> QED
      BY <3>1 DEF Take, SemTypeOK
  <2>2. cause' \in [Task -> {"Normal", "TimerExpiry", "Interruption"}]
    BY <1>1, Zenon DEF WaitTake, TypeOK
  <2>3. holds' \in [Task -> SUBSET Mutex]
    BY <1>1, Zenon DEF WaitTake, TypeOK
  <2> QED
    BY <1>1, <2>1, <2>2, <2>3, Zenon
    DEF WaitTake, TypeOK, SemTypeOK, queueVars, notifyVars, killVars, stackVars,
        clockVars
<1>2. CASE Wait(c, t, s)
  <2>1. PICK ticks \in (-1) .. MaxTicks, intr \in BOOLEAN :
           WaitFail(c, t, s, ticks, intr) \/ WaitBlock(c, t, s, ticks, intr)
    BY <1>2, Zenon DEF Wait
  <2>2. CASE WaitFail(c, t, s, ticks, intr)
    <3>1. cause' \in [Task -> {"Normal", "TimerExpiry", "Interruption"}]
      BY <2>2, Zenon DEF WaitFail, TypeOK
    <3> QED
      BY <2>2, <3>1, Zenon DEF WaitFail, TypeOK, semVars, queueVars, notifyVars, killVars,
                        stackVars, clockVars
  <2>3. CASE WaitBlock(c, t, s, ticks, intr)
    <3>1. Append(blocked[s], t) \in Seq(Task)
      BY AppendList, Zenon DEF TypeOK
    <3>2. SemTypeOK'
      BY <2>3, <3>1 DEF WaitBlock, Block, TypeOK, SemTypeOK
    <3>3. status' \in [Task -> Waits \cup {"New", "Active", "Running",
                                            "Suspended", "Terminated", "Reaped"}]
      BY <2>3, Zenon DEF WaitBlock, TypeOK, Waits
    <3>4. /\ waitSem' \in [Task -> Sem \cup {NoSem}]
          /\ cause' \in [Task -> {"Normal", "TimerExpiry", "Interruption"}]
      BY <2>3, Zenon DEF WaitBlock, TypeOK
    <3>5. timers' \subseteq Task \X Sem \X Nat
      <4>1. timers' = timers \cup (IF ticks > 0 THEN {<<t, s, ticks>>} ELSE {})
        BY <2>3, Zenon DEF WaitBlock
      <4>2. ticks > 0 => <<t, s, ticks>> \in Task \X Sem \X Nat
        <5>1. MaxTicks \in Nat
          BY SemAssumption, Zenon
        <5>2. ticks > 0 => ticks \in Nat
          BY <5>1
        <5> QED
          BY <5>2, Zenon
      <4>3. timers \subseteq Task \X Sem \X Nat
        BY Zenon DEF TypeOK
      <4> QED
        BY <4>1, <4>2, <4>3, Zenon
    <3>6. /\ pc' \in [Task -> PcValues]
          /\ arg' \in [Task -> (Task \cup {NoTask}) \X (Sem \cup {NoSem})]
      BY <2>3, Zenon DEF WaitBlock, Goto, TypeOK, PcValues
    <3> QED
      BY <2>3, <3>2, <3>3, <3>4, <3>5, <3>6, Zenon
      DEF WaitBlock, TypeOK, SemTypeOK, queueVars, notifyVars, killVars,
          stackVars, clockVars
  <2> QED
    BY <2>1, <2>2, <2>3, Zenon
<1>3. CASE Signal(c, t, s)
  <2> DEFINE h == [holds EXCEPT ![t] = @ \ {s}]
  <2>1. h \in [Task -> SUBSET Mutex] /\ DoSignal(c, s, h)
    BY <1>3, Zenon DEF TypeOK, Signal
  <2> HIDE DEF h
  <2>2. WakeTypeOK' /\ SemTypeOK' /\ broadcast' \in [Cpu -> Sem \cup {NoSem}]
    BY <2>1, SignalEffect, WakeTypes, Zenon
  <2> QED
    BY <1>3, <2>2, Zenon
    DEF Signal, TypeOK, WakeTypeOK, SemTypeOK, killVars, stackVars
<1>4. CASE ResetEvent(c, t, s)
  BY <1>4, Zenon DEF ResetEvent, Reset, TypeOK, queueVars, waitVars, notifyVars,
              killVars, stackVars, clockVars
<1> QED
  BY <1>1, <1>2, <1>3, <1>4, Zenon

(* The calls on other tasks keep the types.                                 *)
LEMMA TaskCallTypes ==
  ASSUME PlaceInv, NEW c \in Cpu, NEW t \in Task, NEW v \in Task,
         \/ StartTask(c, t, v) \/ KillThread(c, t, v)
         \/ SafeKill(c, t, v) \/ ResumeProcess(c, t, v)
  PROVE  TypeOK'
<1> TypeOK
  BY Zenon DEF PlaceInv
<1>1. CASE StartTask(c, t, v)
  <2>1. Core[v] \in Cpu /\ active \in [Cpu -> Seq(Task)]
    BY TaskAssumption, Zenon DEF TypeOK
  <2>2. Append(active[Core[v]], v) \in Seq(Task)
    BY <2>1, AppendList, Zenon
  <2>3. active' = [active EXCEPT ![Core[v]] = Append(active[Core[v]], v)]
    BY <1>1, Zenon DEF StartTask
  <2>4. active' \in [Cpu -> Seq(Task)]
    BY <2>1, <2>2, <2>3, Zenon
  <2>5. timerOn' \in [Cpu -> BOOLEAN] /\ ipi' \in [Cpu -> BOOLEAN]
    BY <1>1, <2>1, NotifyType, Zenon DEF StartTask
  <2> QED
    BY <1>1, <2>4, <2>5, Zenon
    DEF StartTask, TypeOK, semVars, waitVars, notifyVars, killVars, stackVars
<1>2. CASE KillThread(c, t, v)
  <2>1. /\ pc' \in [Task -> PcValues]
        /\ arg' \in [Task -> (Task \cup {NoTask}) \X (Sem \cup {NoSem})]
    <3>1. \/ UNCHANGED <<pc, arg>>
          \/ /\ pc' = [pc EXCEPT ![t] = "drop"]
             /\ arg' = [arg EXCEPT ![t] = <<v, NoSem>>]
      BY <1>2, Zenon DEF KillThread, Goto
    <3>2. "drop" \in PcValues /\ <<v, NoSem>> \in (Task \cup {NoTask}) \X (Sem \cup {NoSem})
      BY Zenon DEF PcValues, TypeOK
    <3>3. /\ pc \in [Task -> PcValues]
          /\ arg \in [Task -> (Task \cup {NoTask}) \X (Sem \cup {NoSem})]
      BY Zenon DEF TypeOK
    <3> QED
      BY <3>1, <3>2, <3>3, Zenon
  <2> QED
    BY <1>2, <2>1, TerminateTypes, Zenon
    DEF KillThread, TypeOK, semVars, notifyVars, killVars
<1>3. CASE SafeKill(c, t, v)
  <2>1. /\ pc' \in [Task -> PcValues]
        /\ arg' \in [Task -> (Task \cup {NoTask}) \X (Sem \cup {NoSem})]
    <3>1. \/ UNCHANGED <<pc, arg>>
          \/ /\ pc' = [pc EXCEPT ![t] = "intr"]
             /\ arg' = [arg EXCEPT ![t] = <<v, waitSem[v]>>]
      BY <1>3, Zenon DEF SafeKill, Goto
    <3>2. "intr" \in PcValues /\ <<v, waitSem[v]>> \in (Task \cup {NoTask}) \X (Sem \cup {NoSem})
      BY Zenon DEF PcValues, TypeOK
    <3>3. /\ pc \in [Task -> PcValues]
          /\ arg \in [Task -> (Task \cup {NoTask}) \X (Sem \cup {NoSem})]
      BY Zenon DEF TypeOK
    <3> DEFINE A == (Task \cup {NoTask}) \X (Sem \cup {NoSem})
               new == <<v, waitSem[v]>>
    <3>4. new \in A /\ arg \in [Task -> A]
          /\ (arg' = arg \/ arg' = [arg EXCEPT ![t] = new])
      BY <3>1, <3>2, <3>3, Zenon
    <3> HIDE DEF A, new
    <3>5. arg' \in [Task -> A]
      BY <3>4, Zenon
    <3>6. pc' \in [Task -> PcValues]
      BY <3>1, <3>2, <3>3, Zenon
    <3> QED
      BY <3>5, <3>6, Zenon DEF A
  <2> QED
    BY <1>3, <2>1, Zenon DEF SafeKill, TypeOK, semVars, queueVars, waitVars, notifyVars,
                      stackVars, clockVars
<1>4. CASE ResumeProcess(c, t, v)
  <2>1. /\ pc' \in [Task -> PcValues]
        /\ arg' \in [Task -> (Task \cup {NoTask}) \X (Sem \cup {NoSem})]
    BY <1>4, Zenon DEF ResumeProcess, Goto, TypeOK, PcValues
  <2> QED
    BY <1>4, <2>1, Zenon DEF ResumeProcess, TypeOK, semVars, queueVars, waitVars,
                      notifyVars, killVars, stackVars, clockVars
<1> QED
  BY <1>1, <1>2, <1>3, <1>4, Zenon

(* The steps in which a task goes on by itself keep the types.              *)
LEMMA OwnStepTypes ==
  ASSUME PlaceInv, NEW c \in Cpu, NEW t \in Task,
         \/ WaitReturn(c, t) \/ DropTask(c, t) \/ InterruptWait(c, t)
         \/ ResumeTask(c, t) \/ ExitThread(c, t) \/ TransferToUser(c, t)
         \/ SyscallEnter(c, t) \/ SyscallExit(c, t) \/ SuspendProcess(c, t)
  PROVE  TypeOK'
<1> TypeOK /\ CallArgs
  BY Zenon DEF PlaceInv
<1>1. \A where \in PcValues : Goto(t, where, Nothing) =>
         /\ pc' \in [Task -> PcValues]
         /\ arg' \in [Task -> (Task \cup {NoTask}) \X (Sem \cup {NoSem})]
  BY DEF Goto, Nothing, TypeOK
<1>2. {"kern", "user", "init", "exit", "suspyield"} \subseteq PcValues
  BY Zenon DEF PcValues
<1>3. CASE WaitReturn(c, t) \/ TransferToUser(c, t) \/ SyscallEnter(c, t)
  BY <1>1, <1>2, <1>3
  DEF WaitReturn, TransferToUser, SyscallEnter, TypeOK, semVars, queueVars,
      waitVars, notifyVars, killVars, stackVars, clockVars
<1>4. CASE DropTask(c, t)
  <2> DEFINE v == arg[t][1]
  <2>1. v \in Task
    BY <1>4, Zenon DEF DropTask, At, CallArgs
  <2>2. SemTypeOK'
    <3>1. CASE waitSem[v] # NoSem /\ Withdraw(waitSem[v], v)
      <4>1. waitSem[v] \in Sem
        BY <2>1, <3>1, Zenon DEF TypeOK
      <4> QED
        BY <2>1, <3>1, <4>1, AddUnitType, WithoutList, Zenon
        DEF Withdraw, SemTypeOK, TypeOK
    <3>2. CASE UNCHANGED semVars
      BY <3>2, Zenon DEF SemTypeOK, TypeOK, semVars
    <3> QED
      BY <1>4, <3>1, <3>2, Zenon DEF DropTask
  <2>3. waitSem' \in [Task -> Sem \cup {NoSem}]
    BY <1>4, <2>1, Zenon DEF DropTask, TypeOK
  <2> QED
    BY <1>1, <1>2, <1>4, <2>2, <2>3, Zenon
    DEF DropTask, TypeOK, SemTypeOK, queueVars, notifyVars, killVars, stackVars,
        clockVars
<1>5. CASE InterruptWait(c, t)
  <2>1. arg[t][1] \in Task /\ arg[t][2] \in Sem
    BY <1>5, Zenon DEF InterruptWait, At, CallArgs
  <2>2. holds \in [Task -> SUBSET Mutex]
    BY Zenon DEF TypeOK
  <2>3. DoSignalOnTask(c, arg[t][2], arg[t][1], "Interruption")
    BY <1>5, Zenon DEF InterruptWait
  <2>4. WakeTypeOK' /\ SemTypeOK'
    BY <2>1, <2>2, <2>3, SignalOnTaskEffect, WakeTypes, Zenon
  <2> QED
    BY <1>1, <1>2, <1>5, <2>4, Zenon
    DEF InterruptWait, TypeOK, WakeTypeOK, SemTypeOK, notifyVars, killVars,
        stackVars
<1>6. CASE ResumeTask(c, t)
  <2> DEFINE v == arg[t][1]
  <2>1. v \in Task /\ Core[v] \in Cpu
    BY <1>6, TaskAssumption, Zenon DEF ResumeTask, At, CallArgs
  <2>2. active' \in [Cpu -> Seq(Task)]
    <3>1. active \in [Cpu -> Seq(Task)]
      BY Zenon DEF TypeOK
    <3>2. <<v>> \o active[Core[v]] \in Seq(Task)
      BY <2>1, <3>1, ConsList, Zenon
    <3>3. \/ active' = active
          \/ active' = [active EXCEPT ![Core[v]] = <<v>> \o active[Core[v]]]
      BY <1>6, Zenon DEF ResumeTask
    <3> QED
      BY <2>1, <3>1, <3>2, <3>3, Zenon
  <2>3. timerOn' \in [Cpu -> BOOLEAN] /\ ipi' \in [Cpu -> BOOLEAN]
    BY <1>6, <2>1, NotifyType, Zenon DEF ResumeTask, TypeOK, clockVars
  <2>4. /\ status' \in [Task -> Waits \cup {"New", "Active", "Running",
                           "Suspended", "Terminated", "Reaped"}]
        /\ suspendedQ' \subseteq Task
    <3> DEFINE S == Waits \cup {"New", "Active", "Running", "Suspended", "Terminated", "Reaped"}
    <3>1. status \in [Task -> S] /\ suspendedQ \subseteq Task /\ "Active" \in S /\ "Running" \in S
      BY Zenon DEF TypeOK
    <3>2. /\ \/ status' = status
             \/ status' = [status EXCEPT ![v] = "Active"]
             \/ status' = [status EXCEPT ![v] = "Running"]
          /\ suspendedQ' \subseteq suspendedQ
      BY <1>6, Zenon DEF ResumeTask
    <3> HIDE DEF S
    <3>3. status' \in [Task -> S]
      BY <2>1, <3>1, <3>2, Zenon
    <3> QED
      BY <3>1, <3>2, <3>3, Zenon DEF S
  <2> QED
    BY <1>1, <1>2, <1>6, <2>2, <2>3, <2>4, Zenon
    DEF ResumeTask, TypeOK, semVars, waitVars, notifyVars, killVars, stackVars
<1>7. CASE ExitThread(c, t)
  <2>1. /\ Terminate(c, t) /\ Goto(t, "exit", Nothing)
        /\ UNCHANGED <<counter, signalled, blocked, running, waitSem, cause, holds,
                       events, expired, broadcast, pendingKill, safeToKill, freed,
                       resumed>>
    BY <1>7, Zenon DEF ExitThread, semVars, notifyVars, killVars
  <2>2. /\ pc' \in [Task -> PcValues]
        /\ arg' \in [Task -> (Task \cup {NoTask}) \X (Sem \cup {NoSem})]
    BY <1>1, <1>2, <2>1, Zenon
  <2>3. /\ status' \in [Task -> Waits \cup {"New", "Active", "Running",
                                            "Suspended", "Terminated", "Reaped"}]
        /\ active' \in [Cpu -> Seq(Task)]
        /\ waitingQ' \subseteq Task /\ suspendedQ' \subseteq Task
        /\ terminatedQ' \subseteq Task
        /\ timers' \subseteq Task \X Sem \X Nat
        /\ leftover' \in [Cpu -> SUBSET Task] /\ flipFlop' \in [Cpu -> BOOLEAN]
        /\ timerOn' \in [Cpu -> BOOLEAN] /\ ipi' \in [Cpu -> BOOLEAN]
    BY <2>1, TerminateTypes, Zenon
  <2> QED
    BY <2>1, <2>2, <2>3, Zenon DEF TypeOK
<1>8. CASE SyscallExit(c, t)
  <2>1. /\ Goto(t, "exit", Nothing) \/ Goto(t, "user", Nothing)
        /\ safeToKill' = safeToKill \cup {t} \/ safeToKill' = safeToKill
        /\ t \in UserTask
    BY <1>8, Zenon DEF SyscallExit
  <2>2. UNCHANGED <<counter, signalled, blocked, status, running, active, waitingQ,
                    suspendedQ, terminatedQ, waitSem, timers, cause, holds, events,
                    expired, broadcast, pendingKill, leftover, flipFlop, freed,
                    timerOn, ipi, resumed>>
    BY <1>8, Zenon DEF SyscallExit, semVars, queueVars, waitVars, notifyVars, stackVars,
                clockVars
  <2>3. /\ pc' \in [Task -> PcValues]
        /\ arg' \in [Task -> (Task \cup {NoTask}) \X (Sem \cup {NoSem})]
    BY <1>1, <1>2, <2>1, Zenon
  <2> QED
    BY <2>1, <2>2, <2>3, Zenon DEF TypeOK
<1>9. CASE SuspendProcess(c, t)
  BY <1>1, <1>2, <1>9, Zenon
  DEF SuspendProcess, TypeOK, semVars, queueVars, waitVars, notifyVars,
      killVars, stackVars, clockVars
<1> QED
  BY <1>3, <1>4, <1>5, <1>6, <1>7, <1>8, <1>9, Zenon
=============================================================================
