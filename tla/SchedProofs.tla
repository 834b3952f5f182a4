----------------------------- MODULE SchedProofs ----------------------------
(***************************************************************************)
(* Every task of the scheduler is in exactly one place, the one its status *)
(* names, for any number of CPUs, tasks and synchronisation objects.       *)
(***************************************************************************)
EXTENDS SchedTypes

-----------------------------------------------------------------------------
(* Places.                                                                  *)

(* A task whose status, CPU and lists are as before stays well placed.      *)
LEMMA PlacedFrame ==
  ASSUME NEW u \in Task, Placed(u), status'[u] = status[u],
         Here(u)' <=> Here(u),
         u \in Elems(active[Core[u]]) => u \in Elems(active'[Core[u]]),
         u \in waitingQ' <=> u \in waitingQ,
         u \in suspendedQ' <=> u \in suspendedQ,
         u \in terminatedQ' <=> u \in terminatedQ
  PROVE  Placed(u)'
  BY Zenon DEF Placed

(* What OnePlace says of a task that is on no run queue or on no CPU.        *)
LEMMA WhereNot ==
  ASSUME TypeOK, OnePlace, NEW t \in Task
  PROVE  /\ Core[t] \in Cpu
         /\ status[t] # "Active" => \A d \in Cpu : t \notin Elems(active[d])
         /\ ~Here(t) => \A d \in Cpu : running[d] # t
         /\ status[t] \notin Waits \cup {"Running", "Suspended", "Terminated"} => ~Here(t)
         /\ \A d \in Cpu : Elems(active[d]) \subseteq Task
<1>1. Core[t] \in Cpu /\ t # NoTask
  BY TaskAssumption, Zenon
<1>2. \A d \in Cpu : Elems(active[d]) \subseteq Task
  BY ListMembers, Zenon DEF TypeOK
<1> QED
  BY <1>1, <1>2 DEF OnePlace, QueuedOnce, OnItsCpu, Here

(* If only t's status changes and t is on no run queue, the queues are      *)
(* still right, and so are the CPUs if t's new status is one a task on a    *)
(* CPU may have.                                                            *)
LEMMA StatusFrame ==
  ASSUME TypeOK, OnePlace, NEW t \in Task, NEW st,
         status' = [status EXCEPT ![t] = st]
  PROVE  /\ status'[t] = st /\ \A u \in Task : u # t => status'[u] = status[u]
         /\ active' = active /\ status[t] # "Active" => QueuedOnce'
         /\ /\ UNCHANGED running
            /\ ~Here(t) \/ st \in Waits \cup {"Running", "Suspended", "Terminated"}
            => OnItsCpu'
<1>1. status'[t] = st /\ \A u \in Task : u # t => status'[u] = status[u]
  BY Zenon DEF TypeOK
<1>2. ASSUME active' = active, status[t] # "Active" PROVE QueuedOnce'
  BY <1>1, <1>2, WhereNot, Zenon DEF OnePlace, QueuedOnce
<1>3. ASSUME UNCHANGED running,
             ~Here(t) \/ st \in Waits \cup {"Running", "Suspended", "Terminated"}
      PROVE  OnItsCpu'
  <2> SUFFICES ASSUME NEW d \in Cpu, running[d] # NoTask
               PROVE  /\ Core[running[d]] = d
                      /\ status'[running[d]] \in Waits \cup {"Running", "Suspended", "Terminated"}
    BY <1>3, Zenon DEF OnItsCpu
  <2>1. running[d] \in Task
    BY Zenon DEF TypeOK
  <2>2. CASE running[d] = t
    BY <1>1, <1>3, <2>2, WhereNot DEF OnePlace, OnItsCpu
  <2>3. CASE running[d] # t
    BY <1>1, <2>1, <2>3, Zenon DEF OnePlace, OnItsCpu
  <2> QED
    BY <2>2, <2>3, Zenon
<1> QED
  BY <1>1, <1>2, <1>3, Zenon

(* Putting a task that was on no CPU at the head or the tail of its run     *)
(* queue, with status Active.                                               *)
LEMMA QueueTask ==
  ASSUME TypeOK, OnePlace, NEW t \in Task, ~Here(t), status[t] # "Active",
         status' = [status EXCEPT ![t] = "Active"],
         \/ active' = [active EXCEPT ![Core[t]] = <<t>> \o active[Core[t]]]
         \/ active' = [active EXCEPT ![Core[t]] = Append(active[Core[t]], t)],
         UNCHANGED running
  PROVE  /\ QueuedOnce' /\ OnItsCpu'
         /\ t \in Elems(active'[Core[t]])
         /\ \A d \in Cpu : Elems(active[d]) \subseteq Elems(active'[d])
<1>1. /\ Core[t] \in Cpu /\ \A d \in Cpu : t \notin Elems(active[d])
      /\ \A d \in Cpu : Elems(active[d]) \subseteq Task
  BY WhereNot, Zenon
<1>2. active \in [Cpu -> Seq(Task)]
  BY Zenon DEF TypeOK
<1>3. \A d \in Cpu : d # Core[t] => active'[d] = active[d]
  BY <1>2, Zenon
<1>4. \/ active'[Core[t]] = <<t>> \o active[Core[t]]
      \/ active'[Core[t]] = Append(active[Core[t]], t)
  BY <1>1, <1>2, Zenon
<1>5. NoRepeats(active[Core[t]])
  BY <1>1, Zenon DEF OnePlace, QueuedOnce
<1>6. /\ Elems(active'[Core[t]]) = Elems(active[Core[t]]) \cup {t}
      /\ NoRepeats(active'[Core[t]])
  <2> DEFINE q == active[Core[t]]
  <2>1. q \in Seq(Task) /\ t \notin Elems(q)
    BY <1>1, <1>2, Zenon
  <2>2. \/ active'[Core[t]] = <<t>> \o q
        \/ active'[Core[t]] = Append(q, t)
    BY <1>4, Zenon
  <2>3. NoRepeats(q)
    BY <1>5, Zenon
  <2> HIDE DEF q
  <2>4. Elems(<<t>> \o q) = Elems(q) \cup {t} /\ NoRepeats(<<t>> \o q)
    BY <2>1, <2>3, ConsList, Zenon
  <2>5. Elems(Append(q, t)) = Elems(q) \cup {t} /\ NoRepeats(Append(q, t))
    BY <2>1, <2>3, AppendList, Zenon
  <2>6. /\ Elems(active'[Core[t]]) = Elems(q) \cup {t}
        /\ NoRepeats(active'[Core[t]])
    BY <2>2, <2>4, <2>5, Zenon
  <2> QED
    BY <2>6, Zenon DEF q
<1>7. status'[t] = "Active" /\ \A u \in Task : u # t => status'[u] = status[u]
  BY StatusFrame, Zenon
<1>8. OnItsCpu'
  BY StatusFrame, Zenon
<1>9. QueuedOnce'
  <2> SUFFICES ASSUME NEW d \in Cpu
               PROVE  /\ \A u \in Elems(active'[d]) : Core[u] = d /\ status'[u] = "Active"
                      /\ NoRepeats(active'[d])
    BY Zenon DEF QueuedOnce
  <2>1. CASE d = Core[t]
    BY <1>1, <1>6, <1>7, <2>1 DEF OnePlace, QueuedOnce
  <2>2. CASE d # Core[t]
    BY <1>1, <1>3, <1>7, <2>2 DEF OnePlace, QueuedOnce
  <2> QED
    BY <2>1, <2>2, Zenon
<1> QED
  BY <1>3, <1>6, <1>8, <1>9, Zenon

(* A woken task moves from waiting_tasks to the head of its run queue, or   *)
(* stays on the CPU it has not left yet.                                    *)
LEMMA WakePlace ==
  ASSUME TypeOK, OnePlace, NEW c \in Cpu, NEW s, NEW why, NEW h,
         WakeOrNot(c, s, why, h), UNCHANGED <<running, suspendedQ, terminatedQ>>
  PROVE  OnePlace'
<1>1. CASE NoWake
  BY <1>1 DEF NoWake, OnePlace, QueuedOnce, OnItsCpu, Placed, Here
<1>2. CASE \E t \in Task : status[t] \in Waits /\ WakeTask(c, t, s, why, h)
  <2>1. PICK t \in Task : status[t] \in Waits /\ WakeTask(c, t, s, why, h)
    BY <1>2, Zenon
  <2>2. Placed(t) /\ status[t] \notin {"Active", "Suspended", "Terminated"}
    BY <2>1, Zenon DEF OnePlace, Waits
  <2>3. CASE t \in waitingQ
    <3>1. /\ status' = [status EXCEPT ![t] = "Active"]
          /\ active' = [active EXCEPT ![Core[t]] = <<t>> \o active[Core[t]]]
          /\ waitingQ' = waitingQ \ {t}
      BY <2>1, <2>3, Zenon DEF WakeTask
    <3>2. ~Here(t)
      BY <2>2, <2>3, Zenon DEF Placed
    <3>3. /\ QueuedOnce' /\ OnItsCpu'
          /\ t \in Elems(active'[Core[t]])
          /\ \A d \in Cpu : Elems(active[d]) \subseteq Elems(active'[d])
      BY <2>2, <3>1, <3>2, QueueTask, Zenon
    <3>4. status'[t] = "Active" /\ \A u \in Task : u # t => status'[u] = status[u]
      BY <3>1, StatusFrame, Zenon
    <3>5. ASSUME NEW u \in Task PROVE Placed(u)'
      <4>1. CASE u = t
        BY <2>2, <3>1, <3>2, <3>3, <3>4, <4>1, Zenon DEF Placed, Here, Waits
      <4>2. CASE u # t
        <5>1. Core[u] \in Cpu /\ Placed(u)
          BY WhereNot, Zenon DEF OnePlace
        <5> QED
          BY <3>1, <3>3, <3>4, <4>2, <5>1, PlacedFrame, Zenon DEF Here
      <4> QED
        BY <4>1, <4>2, Zenon
    <3> QED
      BY <3>3, <3>5, Zenon DEF OnePlace
  <2>4. CASE t \notin waitingQ
    <3>1. status' = [status EXCEPT ![t] = "Running"] /\ UNCHANGED <<active, waitingQ>>
      BY <2>1, <2>4, Zenon DEF WakeTask
    <3>2. Here(t)
      BY <2>1, <2>2, <2>4, Zenon DEF Placed
    <3>3. QueuedOnce' /\ OnItsCpu'
      BY <2>2, <3>1, StatusFrame, Zenon
    <3>4. status'[t] = "Running" /\ \A u \in Task : u # t => status'[u] = status[u]
      BY <3>1, StatusFrame, Zenon
    <3>5. ASSUME NEW u \in Task PROVE Placed(u)'
      <4>1. CASE u = t
        BY <2>2, <2>4, <3>1, <3>2, <3>4, <4>1, Zenon DEF Placed, Here, Waits
      <4>2. CASE u # t
        BY <3>1, <3>4, <4>2, PlacedFrame, Zenon DEF Here, OnePlace
      <4> QED
        BY <4>1, <4>2, Zenon
    <3> QED
      BY <3>3, <3>5, Zenon DEF OnePlace
  <2> QED
    BY <2>3, <2>4, Zenon
<1> QED
  BY <1>1, <1>2, Zenon DEF WakeOrNot

(* The part of kill_thread under the queue lock moves the victim to         *)
(* terminated_tasks, or leaves it on the CPU that will.                     *)
LEMMA TerminatePlace ==
  ASSUME TypeOK, OnePlace, NEW c \in Cpu, NEW v \in Task, Terminate(c, v),
         status[v] \notin {"New", "Reaped"}, UNCHANGED running
  PROVE  OnePlace'
<1>1. status' = [status EXCEPT ![v] = "Terminated"]
  BY Zenon DEF Terminate
<1>2. status'[v] = "Terminated" /\ \A u \in Task : u # v => status'[u] = status[u]
  BY <1>1, StatusFrame, Zenon
<1>3. OnItsCpu'
  BY <1>1, StatusFrame, Zenon
<1>4. Core[v] \in Cpu /\ active \in [Cpu -> Seq(Task)] /\ Placed(v)
  BY WhereNot, Zenon DEF TypeOK, OnePlace
<1>5. \A d \in Cpu : d # Core[v] \/ status[v] # "Active" => active'[d] = active[d]
  BY <1>4, Zenon DEF Terminate
<1>6. status[v] = "Active" => /\ Elems(active'[Core[v]]) = Elems(active[Core[v]]) \ {v}
                              /\ NoRepeats(active'[Core[v]])
  <2> SUFFICES ASSUME status[v] = "Active"
               PROVE  /\ Elems(active'[Core[v]]) = Elems(active[Core[v]]) \ {v}
                      /\ NoRepeats(active'[Core[v]])
    BY Zenon
  <2>1. active'[Core[v]] = Without(active[Core[v]], v)
    BY <1>4, Zenon DEF Terminate
  <2>2. NoRepeats(active[Core[v]]) /\ active[Core[v]] \in Seq(Task)
    BY <1>4, Zenon DEF OnePlace, QueuedOnce
  <2> QED
    BY <2>1, <2>2, WithoutList, Zenon
<1>7. QueuedOnce'
  <2> SUFFICES ASSUME NEW d \in Cpu
               PROVE  /\ \A u \in Elems(active'[d]) : Core[u] = d /\ status'[u] = "Active"
                      /\ NoRepeats(active'[d])
    BY Zenon DEF QueuedOnce
  <2>1. /\ \A u \in Elems(active[d]) : Core[u] = d /\ status[u] = "Active" /\ u \in Task
        /\ NoRepeats(active[d])
    BY WhereNot, Zenon DEF OnePlace, QueuedOnce
  <2>2. CASE d = Core[v] /\ status[v] = "Active"
    BY <1>2, <1>6, <2>1, <2>2, Zenon
  <2>3. CASE d # Core[v] \/ status[v] # "Active"
    BY <1>2, <1>5, <2>1, <2>3, Zenon
  <2> QED
    BY <2>2, <2>3, Zenon
<1>8. /\ waitingQ' = waitingQ \ {v} /\ suspendedQ' = suspendedQ \ {v}
      /\ terminatedQ' = terminatedQ \cup
           (IF status[v] = "Active" \/ v \in waitingQ \cup suspendedQ THEN {v} ELSE {})
  BY Zenon DEF Terminate
<1>9. ASSUME NEW u \in Task PROVE Placed(u)'
  <2>1. CASE u = v
    <3>1. Here(v)' <=> Here(v)
      BY Zenon DEF Here
    <3>2. status[v] = "Active" => ~Here(v)
      BY WhereNot, Zenon DEF Waits
    <3>3. (status[v] = "Active" \/ v \in waitingQ \cup suspendedQ \cup terminatedQ)
          <=> ~Here(v)
      <4>1. status[v] \in Waits \cup {"Active", "Running", "Suspended", "Terminated"}
        BY Zenon DEF TypeOK
      <4> QED
        BY <1>4, <3>2, <4>1, Zenon DEF Placed
    <3> QED
      BY <1>2, <1>8, <2>1, <3>1, <3>3, Zenon DEF Placed, Waits
  <2>2. CASE u # v
    <3>1. u \in Elems(active[Core[u]]) => u \in Elems(active'[Core[u]])
      BY <1>4, <1>5, <1>6, <2>2, WhereNot, Zenon
    <3> QED
      BY <1>2, <1>8, <2>2, <3>1, PlacedFrame, Zenon DEF Here, OnePlace
  <2> QED
    BY <2>1, <2>2, Zenon
<1> QED
  BY <1>3, <1>7, <1>9, Zenon DEF OnePlace

(* What is left of the run queue after a schedule() that skips n tasks:     *)
(* active tasks of this CPU that are neither reaped nor picked.             *)
LEMMA RestOfQueue ==
  ASSUME TypeOK, OnePlace, NEW c \in Cpu, NEW switch \in BOOLEAN,
         NEW n \in 0 .. Len(active[c])
  PROVE  /\ NoRepeats(Rest(c, switch, n))
         /\ \A u \in Elems(Rest(c, switch, n)) :
              /\ u \in Elems(active[c])
              /\ u \notin {active[c][i] : i \in 1 .. n}
              /\ Found(c, switch, n) => u # active[c][n + 1]
         /\ \A u \in Elems(active[c]) :
              \/ u \in Elems(Rest(c, switch, n))
              \/ u \in {active[c][i] : i \in 1 .. n}
              \/ Found(c, switch, n) /\ u = active[c][n + 1]
<1> DEFINE q == active[c]
           m == IF Found(c, switch, n) THEN n + 1 ELSE n
<1>1. q \in Seq(Task) /\ NoRepeats(q) /\ DOMAIN q = 1 .. Len(q) /\ Len(q) \in Nat
  BY DEF TypeOK, OnePlace, QueuedOnce
<1>2. m \in 0 .. Len(q) /\ n \in Int
  BY <1>1 DEF Found
<1>3. Rest(c, switch, n) = SubSeq(q, m + 1, Len(q))
  BY <1>1, <1>2 DEF Rest
<1>4. /\ NoRepeats(Rest(c, switch, n))
      /\ Elems(Rest(c, switch, n)) = {q[i] : i \in m + 1 .. Len(q)}
  <2> HIDE DEF q, m
  <2> QED
    BY <1>1, <1>2, <1>3, RestList, Zenon
<1>5. \A i \in m + 1 .. Len(q) :
        /\ i \in DOMAIN q
        /\ \A j \in 1 .. n : q[i] # q[j]
        /\ Found(c, switch, n) => q[i] # q[n + 1]
  BY <1>1, <1>2 DEF NoRepeats, Found
<1>6. \A i \in DOMAIN q :
        \/ i \in m + 1 .. Len(q)
        \/ i \in 1 .. n
        \/ Found(c, switch, n) /\ i = n + 1
  BY <1>1, <1>2
<1> HIDE DEF m
<1>7. \A u \in Elems(Rest(c, switch, n)) :
        /\ u \in Elems(active[c])
        /\ u \notin {active[c][i] : i \in 1 .. n}
        /\ Found(c, switch, n) => u # active[c][n + 1]
  BY <1>4, <1>5, Zenon DEF Elems
<1>8. \A u \in Elems(active[c]) :
        \/ u \in Elems(Rest(c, switch, n))
        \/ u \in {active[c][i] : i \in 1 .. n}
        \/ Found(c, switch, n) /\ u = active[c][n + 1]
  BY <1>4, <1>6, Zenon DEF Elems
<1> QED
  BY <1>4, <1>7, <1>8, Zenon

(* Who schedule() takes off the run queue, off the CPU and out of           *)
(* terminated_tasks.                                                        *)
LEMMA SwitchFacts ==
  ASSUME TypeOK, OnePlace, NEW c \in Cpu, NEW switch \in BOOLEAN,
         NEW n \in 0 .. Len(active[c])
  PROVE  /\ \A u \in Dead(c, switch, n) :
              /\ u \in Task /\ Core[u] = c /\ u # NextTask(c, switch, n)
              /\ u \notin Elems(Rest(c, switch, n))
              /\ u \notin waitingQ \/ u = running[c]
              /\ u \notin suspendedQ \/ u = running[c]
              /\ status[u] \notin Waits \cup {"Suspended"} \/ u \in Doomed(c, switch, n)
         /\ NextTask(c, switch, n) # NoTask =>
              /\ NextTask(c, switch, n) \in Task
              /\ Core[NextTask(c, switch, n)] = c
              /\ status[NextTask(c, switch, n)] \in {"Active", "Running"}
              /\ NextTask(c, switch, n) \notin Elems(Rest(c, switch, n))
         /\ Requeued(c, switch, n) =>
              /\ running[c] \in Task /\ running[c] \notin Dead(c, switch, n)
              /\ status[running[c]] = "Running"
<1> DEFINE q == active[c]
           old == running[c]
           next == NextTask(c, switch, n)
           skipped == {q[i] : i \in 1 .. n}
<1>1. q \in Seq(Task) /\ old \in Task \cup {NoTask} /\ next \in Task \cup {NoTask}
  BY SwitchTypes, Zenon
<1>2. \A i \in 1 .. Len(q) : q[i] \in Elems(q)
  BY <1>1 DEF Elems
<1>3. \A u \in Elems(q) : /\ u \in Task /\ Core[u] = c /\ status[u] = "Active"
                          /\ u # old /\ u \notin waitingQ \cup suspendedQ \cup terminatedQ
  <2>1. \A u \in Elems(q) : u \in Task /\ Core[u] = c /\ status[u] = "Active"
    BY WhereNot, <1>1, ListMembers, Zenon DEF OnePlace, QueuedOnce
  <2>2. \A u \in Elems(q) : Placed(u) /\ u # NoTask
    BY <2>1, TaskAssumption, Zenon DEF OnePlace
  <2> QED
    BY <2>1, <2>2 DEF OnePlace, OnItsCpu, Placed, Waits
<1>4. skipped \subseteq Elems(q)
  BY <1>1, <1>2
<1>5. Found(c, switch, n) => next \in Elems(q) /\ next \notin skipped
  <2> SUFFICES ASSUME Found(c, switch, n) PROVE next \in Elems(q) /\ next \notin skipped
    BY Zenon
  <2>1. next = q[n + 1] /\ n + 1 \in 1 .. Len(q)
    BY <1>1 DEF NextTask, Found
  <2>2. NoRepeats(q) /\ DOMAIN q = 1 .. Len(q)
    BY <1>1 DEF OnePlace, QueuedOnce
  <2> QED
    BY <1>2, <2>1, <2>2 DEF NoRepeats
<1>6. ~Found(c, switch, n) => next = NoTask \/ (next = old /\ ~MustLeave(old))
  BY Zenon DEF NextTask
<1>7. old # NoTask => /\ old \in Task /\ Core[old] = c /\ Here(old)
                      /\ old \notin waitingQ \cup suspendedQ \cup terminatedQ
  <2>1. old # NoTask => old \in Task /\ Core[old] = c /\ Here(old)
    BY <1>1, Zenon DEF OnePlace, OnItsCpu, Here
  <2> QED
    BY <2>1, Zenon DEF OnePlace, Placed
<1>8. \A u \in Elems(Rest(c, switch, n)) :
         u \in Elems(q) /\ u \notin skipped /\ (Found(c, switch, n) => u # next)
  BY RestOfQueue DEF NextTask
<1>9. \A u \in terminatedQ : u \in Task /\ status[u] = "Terminated" /\ ~Here(u)
                              /\ u \notin waitingQ \cup suspendedQ
  BY Zenon DEF TypeOK, OnePlace, Placed, Waits
<1>10. ASSUME NEW u \in Dead(c, switch, n)
       PROVE  /\ u \in Task /\ Core[u] = c /\ u # next
              /\ u \notin Elems(Rest(c, switch, n))
              /\ u \notin waitingQ \/ u = old
              /\ u \notin suspendedQ \/ u = old
              /\ status[u] \notin Waits \cup {"Suspended"} \/ u \in Doomed(c, switch, n)
  <2> HIDE DEF next, skipped
  <2>1. CASE u \in skipped
    <3>1. u \in Elems(q)
      BY <1>4, <2>1, Zenon
    <3>2. u # next
      BY <1>3, <1>5, <1>6, <2>1, <3>1, TaskAssumption, Zenon
    <3> QED
      BY <1>3, <1>8, <2>1, <3>1, <3>2, Zenon DEF Waits
  <2>2. CASE u \in terminatedQ /\ Core[u] = c
    <3>1. u \notin Elems(q) /\ u # NoTask /\ u # old
      BY <1>3, <1>7, <1>9, <2>2, TaskAssumption
    <3>2. u # next
      BY <1>5, <1>6, <3>1, Zenon
    <3> QED
      BY <1>8, <1>9, <2>2, <3>1, <3>2, Zenon DEF Waits
  <2>3. CASE u = old /\ old # NoTask /\ Leaves(c, switch, n)
             /\ (u \in Doomed(c, switch, n) \/ status[u] = "Terminated")
    BY <1>3, <1>7, <1>8, <2>3, Zenon DEF Leaves, Waits, next
  <2> QED
    BY <2>1, <2>2, <2>3, Zenon DEF Dead, Doomed, Leaves, skipped
<1>11. ASSUME next # NoTask
       PROVE  /\ next \in Task /\ Core[next] = c
              /\ status[next] \in {"Active", "Running"}
              /\ next \notin Elems(Rest(c, switch, n))
  <2> HIDE DEF next, skipped
  <2>1. CASE Found(c, switch, n)
    BY <1>3, <1>5, <1>8, <2>1, Zenon
  <2>2. CASE ~Found(c, switch, n)
    BY <1>3, <1>6, <1>7, <1>8, <1>11, <2>2, Zenon DEF MustLeave
  <2> QED
    BY <2>1, <2>2, Zenon
<1>12. ASSUME Requeued(c, switch, n)
       PROVE  old \in Task /\ old \notin Dead(c, switch, n) /\ status[old] = "Running"
  <2>1. old # NoTask /\ status[old] = "Running" /\ ~KillReady(old)
    BY <1>12, Zenon DEF Requeued, Leaves, MustLeave
  <2>2. old \notin skipped
    BY <1>3, <1>4, Zenon
  <2> HIDE DEF skipped
  <2> QED
    BY <1>7, <2>1, <2>2, Zenon DEF Dead, Doomed, skipped
<1> QED
  BY <1>10, <1>11, <1>12, Zenon

(* schedule() moves the running task to the list its status names and puts  *)
(* the task it picked on the CPU; reaped tasks are nowhere.                 *)
LEMMA SchedulePlace ==
  ASSUME TypeOK, OnePlace, NEW c \in Cpu, Schedule(c)
  PROVE  OnePlace'
<1>1. PICK switch \in BOOLEAN, n \in 0 .. Len(active[c]) : SwitchTasks(c, switch, n)
  BY Zenon DEF Schedule
<1> DEFINE old == running[c]
           next == NextTask(c, switch, n)
           rest == Rest(c, switch, n)
           dead == Dead(c, switch, n)
           doomed == Doomed(c, switch, n)
           requeued == Requeued(c, switch, n)
<1>2. \A u \in Task : status'[u] = IF u \in dead THEN "Reaped"
                                   ELSE IF u = next THEN "Running"
                                   ELSE IF u = old /\ requeued THEN "Active"
                                   ELSE status[u]
  BY <1>1, Zenon DEF SwitchTasks
<1>3. /\ running'[c] = next /\ \A d \in Cpu : d # c => running'[d] = running[d]
      /\ active'[c] = (IF requeued THEN Append(rest, old) ELSE rest)
      /\ \A d \in Cpu : d # c => active'[d] = active[d]
  BY <1>1, Zenon DEF SwitchTasks, TypeOK
<1>4. /\ waitingQ' = waitingQ \cup PutAway(c, switch, n, Waits)
      /\ suspendedQ' = suspendedQ \cup PutAway(c, switch, n, {"Suspended"})
      /\ terminatedQ' = {t \in terminatedQ : Core[t] # c}
  BY <1>1, Zenon DEF SwitchTasks, ReapTasks
<1>5. /\ old \in Task \cup {NoTask} /\ next \in Task \cup {NoTask} /\ rest \in Seq(Task)
  BY SwitchTypes, Zenon
<1>6. old # NoTask => /\ old \in Task /\ Core[old] = c
                      /\ status[old] \in Waits \cup {"Running", "Suspended", "Terminated"}
  BY <1>5, Zenon DEF OnePlace, OnItsCpu
<1>7. /\ NoRepeats(rest)
      /\ \A u \in Elems(rest) : /\ u \in Task /\ Core[u] = c /\ status[u] = "Active"
                                /\ u \notin dead /\ u # next /\ u # old
  <2>1. NoRepeats(rest) /\ \A u \in Elems(rest) : u \in Elems(active[c])
    BY RestOfQueue, Zenon
  <2>2. \A u \in Elems(rest) : u \in Task /\ Core[u] = c /\ status[u] = "Active"
    BY <1>5, <2>1, ListMembers, Zenon DEF OnePlace, QueuedOnce
  <2>3. \A u \in Elems(rest) : u \notin dead /\ u # next
    BY <1>5, <2>2, SwitchFacts, TaskAssumption
  <2>4. \A u \in Elems(rest) : u # old
    BY <1>6, <2>2, TaskAssumption DEF Waits
  <2> QED
    BY <2>1, <2>2, <2>3, <2>4, Zenon
<1>8. requeued => /\ old \in Task /\ old \notin dead /\ old # next
                  /\ status[old] = "Running" /\ Core[old] = c
  BY <1>6, SwitchFacts DEF Requeued, Leaves
<1>9. next # NoTask => /\ next \in Task /\ Core[next] = c /\ next \notin dead
                       /\ status[next] \in {"Active", "Running"}
  BY SwitchFacts
<1>10. /\ Elems(active'[c]) = Elems(rest) \cup (IF requeued THEN {old} ELSE {})
       /\ NoRepeats(active'[c])
  <2> HIDE DEF rest, requeued
  <2>1. CASE requeued
    BY <1>3, <1>5, <1>7, <1>8, <2>1, AppendList
  <2>2. CASE ~requeued
    BY <1>3, <1>7, <2>2, Zenon
  <2> QED
    BY <2>1, <2>2, Zenon
<1>11. \A u \in Task : Core[u] # c => status'[u] = status[u]
  <2>1. \A u \in dead : Core[u] = c
    BY SwitchFacts
  <2> QED
    BY <1>2, <1>8, <1>9, <2>1, TaskAssumption, Zenon
<1> HIDE DEF old, next, rest, dead, doomed, requeued
<1>12. QueuedOnce'
  <2> SUFFICES ASSUME NEW d \in Cpu
               PROVE  /\ \A u \in Elems(active'[d]) : Core[u] = d /\ status'[u] = "Active"
                      /\ NoRepeats(active'[d])
    BY Zenon DEF QueuedOnce
  <2>1. CASE d = c
    BY <1>2, <1>7, <1>8, <1>10, <2>1, Zenon
  <2>2. CASE d # c
    <3>1. active'[d] = active[d]
      BY <1>3, <2>2, Zenon
    <3>2. /\ \A u \in Elems(active[d]) : Core[u] = d /\ status[u] = "Active"
          /\ NoRepeats(active[d])
      BY Zenon DEF OnePlace, QueuedOnce
    <3>3. Elems(active[d]) \subseteq Task
      BY ListMembers, Zenon DEF TypeOK
    <3> QED
      BY <1>11, <2>2, <3>1, <3>2, <3>3, Zenon
  <2> QED
    BY <2>1, <2>2, Zenon
<1>13. OnItsCpu'
  <2> SUFFICES ASSUME NEW d \in Cpu, running'[d] # NoTask
               PROVE  /\ Core[running'[d]] = d
                      /\ status'[running'[d]] \in Waits \cup {"Running", "Suspended", "Terminated"}
    BY Zenon DEF OnItsCpu
  <2>1. CASE d = c
    BY <1>2, <1>3, <1>9, <2>1, Zenon
  <2>2. CASE d # c
    <3>1. running[d] \in Task /\ running'[d] = running[d]
      BY <1>3, <2>2, Zenon DEF TypeOK
    <3> QED
      BY <1>11, <2>2, <3>1 DEF OnePlace, OnItsCpu
  <2> QED
    BY <2>1, <2>2, Zenon
<1>14. ASSUME NEW u \in Task PROVE Placed(u)'
  <2>1. Core[u] \in Cpu /\ Placed(u) /\ u # NoTask
    BY TaskAssumption, Zenon DEF OnePlace
  <2>2. CASE Core[u] # c
    <3>1. u # old
      BY <1>6, <2>1, <2>2, Zenon
    <3>2. u \notin PutAway(c, switch, n, Waits) /\ u \notin PutAway(c, switch, n, {"Suspended"})
      BY <3>1, Zenon DEF PutAway, old
    <3>3. Here(u)' <=> Here(u)
      BY <1>3, <2>1, <2>2, Zenon DEF Here
    <3> QED
      BY <1>3, <1>4, <1>11, <2>1, <2>2, <3>2, <3>3, PlacedFrame, Zenon
  <2>3. CASE Core[u] = c
    <3>1. Here(u)' <=> u = next
      BY <1>3, <2>3, Zenon DEF Here
    <3>2. Here(u) <=> u = old
      BY <2>3, Zenon DEF Here, old
    <3>3. u \notin terminatedQ'
      BY <1>4, <2>3, Zenon
    <3>4. CASE u \in dead
      <4>1. status'[u] = "Reaped"
        BY <1>2, <3>4, Zenon
      <4>2. u \notin waitingQ /\ u \notin suspendedQ
        BY <2>1, <3>2, <3>4, SwitchFacts DEF Placed, dead, old
      <4>3. u \notin PutAway(c, switch, n, Waits) /\ u \notin PutAway(c, switch, n, {"Suspended"})
        <5>1. u \in Dead(c, switch, n)
          BY <3>4, Zenon DEF dead
        <5>2. status[u] \notin Waits \cup {"Suspended"} \/ u \in Doomed(c, switch, n)
          BY <5>1, SwitchFacts, ZenonT(40)
        <5>3. u \in Doomed(c, switch, n) => KillReady(u)
          BY Zenon DEF Doomed
        <5> QED
          BY <5>2, <5>3, Zenon DEF PutAway, Waits
      <4> QED
        BY <1>4, <3>3, <4>1, <4>2, <4>3, Zenon DEF Placed, Waits
    <3>5. CASE u = next
      <4>1. status'[u] = "Running" /\ status[u] \in {"Active", "Running"}
        BY <1>2, <1>9, <2>1, <3>5, Zenon
      <4>2. u \notin waitingQ /\ u \notin suspendedQ
        BY <2>1, <4>1, Zenon DEF Placed, Waits
      <4>3. u \notin PutAway(c, switch, n, Waits) /\ u \notin PutAway(c, switch, n, {"Suspended"})
        BY <4>1, Zenon DEF PutAway, Waits
      <4> QED
        BY <1>4, <3>1, <3>3, <3>5, <4>1, <4>2, <4>3, Zenon DEF Placed, Waits
    <3>6. CASE u \notin dead /\ u # next /\ u = old
      <4>1. Leaves(c, switch, n) /\ u = running[c]
        BY <2>1, <3>6, Zenon DEF Leaves, next, old
      <4>2. u \notin waitingQ /\ u \notin suspendedQ
        BY <2>1, <3>2, <3>6, Zenon DEF Placed
      <4>3. CASE requeued
        <5>1. status'[u] = "Active" /\ u \in Elems(active'[c]) /\ status[u] = "Running"
          BY <1>2, <1>8, <1>10, <3>6, <4>3, Zenon
        <5>2. u \notin PutAway(c, switch, n, Waits) /\ u \notin PutAway(c, switch, n, {"Suspended"})
          BY <5>1, Zenon DEF PutAway, Waits
        <5> QED
          BY <1>4, <2>3, <3>3, <4>2, <5>1, <5>2, Zenon DEF Placed, Waits
      <4>4. CASE ~requeued
        <5>1. status'[u] = status[u]
          BY <1>2, <3>6, <4>4, Zenon
        <5>2. ~KillReady(u) /\ status[u] # "Terminated"
          BY <3>6, <4>1, <2>1, Zenon DEF dead, Dead, Doomed
        <5>3. status[u] \in Waits \cup {"Suspended"}
          <6>1. status[u] # "Running"
            BY <4>1, <4>4, <5>2, Zenon DEF requeued, Requeued, MustLeave, Leaves
          <6> QED
            BY <1>6, <2>1, <3>6, <5>2, <6>1, Zenon
        <5>4. /\ u \in PutAway(c, switch, n, Waits) <=> status[u] \in Waits
              /\ u \in PutAway(c, switch, n, {"Suspended"}) <=> status[u] = "Suspended"
          BY <4>1, <5>2, Zenon DEF PutAway
        <5> QED
          BY <1>4, <3>1, <3>3, <3>6, <4>2, <5>1, <5>2, <5>3, <5>4, Zenon DEF Placed, Waits
      <4> QED
        BY <4>3, <4>4, Zenon
    <3>7. CASE u \notin dead /\ u # next /\ u # old
      <4>1. status'[u] = status[u]
        BY <1>2, <3>7, Zenon
      <4>2. u \notin terminatedQ
        BY <2>3, <3>7, Zenon DEF dead, Dead
      <4>3. u \in Elems(active[c]) => u \in Elems(active'[c])
        <5>1. u \in Elems(active[c]) => u \in Elems(rest)
          BY <3>7, RestOfQueue DEF dead, Dead, next, NextTask, rest
        <5> QED
          BY <1>10, <5>1, Zenon
      <4>4. u \notin PutAway(c, switch, n, Waits) /\ u \notin PutAway(c, switch, n, {"Suspended"})
        BY <3>7, Zenon DEF PutAway, old
      <4> QED
        BY <1>4, <2>1, <2>3, <3>1, <3>2, <3>3, <3>7, <4>1, <4>2, <4>3, <4>4, PlacedFrame, Zenon
    <3> QED
      BY <3>4, <3>5, <3>6, <3>7, Zenon
  <2> QED
    BY <2>2, <2>3, Zenon
<1> QED
  BY <1>12, <1>13, <1>14, Zenon DEF OnePlace

(* A step that changes no status and no list moves nobody.                  *)
LEMMA PlaceUnchanged ==
  ASSUME OnePlace,
         UNCHANGED <<status, running, active, waitingQ, suspendedQ, terminatedQ>>
  PROVE  OnePlace'
<1>1. QueuedOnce' /\ OnItsCpu'
  BY Zenon DEF OnePlace, QueuedOnce, OnItsCpu
<1>2. ASSUME NEW u \in Task PROVE Placed(u)'
  BY Zenon DEF OnePlace, Placed, Here
<1> QED
  BY <1>1, <1>2, Zenon DEF OnePlace

(* A running task that blocks or suspends itself is still on its CPU.       *)
LEMMA StopRunning ==
  ASSUME TypeOK, OnePlace, NEW t \in Task, NEW st \in Waits \cup {"Suspended"},
         status[t] = "Running", status' = [status EXCEPT ![t] = st],
         UNCHANGED <<running, active, waitingQ, suspendedQ, terminatedQ>>
  PROVE  OnePlace'
<1>1. /\ status'[t] = st /\ \A u \in Task : u # t => status'[u] = status[u]
      /\ QueuedOnce' /\ OnItsCpu'
  BY StatusFrame, Zenon
<1>2. Placed(t) /\ Here(t)
  BY Zenon DEF OnePlace, Placed
<1>3. ASSUME NEW u \in Task PROVE Placed(u)'
  <2>1. CASE u = t
    BY <1>1, <1>2, <2>1, Zenon DEF Placed, Here, Waits
  <2>2. CASE u # t
    BY <1>1, <2>2, PlacedFrame, Zenon DEF Here, OnePlace
  <2> QED
    BY <2>1, <2>2, Zenon
<1> QED
  BY <1>1, <1>3, Zenon DEF OnePlace

(* Every step of a CPU keeps each task in one place.                        *)
LEMMA CpuPlace ==
  ASSUME PlaceInv, NEW c \in Cpu, CpuStep(c)
  PROVE  OnePlace'
<1> TypeOK /\ OnePlace
  BY Zenon DEF PlaceInv
<1>1. CASE HandleIpi(c)
  BY <1>1, PlaceUnchanged, Zenon DEF HandleIpi, queueVars
<1>2. CASE ScheduleTick(c)
  BY <1>2, PlaceUnchanged, Zenon DEF ScheduleTick, queueVars
<1>3. CASE Schedule(c)
  BY <1>3, SchedulePlace, Zenon
<1>4. CASE NotifyWatchers(c)
  <2>1. holds \in [Task -> SUBSET Mutex] /\ UNCHANGED <<running, suspendedQ, terminatedQ>>
    BY <1>4, Zenon DEF TypeOK, NotifyWatchers
  <2>2. CASE \E s \in events[c] : DoSignal(c, s, holds)
    <3>1. PICK s \in events[c] : DoSignal(c, s, holds)
      BY <2>2, Zenon
    <3>2. s \in Sem
      BY Zenon DEF TypeOK
    <3> QED
      BY <2>1, <3>1, <3>2, SignalEffect, WakePlace, Zenon
  <2>3. CASE \E r \in expired[c] : DoSignalOnTask(c, r[2], r[1], "TimerExpiry")
    <3>1. PICK r \in expired[c] : DoSignalOnTask(c, r[2], r[1], "TimerExpiry")
      BY <2>3, Zenon
    <3>2. r[1] \in Task /\ r[2] \in Sem
      BY DEF TypeOK
    <3> QED
      BY <2>1, <3>1, <3>2, SignalOnTaskEffect, WakePlace, Zenon
  <2> QED
    BY <1>4, <2>2, <2>3, Zenon DEF NotifyWatchers
<1>5. CASE Broadcast(c)
  <2>1. UNCHANGED <<running, suspendedQ, terminatedQ>>
    BY <1>5, Zenon DEF Broadcast
  <2> QED
    BY <1>5, <2>1, BroadcastEffect, WakePlace, Zenon
<1> QED
  BY <1>1, <1>2, <1>3, <1>4, <1>5, Zenon DEF CpuStep

(* Every step of a task keeps each task in one place.                       *)
LEMMA TaskPlace ==
  ASSUME PlaceInv, NEW c \in Cpu, NEW t \in Task, TaskStep(c, t)
  PROVE  OnePlace'
<1> TypeOK /\ OnePlace /\ CallArgs
  BY Zenon DEF PlaceInv
<1>1. ASSUME NEW s \in Sem, WaitTake(c, t, s) \/ ResetEvent(c, t, s) PROVE OnePlace'
  BY <1>1, PlaceUnchanged, Zenon DEF WaitTake, ResetEvent, queueVars
<1>2. ASSUME NEW s \in Sem, Wait(c, t, s) PROVE OnePlace'
  <2>1. PICK ticks, intr : WaitFail(c, t, s, ticks, intr) \/ WaitBlock(c, t, s, ticks, intr)
    BY <1>2, Zenon DEF Wait
  <2>2. CASE WaitFail(c, t, s, ticks, intr)
    BY <2>2, PlaceUnchanged, Zenon DEF WaitFail, queueVars
  <2>3. CASE WaitBlock(c, t, s, ticks, intr)
    <3>1. status[t] = "Running"
      BY <2>3, Zenon DEF WaitBlock, At, WaitRefused
    <3>2. PICK st \in Waits \cup {"Suspended"} : status' = [status EXCEPT ![t] = st]
      BY <2>3, Zenon DEF WaitBlock, Waits
    <3> QED
      BY <2>3, <3>1, <3>2, StopRunning, Zenon DEF WaitBlock, queueVars
  <2> QED
    BY <2>1, <2>2, <2>3, Zenon
<1>3. ASSUME NEW s \in Sem, Signal(c, t, s) PROVE OnePlace'
  <2> DEFINE h == [holds EXCEPT ![t] = @ \ {s}]
  <2>1. h \in [Task -> SUBSET Mutex] /\ DoSignal(c, s, h)
        /\ UNCHANGED <<running, suspendedQ, terminatedQ>>
    BY <1>3, Zenon DEF TypeOK, Signal
  <2> HIDE DEF h
  <2> QED
    BY <2>1, SignalEffect, WakePlace, Zenon
<1>4. ASSUME NEW v \in Task, StartTask(c, t, v) PROVE OnePlace'
  <2>1. ~Here(v) /\ status[v] = "New" /\ Placed(v)
    BY <1>4, WhereNot, Zenon DEF StartTask, Waits, OnePlace
  <2>2. /\ status' = [status EXCEPT ![v] = "Active"]
        /\ active' = [active EXCEPT ![Core[v]] = Append(active[Core[v]], v)]
        /\ UNCHANGED <<running, waitingQ, suspendedQ, terminatedQ>>
    BY <1>4, Zenon DEF StartTask
  <2>3. /\ QueuedOnce' /\ OnItsCpu'
        /\ v \in Elems(active'[Core[v]])
        /\ \A d \in Cpu : Elems(active[d]) \subseteq Elems(active'[d])
    BY <2>1, <2>2, QueueTask, Zenon
  <2>4. status'[v] = "Active" /\ \A u \in Task : u # v => status'[u] = status[u]
    BY <2>2, StatusFrame, ZenonT(40)
  <2>5. ASSUME NEW u \in Task PROVE Placed(u)'
    <3>1. CASE u = v
      BY <2>1, <2>2, <2>3, <2>4, <3>1, Zenon DEF Placed, Waits
    <3>2. CASE u # v
      <4>1. Core[u] \in Cpu /\ Placed(u)
        BY WhereNot, Zenon DEF OnePlace
      <4> QED
        BY <2>2, <2>3, <2>4, <3>2, <4>1, PlacedFrame, Zenon DEF Here
    <3> QED
      BY <3>1, <3>2, Zenon
  <2> QED
    BY <2>3, <2>5, Zenon DEF OnePlace
<1>5. ASSUME NEW v \in Task, KillThread(c, t, v) PROVE OnePlace'
  BY <1>5, TerminatePlace, Zenon DEF KillThread, Alive
<1>6. ASSUME NEW v \in Task, SafeKill(c, t, v) \/ ResumeProcess(c, t, v) PROVE OnePlace'
  BY <1>6, PlaceUnchanged, Zenon DEF SafeKill, ResumeProcess, queueVars
<1>7. CASE WaitReturn(c, t) \/ DropTask(c, t) \/ TransferToUser(c, t)
           \/ SyscallEnter(c, t) \/ SyscallExit(c, t)
  BY <1>7, PlaceUnchanged, Zenon
  DEF WaitReturn, DropTask, TransferToUser, SyscallEnter, SyscallExit, queueVars
<1>8. CASE InterruptWait(c, t)
  <2>1. arg[t][1] \in Task /\ arg[t][2] \in Sem
    BY <1>8, Zenon DEF InterruptWait, At, CallArgs
  <2>2. /\ DoSignalOnTask(c, arg[t][2], arg[t][1], "Interruption")
        /\ UNCHANGED <<running, suspendedQ, terminatedQ>>
    BY <1>8, Zenon DEF InterruptWait
  <2> QED
    BY <2>1, <2>2, SignalOnTaskEffect, WakePlace, Zenon
<1>9. CASE ResumeTask(c, t)
  <2> DEFINE v == arg[t][1]
  <2>1. v \in Task
    BY <1>9, Zenon DEF ResumeTask, At, CallArgs
  <2>2. Placed(v) /\ UNCHANGED <<running, waitingQ, terminatedQ>>
    BY <1>9, <2>1, Zenon DEF ResumeTask, OnePlace
  <2> HIDE DEF v
  <2>3. CASE status[v] # "Suspended"
    BY <1>9, <2>2, <2>3, PlaceUnchanged, Zenon DEF ResumeTask, v
  <2>4. CASE status[v] = "Suspended" /\ v \in suspendedQ
    <3>1. /\ status' = [status EXCEPT ![v] = "Active"]
          /\ active' = [active EXCEPT ![Core[v]] = <<v>> \o active[Core[v]]]
          /\ suspendedQ' = suspendedQ \ {v}
      BY <1>9, <2>4, Zenon DEF ResumeTask, v
    <3>2. ~Here(v)
      BY <2>2, <2>4, Zenon DEF Placed
    <3>3. /\ QueuedOnce' /\ OnItsCpu'
          /\ v \in Elems(active'[Core[v]])
          /\ \A d \in Cpu : Elems(active[d]) \subseteq Elems(active'[d])
      BY <2>1, <2>2, <2>4, <3>1, <3>2, QueueTask, Zenon DEF v
    <3>4. status'[v] = "Active" /\ \A u \in Task : u # v => status'[u] = status[u]
      BY <2>1, <3>1, StatusFrame, Zenon DEF v
    <3>5. ASSUME NEW u \in Task PROVE Placed(u)'
      <4>1. CASE u = v
        BY <2>2, <2>4, <3>1, <3>2, <3>3, <3>4, <4>1, Zenon DEF Placed, Waits, Here
      <4>2. CASE u # v
        <5>1. Core[u] \in Cpu /\ Placed(u)
          BY WhereNot, Zenon DEF OnePlace
        <5> QED
          BY <2>2, <3>1, <3>3, <3>4, <4>2, <5>1, PlacedFrame, Zenon DEF Here
      <4> QED
        BY <4>1, <4>2, Zenon
    <3> QED
      BY <3>3, <3>5, Zenon DEF OnePlace
  <2>5. CASE status[v] = "Suspended" /\ v \notin suspendedQ
    <3>1. status' = [status EXCEPT ![v] = "Running"] /\ UNCHANGED <<active, suspendedQ>>
      BY <1>9, <2>5, Zenon DEF ResumeTask, v
    <3>2. Here(v)
      BY <2>2, <2>5, Zenon DEF Placed
    <3>3. /\ QueuedOnce' /\ OnItsCpu'
          /\ status'[v] = "Running" /\ \A u \in Task : u # v => status'[u] = status[u]
      BY <2>1, <2>2, <2>5, <3>1, StatusFrame, Zenon DEF v
    <3>4. ASSUME NEW u \in Task PROVE Placed(u)'
      <4>1. CASE u = v
        BY <2>2, <2>5, <3>1, <3>2, <3>3, <4>1, Zenon DEF Placed, Waits, Here
      <4>2. CASE u # v
        BY <2>2, <3>1, <3>3, <4>2, PlacedFrame, Zenon DEF Here, OnePlace
      <4> QED
        BY <4>1, <4>2, Zenon
    <3> QED
      BY <3>3, <3>4, Zenon DEF OnePlace
  <2> QED
    BY <2>3, <2>4, <2>5, Zenon
<1>10. CASE ExitThread(c, t)
  BY <1>10, TerminatePlace, Zenon DEF ExitThread, At
<1>11. CASE SuspendProcess(c, t)
  <2>1. CASE t \notin resumed /\ status[t] = "Running"
    BY <1>11, <2>1, StopRunning, Zenon DEF SuspendProcess, queueVars
  <2>2. CASE ~(t \notin resumed /\ status[t] = "Running")
    BY <1>11, <2>2, PlaceUnchanged, Zenon DEF SuspendProcess, queueVars
  <2> QED
    BY <2>1, <2>2, Zenon
<1> QED
  BY <1>1, <1>2, <1>3, <1>4, <1>5, <1>6, <1>7, <1>8, <1>9, <1>10, <1>11, Zenon DEF TaskStep

-----------------------------------------------------------------------------
(* What a step does to the status of a task: a dead task stays dead, and a   *)
(* task that waits after the step has an entry in wait_semaphores.           *)

StatusKept(u) ==
  /\ status[u] \in {"Terminated", "Reaped"} => status'[u] \in {status[u], "Reaped"}
  /\ status'[u] \in Waits => waitSem'[u] \in Sem

(* A step that leaves both alone.                                           *)
LEMMA StatusUnchanged ==
  ASSUME WaitsForObject, UNCHANGED <<status, waitSem>>, NEW u \in Task
  PROVE  StatusKept(u)
  BY Zenon DEF StatusKept, WaitsForObject

(* A wake-up.                                                               *)
LEMMA WakeStatus ==
  ASSUME TypeOK, WaitsForObject, NEW c \in Cpu, NEW s, NEW why, NEW h,
         WakeOrNot(c, s, why, h), NEW u \in Task
  PROVE  StatusKept(u)
<1>1. CASE NoWake
  BY <1>1, StatusUnchanged, Zenon DEF NoWake
<1>2. CASE \E t \in Task : status[t] \in Waits /\ WakeTask(c, t, s, why, h)
  <2>1. PICK t \in Task : status[t] \in Waits /\ WakeTask(c, t, s, why, h)
    BY <1>2, Zenon
  <2>2. PICK st \in {"Active", "Running"} : status' = [status EXCEPT ![t] = st]
    BY <2>1, Zenon DEF WakeTask
  <2>3. waitSem' = [waitSem EXCEPT ![t] = NoSem]
    BY <2>1, Zenon DEF WakeTask
  <2>4. /\ status'[t] = st
        /\ u # t => status'[u] = status[u] /\ waitSem'[u] = waitSem[u]
    BY <2>2, <2>3, Zenon DEF TypeOK
  <2> QED
    BY <2>1, <2>4, Zenon DEF StatusKept, WaitsForObject, Waits
<1> QED
  BY <1>1, <1>2, Zenon DEF WakeOrNot

(* One task gets a status that is not a wait, and was not dead or dies.     *)
LEMMA SetStatus ==
  ASSUME TypeOK, WaitsForObject, NEW t \in Task, NEW st,
         status' = [status EXCEPT ![t] = st], UNCHANGED waitSem,
         st \notin Waits,
         status[t] \in {"Terminated", "Reaped"} => st \in {status[t], "Reaped"},
         NEW u \in Task
  PROVE  StatusKept(u)
<1>1. status'[t] = st /\ (u # t => status'[u] = status[u])
  BY Zenon DEF TypeOK
<1> QED
  BY <1>1, Zenon DEF StatusKept, WaitsForObject

(* The steps of the CPUs.                                                   *)
LEMMA CpuStatus ==
  ASSUME PlaceInv, NEW c \in Cpu, CpuStep(c), NEW u \in Task
  PROVE  StatusKept(u)
<1> TypeOK /\ OnePlace /\ WaitsForObject
  BY Zenon DEF PlaceInv
<1>1. CASE HandleIpi(c) \/ ScheduleTick(c)
  BY <1>1, StatusUnchanged, Zenon DEF HandleIpi, ScheduleTick, waitVars
<1>2. CASE Schedule(c)
  <2>1. PICK switch \in BOOLEAN, n \in 0 .. Len(active[c]) : SwitchTasks(c, switch, n)
    BY <1>2, Zenon DEF Schedule
  <2>2. status'[u] = IF u \in Dead(c, switch, n) THEN "Reaped"
                     ELSE IF u = NextTask(c, switch, n) THEN "Running"
                     ELSE IF u = running[c] /\ Requeued(c, switch, n) THEN "Active"
                     ELSE status[u]
    BY <2>1, Zenon DEF SwitchTasks
  <2>3. u = NextTask(c, switch, n) => status[u] \in {"Active", "Running"}
    BY SwitchFacts, TaskAssumption
  <2>4. u = running[c] /\ Requeued(c, switch, n) => status[u] = "Running"
    BY Zenon DEF Requeued, MustLeave
  <2>5. UNCHANGED waitSem
    BY <1>2, Zenon DEF Schedule
  <2> QED
    BY <2>2, <2>3, <2>4, <2>5, Zenon DEF StatusKept, WaitsForObject, Waits
<1>3. CASE NotifyWatchers(c)
  <2>1. holds \in [Task -> SUBSET Mutex]
    BY Zenon DEF TypeOK
  <2>2. CASE \E s \in events[c] : DoSignal(c, s, holds)
    <3>1. PICK s \in events[c] : DoSignal(c, s, holds)
      BY <2>2, Zenon
    <3>2. s \in Sem
      BY Zenon DEF TypeOK
    <3> QED
      BY <2>1, <3>1, <3>2, SignalEffect, WakeStatus, Zenon
  <2>3. CASE \E r \in expired[c] : DoSignalOnTask(c, r[2], r[1], "TimerExpiry")
    <3>1. PICK r \in expired[c] : DoSignalOnTask(c, r[2], r[1], "TimerExpiry")
      BY <2>3, Zenon
    <3>2. r[1] \in Task /\ r[2] \in Sem
      BY DEF TypeOK
    <3> QED
      BY <3>1, <3>2, SignalOnTaskEffect, WakeStatus, Zenon
  <2> QED
    BY <1>3, <2>2, <2>3, Zenon DEF NotifyWatchers
<1>4. CASE Broadcast(c)
  BY <1>4, BroadcastEffect, WakeStatus, Zenon
<1> QED
  BY <1>1, <1>2, <1>3, <1>4, Zenon DEF CpuStep

(* The steps of the tasks.                                                  *)
LEMMA TaskStatus ==
  ASSUME PlaceInv, NEW c \in Cpu, NEW t \in Task, TaskStep(c, t), NEW u \in Task
  PROVE  StatusKept(u)
<1> TypeOK /\ OnePlace /\ CallArgs /\ WaitsForObject
  BY Zenon DEF PlaceInv
<1>1. ASSUME NEW s \in Sem, WaitTake(c, t, s) \/ ResetEvent(c, t, s) PROVE StatusKept(u)
  BY <1>1, StatusUnchanged, Zenon DEF WaitTake, ResetEvent, waitVars
<1>2. ASSUME NEW s \in Sem, Wait(c, t, s) PROVE StatusKept(u)
  <2>1. PICK ticks, intr : WaitFail(c, t, s, ticks, intr) \/ WaitBlock(c, t, s, ticks, intr)
    BY <1>2, Zenon DEF Wait
  <2>2. CASE WaitFail(c, t, s, ticks, intr)
    BY <2>2, StatusUnchanged, Zenon DEF WaitFail
  <2>3. CASE WaitBlock(c, t, s, ticks, intr)
    <3>1. status[t] = "Running"
      BY <2>3, Zenon DEF WaitBlock, At, WaitRefused
    <3>2. /\ waitSem' = [waitSem EXCEPT ![t] = s]
          /\ \E st : status' = [status EXCEPT ![t] = st]
      BY <2>3, Zenon DEF WaitBlock
    <3>3. /\ waitSem'[t] = s
          /\ u # t => status'[u] = status[u] /\ waitSem'[u] = waitSem[u]
      BY <3>2, Zenon DEF TypeOK
    <3> QED
      BY <3>1, <3>3, Zenon DEF StatusKept, WaitsForObject
  <2> QED
    BY <2>1, <2>2, <2>3, Zenon
<1>3. ASSUME NEW s \in Sem, Signal(c, t, s) PROVE StatusKept(u)
  <2> DEFINE h == [holds EXCEPT ![t] = @ \ {s}]
  <2>1. h \in [Task -> SUBSET Mutex] /\ DoSignal(c, s, h)
    BY <1>3, Zenon DEF TypeOK, Signal
  <2> HIDE DEF h
  <2> QED
    BY <2>1, SignalEffect, WakeStatus, Zenon
<1>4. ASSUME NEW v \in Task, StartTask(c, t, v) PROVE StatusKept(u)
  <2>1. /\ status[v] = "New" /\ status' = [status EXCEPT ![v] = "Active"]
        /\ UNCHANGED waitSem
    BY <1>4, Zenon DEF StartTask, waitVars
  <2>2. "Active" \notin Waits /\ status[v] \notin {"Terminated", "Reaped"}
    BY <2>1, Zenon DEF Waits
  <2> QED
    BY <2>1, <2>2, SetStatus, Zenon
<1>5. ASSUME NEW v \in Task, KillThread(c, t, v) PROVE StatusKept(u)
  <2>1. /\ status' = [status EXCEPT ![v] = "Terminated"] /\ UNCHANGED waitSem
        /\ status[v] # "Reaped"
    BY <1>5, Zenon DEF KillThread, Terminate, Alive, waitVars
  <2>2. "Terminated" \notin Waits
    BY Zenon DEF Waits
  <2>3. status[v] \in {"Terminated", "Reaped"} => "Terminated" = status[v]
    BY <2>1, Zenon
  <2> QED
    BY <2>1, <2>2, <2>3, SetStatus, Zenon
<1>6. ASSUME NEW v \in Task, SafeKill(c, t, v) \/ ResumeProcess(c, t, v) PROVE StatusKept(u)
  BY <1>6, StatusUnchanged, Zenon DEF SafeKill, ResumeProcess, waitVars
<1>7. CASE WaitReturn(c, t) \/ TransferToUser(c, t) \/ SyscallEnter(c, t) \/ SyscallExit(c, t)
  BY <1>7, StatusUnchanged, Zenon DEF WaitReturn, TransferToUser, SyscallEnter, SyscallExit, waitVars
<1>8. CASE DropTask(c, t)
  <2>1. arg[t][1] \in Task /\ status[arg[t][1]] \in {"Terminated", "Reaped"}
    BY <1>8, Zenon DEF DropTask, At, CallArgs
  <2>2. UNCHANGED status /\ (u # arg[t][1] => waitSem'[u] = waitSem[u])
    BY <1>8, <2>1, Zenon DEF DropTask, TypeOK
  <2> QED
    BY <2>1, <2>2, Zenon DEF StatusKept, WaitsForObject, Waits
<1>9. CASE InterruptWait(c, t)
  <2>1. arg[t][1] \in Task /\ arg[t][2] \in Sem
    BY <1>9, Zenon DEF InterruptWait, At, CallArgs
  <2> QED
    BY <1>9, <2>1, SignalOnTaskEffect, WakeStatus, Zenon DEF InterruptWait
<1>10. CASE ResumeTask(c, t)
  <2>1. arg[t][1] \in Task
    BY <1>10, Zenon DEF ResumeTask, At, CallArgs
  <2> QED
    BY <1>10, <2>1, StatusUnchanged, SetStatus DEF ResumeTask, waitVars, Waits
<1>11. CASE ExitThread(c, t)
  <2>1. /\ status' = [status EXCEPT ![t] = "Terminated"] /\ UNCHANGED waitSem
        /\ status[t] \in {"Running", "Terminated"}
    BY <1>11, Zenon DEF ExitThread, Terminate, At
  <2>2. "Terminated" \notin Waits
    BY Zenon DEF Waits
  <2> QED
    BY <2>1, <2>2, SetStatus, Zenon
<1>12. CASE SuspendProcess(c, t)
  BY <1>12, StatusUnchanged, SetStatus, Zenon DEF SuspendProcess, waitVars, Waits
<1> QED
  BY <1>1, <1>2, <1>3, <1>4, <1>5, <1>6, <1>7, <1>8, <1>9, <1>10, <1>11, <1>12, Zenon DEF TaskStep

-----------------------------------------------------------------------------
(* A call that works on another task keeps knowing which one.               *)

(* A step in which at most t moves, and to a place that needs no argument.  *)
LEMMA PlainMove ==
  ASSUME TypeOK, CallArgs, NEW t \in Task,
         \A u \in Task : StatusKept(u),
         \/ UNCHANGED <<pc, arg>>
         \/ \E where \in PcValues \ {"drop", "intr", "resume"} : \E what :
               Goto(t, where, what)
  PROVE  CallArgs'
<1>1. \A u \in Task : \/ pc'[u] = pc[u] /\ arg'[u] = arg[u]
                      \/ pc'[u] \notin {"drop", "intr", "resume"}
  BY Zenon DEF Goto, TypeOK
<1>2. ASSUME NEW u \in Task, pc'[u] \in {"drop", "intr", "resume"}
      PROVE  /\ arg'[u][1] \in Task
             /\ pc'[u] = "intr" => arg'[u][2] \in Sem
             /\ pc'[u] = "drop" => status'[arg'[u][1]] \in {"Terminated", "Reaped"}
  <2>1. pc'[u] = pc[u] /\ arg'[u] = arg[u]
    BY <1>1, <1>2, Zenon
  <2>2. arg[u][1] \in Task /\ (pc[u] = "intr" => arg[u][2] \in Sem)
    BY <1>2, <2>1, Zenon DEF CallArgs
  <2>3. pc[u] = "drop" => status[arg[u][1]] \in {"Terminated", "Reaped"}
    BY <1>2, Zenon DEF CallArgs
  <2>4. pc[u] = "drop" => status'[arg[u][1]] \in {"Terminated", "Reaped"}
    BY <2>2, <2>3, Zenon DEF StatusKept
  <2> QED
    BY <2>1, <2>2, <2>4, Zenon
<1> QED
  BY <1>2, Zenon DEF CallArgs

(* A step in which t starts such a call.                                    *)
LEMMA CallMove ==
  ASSUME TypeOK, CallArgs, NEW t \in Task,
         \A u \in Task : StatusKept(u),
         NEW where \in {"drop", "intr", "resume"}, NEW v \in Task, NEW s,
         Goto(t, where, <<v, s>>),
         where = "intr" => s \in Sem,
         where = "drop" => status'[v] \in {"Terminated", "Reaped"}
  PROVE  CallArgs'
<1>1. /\ pc'[t] = where /\ arg'[t] = <<v, s>>
      /\ \A u \in Task : u # t => pc'[u] = pc[u] /\ arg'[u] = arg[u]
  BY Zenon DEF Goto, TypeOK
<1>2. ASSUME NEW u \in Task, pc'[u] \in {"drop", "intr", "resume"}
      PROVE  /\ arg'[u][1] \in Task
             /\ pc'[u] = "intr" => arg'[u][2] \in Sem
             /\ pc'[u] = "drop" => status'[arg'[u][1]] \in {"Terminated", "Reaped"}
  <2>1. CASE u = t
    BY <1>1, <2>1
  <2>2. CASE u # t
    <3>1. pc'[u] = pc[u] /\ arg'[u] = arg[u]
      BY <1>1, <2>2, Zenon
    <3>2. arg[u][1] \in Task /\ (pc[u] = "intr" => arg[u][2] \in Sem)
      BY <1>2, <3>1, Zenon DEF CallArgs
    <3>3. pc[u] = "drop" => status[arg[u][1]] \in {"Terminated", "Reaped"}
      BY Zenon DEF CallArgs
    <3>4. pc[u] = "drop" => status'[arg[u][1]] \in {"Terminated", "Reaped"}
      BY <3>2, <3>3, Zenon DEF StatusKept
    <3> QED
      BY <3>1, <3>2, <3>4, Zenon
  <2> QED
    BY <2>1, <2>2, Zenon
<1> QED
  BY <1>2, Zenon DEF CallArgs

(* No step of a CPU changes what a call works on.                           *)
LEMMA CpuArgs ==
  ASSUME PlaceInv, NEW c \in Cpu, CpuStep(c)
  PROVE  CallArgs'
<1> TypeOK /\ OnePlace /\ CallArgs
  BY Zenon DEF PlaceInv
<1>0. \A u \in Task : StatusKept(u)
  BY CpuStatus, Zenon
<1>1. CASE UNCHANGED <<pc, arg>>
  <2>1. CASE Task = {}
    BY <2>1, Zenon DEF CallArgs
  <2>2. CASE Task # {}
    BY <1>0, <1>1, <2>2, PlainMove, Zenon
  <2> QED
    BY <2>1, <2>2, Zenon
<1>2. CASE Schedule(c)
  <2>1. PICK switch \in BOOLEAN, n \in 0 .. Len(active[c]) : SwitchTasks(c, switch, n)
    BY <1>2, Zenon DEF Schedule
  <2>2. CASE pc' = pc
    BY <1>1, <1>2, <2>2, Zenon DEF Schedule
  <2>3. CASE running[c] # NoTask /\ pc' = [pc EXCEPT ![running[c]] = AfterYield(running[c])]
    <3>1. running[c] \in Task
      BY <2>3, Zenon DEF TypeOK
    <3>2. CASE pc[running[c]] = "waityield" \/ pc[running[c]] = "suspyield"
      <4>1. AfterYield(running[c]) \in PcValues \ {"drop", "intr", "resume"}
        BY <3>2, Zenon DEF AfterYield, PcValues
      <4>2. Goto(running[c], AfterYield(running[c]), arg[running[c]])
        BY <1>2, <2>3, <3>1, Zenon DEF Goto, Schedule, TypeOK
      <4> QED
        BY <1>0, <3>1, <4>1, <4>2, PlainMove, Zenon
    <3>3. CASE pc[running[c]] # "waityield" /\ pc[running[c]] # "suspyield"
      <4>1. AfterYield(running[c]) = pc[running[c]]
        BY <3>3, Zenon DEF AfterYield
      <4>2. pc' = pc
        BY <2>3, <3>1, <4>1, Zenon DEF TypeOK
      <4> QED
        BY <2>2, <4>2, Zenon
    <3> QED
      BY <3>2, <3>3, Zenon
  <2> QED
    BY <2>1, <2>2, <2>3, Zenon DEF SwitchTasks
<1>3. CASE HandleIpi(c) \/ ScheduleTick(c) \/ NotifyWatchers(c) \/ Broadcast(c)
  BY <1>1, <1>3, Zenon DEF HandleIpi, ScheduleTick, NotifyWatchers, Broadcast
<1> QED
  BY <1>2, <1>3, Zenon DEF CpuStep

(* kill_thread, safe_kill_thread and resume_process name their victim when  *)
(* they release the lock, and finish with that one.                         *)
LEMMA TaskArgs ==
  ASSUME PlaceInv, NEW c \in Cpu, NEW t \in Task, TaskStep(c, t)
  PROVE  CallArgs'
<1> TypeOK /\ OnePlace /\ CallArgs /\ WaitsForObject
  BY Zenon DEF PlaceInv
<1>0. \A u \in Task : StatusKept(u)
  BY TaskStatus, Zenon
<1>1. CASE UNCHANGED <<pc, arg>>
  BY <1>0, <1>1, PlainMove, Zenon
<1>2. ASSUME NEW where \in {"kern", "user", "init", "exit", "suspyield", "waityield"},
             NEW what, Goto(t, where, what)
      PROVE  CallArgs'
  <2>1. where \in PcValues \ {"drop", "intr", "resume"}
    BY Zenon DEF PcValues
  <2> QED
    BY <1>0, <1>2, <2>1, PlainMove, Zenon
<1>3. ASSUME NEW s \in Sem, WaitTake(c, t, s) \/ Signal(c, t, s) \/ ResetEvent(c, t, s)
      PROVE  CallArgs'
  BY <1>1, <1>3, Zenon DEF WaitTake, Signal, ResetEvent
<1>4. ASSUME NEW s \in Sem, Wait(c, t, s) PROVE CallArgs'
  BY <1>1, <1>2, <1>4, Zenon DEF Wait, WaitFail, WaitBlock
<1>5. ASSUME NEW v \in Task, StartTask(c, t, v) PROVE CallArgs'
  BY <1>1, <1>5, Zenon DEF StartTask
<1>6. ASSUME NEW v \in Task, KillThread(c, t, v) PROVE CallArgs'
  <2>1. status'[v] = "Terminated"
    BY <1>6, Zenon DEF KillThread, Terminate, TypeOK
  <2>2. CASE Goto(t, "drop", <<v, NoSem>>)
    BY <1>0, <2>1, <2>2, CallMove, Zenon
  <2> QED
    BY <1>1, <1>6, <2>2, Zenon DEF KillThread
<1>7. ASSUME NEW v \in Task, SafeKill(c, t, v) PROVE CallArgs'
  <2>1. CASE status[v] = "WaitingInterruptible" /\ Goto(t, "intr", <<v, waitSem[v]>>)
    <3>1. waitSem[v] \in Sem
      BY <2>1, Zenon DEF WaitsForObject, Waits
    <3> QED
      BY <1>0, <2>1, <3>1, CallMove, Zenon
  <2> QED
    BY <1>1, <1>7, <2>1, Zenon DEF SafeKill
<1>8. ASSUME NEW v \in Task, ResumeProcess(c, t, v) PROVE CallArgs'
  <2>1. Goto(t, "resume", <<v, NoSem>>)
    BY <1>8, Zenon DEF ResumeProcess
  <2> QED
    BY <1>0, <2>1, CallMove, Zenon
<1>9. CASE \/ WaitReturn(c, t) \/ DropTask(c, t) \/ InterruptWait(c, t) \/ ResumeTask(c, t)
           \/ ExitThread(c, t) \/ TransferToUser(c, t) \/ SyscallEnter(c, t)
           \/ SyscallExit(c, t) \/ SuspendProcess(c, t)
  BY <1>2, <1>9, Zenon DEF WaitReturn, DropTask, InterruptWait, ResumeTask, ExitThread,
                    TransferToUser, SyscallEnter, SyscallExit, SuspendProcess
<1> QED
  BY <1>3, <1>4, <1>5, <1>6, <1>7, <1>8, <1>9, Zenon DEF TaskStep

-----------------------------------------------------------------------------
(* When the scheduler starts, every task that exists is queued once on its   *)
(* CPU.                                                                      *)
LEMMA InitPlace ==
  ASSUME Init
  PROVE  PlaceInv
<1>1. PICK q \in [Cpu -> UNION {[1 .. n -> Boot] : n \in 0 .. Cardinality(Boot)}] :
        /\ \A c \in Cpu : Elems(q[c]) = {t \in Boot : Core[t] = c} /\ NoRepeats(q[c])
        /\ active = q
  BY Zenon DEF Init
<1>2. ASSUME NEW c \in Cpu PROVE q[c] \in Seq(Task)
  <2>1. PICK n \in 0 .. Cardinality(Boot) : q[c] \in [1 .. n -> Boot]
    BY <1>1
  <2>2. PICK k \in Nat : q[c] \in [1 .. k -> Task]
    <3>1. CASE n \in Nat
      <4>1. q[c] \in [1 .. n -> Task]
        BY <2>1, TaskAssumption, Zenon
      <4> QED
        BY <3>1, <4>1, ZenonT(40)
    <3>2. CASE n \notin Nat
      BY <2>1, <3>2
    <3> QED
      BY <3>1, <3>2, Zenon
  <2> QED
    BY <2>2
<1>3. active \in [Cpu -> Seq(Task)]
  BY <1>1, <1>2, Zenon
<1>4. TypeOK
  <2>1. SemTypeOK
    <3>1. KSemInit
      BY Zenon DEF Init
    <3>2. InitCount \in [Sem -> Int]
      BY CountAssumption
    <3>3. << >> \in Seq(Task)
      OBVIOUS
    <3> QED
      BY <3>1, <3>2, <3>3, ZenonT(40) DEF KSemInit, SemTypeOK
  <2>2. /\ status \in [Task -> Waits \cup {"New", "Active", "Running", "Suspended",
                                           "Terminated", "Reaped"}]
        /\ pc \in [Task -> PcValues]
        /\ arg \in [Task -> (Task \cup {NoTask}) \X (Sem \cup {NoSem})]
    BY Zenon DEF Init, PcValues
  <2>3. /\ running \in [Cpu -> Task \cup {NoTask}]
        /\ waitingQ \subseteq Task /\ suspendedQ \subseteq Task /\ terminatedQ \subseteq Task
        /\ waitSem \in [Task -> Sem \cup {NoSem}]
        /\ timers \subseteq Task \X Sem \X Nat
        /\ cause \in [Task -> {"Normal", "TimerExpiry", "Interruption"}]
        /\ holds \in [Task -> SUBSET Mutex]
    BY Zenon DEF Init
  <2>4. /\ events \in [Cpu -> SUBSET Sem]
        /\ expired \in [Cpu -> SUBSET (Task \X Sem)]
        /\ broadcast \in [Cpu -> Sem \cup {NoSem}]
        /\ pendingKill \subseteq UserTask /\ safeToKill \subseteq UserTask
        /\ leftover \in [Cpu -> SUBSET Task] /\ flipFlop \in [Cpu -> BOOLEAN]
        /\ freed \subseteq Task /\ resumed \subseteq Task
        /\ timerOn \in [Cpu -> BOOLEAN] /\ ipi \in [Cpu -> BOOLEAN]
    BY Zenon DEF Init
  <2> QED
    BY <1>3, <2>1, <2>2, <2>3, <2>4, Zenon DEF TypeOK, SemTypeOK
<1>5. \A t \in Task : /\ Core[t] \in Cpu
                      /\ status[t] = IF t \in Boot THEN "Active" ELSE "New"
  BY TaskAssumption, Zenon DEF Init
<1>6. \A c \in Cpu : running[c] = NoTask
  BY Zenon DEF Init
<1>7. QueuedOnce /\ OnItsCpu
  BY <1>1, <1>5, <1>6, TaskAssumption DEF QueuedOnce, OnItsCpu
<1>8. ASSUME NEW t \in Task PROVE Placed(t)
  <2>1. status[t] = "Active" => t \in Elems(active[Core[t]])
    BY <1>1, <1>5, Zenon
  <2>2. status[t] \in {"Active", "New"}
    BY <1>5, Zenon
  <2>3. waitingQ = {} /\ suspendedQ = {} /\ terminatedQ = {}
    BY Zenon DEF Init
  <2> QED
    BY <2>1, <2>2, <2>3, Zenon DEF Placed, Waits
<1>9. CallArgs
  <2>1. \A t \in Task : pc[t] \in {"held", "init", "kern"}
    BY Zenon DEF Init
  <2> QED
    BY <2>1, Zenon DEF CallArgs
<1>10. WaitsForObject
  BY <1>5, Zenon DEF WaitsForObject, Waits
<1> QED
  BY <1>4, <1>7, <1>8, <1>9, <1>10, Zenon DEF PlaceInv, OnePlace

(* Every step keeps the invariant.                                          *)
LEMMA NextPlace ==
  ASSUME PlaceInv, [Next]_vars
  PROVE  PlaceInv'
<1>1. CASE UNCHANGED vars
  <2> PlaceInv /\ UNCHANGED <<counter, signalled, blocked, status, pc, arg, running,
         active, waitingQ, suspendedQ, terminatedQ, waitSem, timers, cause, holds,
         events, expired, broadcast, pendingKill, safeToKill, leftover, flipFlop,
         freed, timerOn, ipi, resumed>>
    BY <1>1, Zenon DEF vars, semVars, queueVars, waitVars, notifyVars, killVars, stackVars,
                clockVars
  <2>1. TypeOK'
    BY Zenon DEF PlaceInv, TypeOK
  <2>2. QueuedOnce' /\ OnItsCpu'
    BY Zenon DEF PlaceInv, OnePlace, QueuedOnce, OnItsCpu
  <2>3. ASSUME NEW u \in Task PROVE Placed(u)'
    BY Zenon DEF PlaceInv, OnePlace, Placed, Here
  <2>4. CallArgs' /\ WaitsForObject'
    BY Zenon DEF PlaceInv, CallArgs, WaitsForObject
  <2> QED
    BY <2>1, <2>2, <2>3, <2>4, Zenon DEF PlaceInv, OnePlace
<1>2. ASSUME NEW c \in Cpu, CpuStep(c) PROVE PlaceInv'
  <2>1. TypeOK'
    BY <1>2, CpuTypes, ScheduleTypes, Zenon DEF CpuStep
  <2>2. WaitsForObject'
    BY <1>2, CpuStatus, Zenon DEF StatusKept, WaitsForObject
  <2> QED
    BY <1>2, <2>1, <2>2, CpuPlace, CpuArgs, Zenon DEF PlaceInv
<1>3. ASSUME NEW c \in Cpu, NEW t \in Task, TaskStep(c, t) PROVE PlaceInv'
  <2>1. TypeOK'
    BY <1>3, ObjectCallTypes, TaskCallTypes, OwnStepTypes, Zenon DEF TaskStep
  <2>2. WaitsForObject'
    BY <1>3, TaskStatus, Zenon DEF StatusKept, WaitsForObject
  <2> QED
    BY <1>3, <2>1, <2>2, TaskPlace, TaskArgs, Zenon DEF PlaceInv
<1> QED
  BY <1>1, <1>2, <1>3, Zenon DEF Next

(* In every reachable state of the scheduler the types are right, every task *)
(* is in the list its status names, a call that released a lock knows its    *)
(* victim, and a waiting task knows what it waits for: any number of CPUs,   *)
(* tasks and objects, and any interleaving of schedule(), wake-ups, kills,   *)
(* suspensions and resumes.                                                  *)
THEOREM PlaceInvariance == Spec => []PlaceInv
<1>1. Init => PlaceInv
  BY InitPlace, Zenon
<1>2. PlaceInv /\ [Next]_vars => PlaceInv'
  BY NextPlace, Zenon
<1> QED
  BY <1>1, <1>2, PTL DEF Spec

(* The type invariant.                                                      *)
THEOREM TypesAlways == Spec => []TypeOK
<1>1. PlaceInv => TypeOK
  BY Zenon DEF PlaceInv
<1> QED
  BY <1>1, PlaceInvariance, PTL

(* A task is in exactly the list its status names: what the asserts of       *)
(* schedule() on a popped task and of kill_thread on find_and_remove demand. *)
THEOREM OnePlaceAlways == Spec => []OnePlace
<1>1. PlaceInv => OnePlace
  BY Zenon DEF PlaceInv
<1> QED
  BY <1>1, PlaceInvariance, PTL

(* No wake-up, resume or schedule() brings a terminated task back.          *)
THEOREM DeadStaysDeadAlways == Spec => DeadStaysDead
<1>1. PlaceInv /\ [Next]_vars =>
        [\A t \in Task : status[t] \in {"Terminated", "Reaped"} =>
            status'[t] \in {status[t], "Reaped"}]_vars
  <2>1. ASSUME NEW c \in Cpu, CpuStep(c), PlaceInv, NEW t \in Task,
               status[t] \in {"Terminated", "Reaped"}
        PROVE  status'[t] \in {status[t], "Reaped"}
    BY <2>1, CpuStatus, Zenon DEF StatusKept
  <2>2. ASSUME NEW c \in Cpu, NEW u \in Task, TaskStep(c, u), PlaceInv, NEW t \in Task,
               status[t] \in {"Terminated", "Reaped"}
        PROVE  status'[t] \in {status[t], "Reaped"}
    BY <2>2, TaskStatus, Zenon DEF StatusKept
  <2> QED
    BY <2>1, <2>2, Zenon DEF Next
<1> QED
  BY <1>1, PlaceInvariance, PTL DEF Spec, DeadStaysDead
=============================================================================
