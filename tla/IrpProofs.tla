----------------------------- MODULE IrpProofs ------------------------------
(***************************************************************************)
(* Requests to a driver are served by one party at a time, are not used    *)
(* after they were freed by the one that serves them, and are not          *)
(* forgotten, and a device that was stopped has none left, for any number  *)
(* of readers and requests and any bounds on keys and stops.               *)
(***************************************************************************)
EXTENDS Irp, TLAPS

-----------------------------------------------------------------------------
(* The inductive invariant.                                                 *)

Statuses == {"Pending", "Success", "Failed", "Cancelled"}

Irps == [mem : {"unused", "live", "freed"}, owner : IoThread \cup {NoIrp}, cancelled : BOOLEAN,
         routine : BOOLEAN, completed : BOOLEAN, done : BOOLEAN, lock : Actor \cup {NoIrp}]

\* Where the calls of an actor may be.
Places(a) ==
    Completing \cup
    (CASE a = Dw -> {"idle", "start"}
       [] a = Pnp -> {"idle", "stop", "fail", "drain", "drainwait", "slept", "remove"}
       [] a = Killer -> {"idle", "cancel", "routine", "unlock"}
       [] OTHER -> {"idle", "dispatch", "setcancel", "undo", "wait", "return", "cancel",
                    "routine", "unlock"})

\* Where io_complete may return to.
Returns(a) ==
    CASE a = Dw -> {"start"}
      [] a = Pnp -> {"fail"}
      [] a = Killer -> {"unlock"}
      [] OTHER -> {"return", "unlock"}

Types ==
    /\ devState \in {"Stopped", "Started", "Stopping", "Removing", "Removed"}
    /\ devPending \subseteq IrpId \cup {Pnp}
    /\ irp \in [IrpId -> Irps]
    /\ issued \in [IoThread -> SUBSET IrpId]
    /\ req \in [IoThread -> IrpId \cup {NoIrp}]
    /\ queue \in Seq(IrpId) /\ Len(queue) <= MaxPending
    /\ keys \in Nat /\ scan \in Nat /\ works \in Nat
    /\ removing \in BOOLEAN /\ ctx \in {"live", "freed"}
    /\ step \in [Actor -> PcValues]
    /\ cur \in [Actor -> IrpId \cup {NoIrp}]
    /\ todo \in [Actor -> SUBSET IrpId]
    /\ call \in [Actor -> [status : Statuses, skip : BOOLEAN, ret : PcValues]]

\* Only the PnP worker waits for the event, and only where it waits.
DrainedOK ==
    /\ drained \in {NewEvent, [signalled |-> TRUE, asleep |-> << >>],
                    [signalled |-> FALSE, asleep |-> <<Pnp>>]}
    /\ drained.asleep # << >> => step[Pnp] = "slept"

\* An actor is in its own code, and has an IRP in hand exactly while it
\* cancels or completes one.
ActorsOK ==
    \A a \in Actor :
        /\ step[a] \in Places(a)
        /\ step[a] \in Completing => call[a].ret \in Returns(a)
        /\ cur[a] \in IrpId <=> step[a] \in Completing \cup {"routine", "unlock"}
        /\ step[a] = "unlock" => irp[cur[a]].done

\* The PnP worker is where the state of the device says, and the worker of
\* the driver has work only between its start and its end.
DeviceOK ==
    /\ step[Pnp] \in {"drain", "drainwait", "slept"} => devState = "Stopped"
    /\ step[Pnp] = "remove" => devState = "Removing"
    /\ step[Pnp] \in {"stop", "fail"} \cup Completing => devState = "Stopping"
    /\ step[Pnp] = "idle" => devState \in {"Started", "Stopped", "Removed"}
    /\ step[Pnp] \in {"idle", "remove"} /\ devState # "Started" => devPending = {}
    /\ step[Pnp] \notin {"fail"} \cup Completing => todo[Pnp] = {}
    /\ step[Dw] = "idle" => todo[Dw] = {}

\* The context is freed by the last worker once the device is removed.
ContextOK ==
    /\ refs = works + (IF step[Dw] = "idle" THEN 0 ELSE 1)
    /\ removing => devState = "Removed"
    /\ ctx = "freed" => removing /\ works = 0 /\ step[Dw] = "idle"

\* The requests that the driver has: on its list, or taken from it.
WithDriver == Elems(queue) \cup todo[Dw] \cup todo[Pnp]

InHand(i) == i \in WithDriver \/ \E a \in Actor : cur[a] = i

\* A request is of one thread, and an IRP is allocated before it is used.
RequestsOK ==
    /\ \A t, u \in IoThread : req[t] = req[u] /\ req[t] # NoIrp => t = u
    /\ \A t \in IoThread : step[t] \in {"dispatch", "setcancel", "undo", "wait"} => req[t] \in IrpId
    /\ \A t \in IoThread : req[t] \in IrpId => irp[req[t]].mem # "unused"
    /\ \A i \in IrpId : irp[i].mem = "unused" => ~InHand(i)

\* A request that the driver has not seen is with its thread alone.
DispatchOK ==
    \A t \in IoThread : step[t] = "dispatch" =>
        /\ Allocated(req[t]) /\ ~irp[req[t]].routine
        /\ req[t] \in devPending
        /\ ~InHand(req[t])

Distinct(q) == \A j, k \in DOMAIN q : q[j] = q[k] => j = k

\* The list of the driver has no request twice, none that is being completed,
\* and only ones that the device counts.
QueueOK ==
    /\ Distinct(queue)
    /\ \A a \in Actor : step[a] \in Completing \cup {"unlock"} => cur[a] \notin Elems(queue)
    /\ Elems(queue) \subseteq devPending

\* A thread that waits: cancelled or without its routine, its request is in
\* the hands of an actor, and not only with the driver.
WaitsOK ==
    \A t \in IoThread :
        /\ step[t] = "wait" /\ ~irp[req[t]].done => InHand(req[t])
        /\ step[t] = "wait" /\ ~irp[req[t]].done /\ Allocated(req[t]) /\ irp[req[t]].cancelled
            => \E a \in Actor : cur[a] = req[t]
        /\ step[t] = "wait" /\ ~irp[req[t]].done /\ Allocated(req[t]) /\ ~irp[req[t]].routine
            => cur[Dw] = req[t]
        /\ step[t] = "setcancel" /\ ~irp[req[t]].done /\ Allocated(req[t]) => InHand(req[t])

\* Actor a may free IRP i: the driver's code that has taken it from the list,
\* or a call of io_complete that deallocates.
HasIrp(a, i) ==
    \/ a \in {Dw, Pnp} /\ i \in todo[a]
    \/ step[a] \in Completing /\ cur[a] = i /\ call[a].status # "Cancelled"

\* At most one may, and what is on the list is live.
ServersOK ==
    /\ \A a \in Actor : \A i \in IrpId :
          HasIrp(a, i) => i \notin Elems(queue) /\ \A b \in Actor : HasIrp(b, i) => b = a
    /\ \A i \in WithDriver : Allocated(i)
    /\ \A a \in {Dw, Pnp} : cur[a] \notin todo[a]

\* What is known of the requests, and of the device and its worker.
RequestInv == ActorsOK /\ RequestsOK /\ DispatchOK /\ QueueOK /\ WaitsOK /\ ServersOK

DeviceInv == DrainedOK /\ DeviceOK /\ ContextOK

IrpInv == Types /\ RequestInv /\ DeviceInv

-----------------------------------------------------------------------------
(* Actors, and the list of the driver.                                      *)

(* The parties are different from each other and from the requests.        *)
LEMMA ActorFacts ==
  /\ Dw \in Actor /\ Pnp \in Actor /\ Killer \in Actor
  /\ \A t \in IoThread : t \in Actor /\ t # Dw /\ t # Pnp /\ t # Killer
  /\ Dw # Pnp /\ Dw # Killer /\ Pnp # Killer
  /\ Pnp \notin IrpId /\ NoIrp \notin IrpId /\ MaxPending \in Nat
BY IrpAssumption, Zenon DEF Actor

(* The code and the returns of each actor.                                 *)
LEMMA PlaceFacts ==
  /\ Places(Dw) = Completing \cup {"idle", "start"}
  /\ Places(Pnp) = Completing \cup {"idle", "stop", "fail", "drain", "drainwait", "slept",
                                    "remove"}
  /\ Places(Killer) = Completing \cup {"idle", "cancel", "routine", "unlock"}
  /\ \A t \in IoThread :
        Places(t) = Completing \cup {"idle", "dispatch", "setcancel", "undo", "wait",
                                     "return", "cancel", "routine", "unlock"}
  /\ Returns(Dw) = {"start"} /\ Returns(Pnp) = {"fail"} /\ Returns(Killer) = {"unlock"}
  /\ \A t \in IoThread : Returns(t) = {"return", "unlock"}
BY ActorFacts, Zenon DEF Places, Returns

(* What is with the driver are requests.                                   *)
LEMMA DriverTyped ==
  ASSUME Types
  PROVE  WithDriver \subseteq IrpId
<1>1. Dw \in Actor /\ Pnp \in Actor
  BY ActorFacts, Zenon
<1>2. Elems(queue) \subseteq IrpId
  BY DEF Types, Elems
<1>3. todo[Dw] \subseteq IrpId /\ todo[Pnp] \subseteq IrpId
  BY <1>1, Zenon DEF Types
<1> QED
  BY <1>2, <1>3, Zenon DEF WithDriver

(* ctx.pending.push_back of a request that is not there yet.               *)
LEMMA AppendEffect ==
  ASSUME NEW S, NEW q \in Seq(S), NEW i \in S, Distinct(q), i \notin Elems(q)
  PROVE  /\ Append(q, i) \in Seq(S) /\ Len(Append(q, i)) = Len(q) + 1
         /\ Elems(Append(q, i)) = Elems(q) \cup {i}
         /\ Distinct(Append(q, i))
<1> DEFINE r == Append(q, i)
<1>1. /\ r \in Seq(S) /\ Len(r) = Len(q) + 1 /\ Len(q) \in Nat
      /\ DOMAIN r = 1 .. Len(q) + 1 /\ DOMAIN q = 1 .. Len(q)
      /\ \A k \in 1 .. Len(q) : r[k] = q[k]
      /\ r[Len(q) + 1] = i
  OBVIOUS
<1> HIDE DEF r
<1>2. Elems(r) = Elems(q) \cup {i}
  BY <1>1 DEF Elems
<1>3. Distinct(r)
  <2>1. \A k \in 1 .. Len(q) : r[k] # i
    BY <1>1, Zenon DEF Elems
  <2>2. SUFFICES ASSUME NEW j \in DOMAIN r, NEW k \in DOMAIN r, r[j] = r[k]
                 PROVE  j = k
    BY Zenon DEF Distinct
  <2> QED
    BY <1>1, <2>1, <2>2 DEF Distinct
<1> QED
  BY <1>1, <1>2, <1>3, Zenon DEF r

(* remove_pending takes one request out of the list, whose order changes.  *)
LEMMA UnqueueEffect ==
  ASSUME NEW i, queue \in Seq(IrpId), Distinct(queue), Unqueue(i)
  PROVE  /\ queue' \in Seq(IrpId) /\ Len(queue') <= Len(queue)
         /\ Elems(queue') = Elems(queue) \ {i}
         /\ Distinct(queue')
<1>1. CASE i \notin Elems(queue)
  BY <1>1 DEF Unqueue
<1>2. CASE i \in Elems(queue)
  <2> DEFINE n == Len(queue)
             k == CHOOSE m \in DOMAIN queue : queue[m] = i
             q == [queue EXCEPT ![k] = queue[n]]
  <2>1. queue' = SubSeq(q, 1, n - 1)
    BY <1>2, Zenon DEF Unqueue
  <2>2. k \in 1 .. n /\ queue[k] = i /\ n \in Nat /\ DOMAIN queue = 1 .. n
    BY <1>2 DEF Elems
  <2> HIDE DEF k
  <2>3. /\ q \in Seq(IrpId) /\ Len(q) = n
        /\ \A m \in 1 .. n : q[m] = IF m = k THEN queue[n] ELSE queue[m]
    BY <2>2
  <2> HIDE DEF q
  <2>4. /\ queue' \in Seq(IrpId) /\ Len(queue') = n - 1 /\ DOMAIN queue' = 1 .. n - 1
        /\ \A m \in 1 .. n - 1 : queue'[m] = q[m]
    BY <2>1, <2>2, <2>3
  <2>5. \A m \in 1 .. n : queue[m] = i => m = k
    BY <2>2, Zenon DEF Distinct
  <2>8. n \in Nat /\ Len(queue) = n
    BY <2>2, Zenon
  <2> HIDE DEF n
  <2>6. Elems(queue') = Elems(queue) \ {i}
    <3>1. ASSUME NEW x \in Elems(queue') PROVE x \in Elems(queue) \ {i}
      <4>1. PICK m \in 1 .. n - 1 : x = q[m]
        BY <2>4, <3>1, Zenon DEF Elems
      <4> QED
        BY <2>2, <2>3, <2>5, <4>1 DEF Elems
    <3>2. ASSUME NEW x \in Elems(queue) \ {i} PROVE x \in Elems(queue')
      <4>1. PICK m \in 1 .. n : x = queue[m] /\ m # k
        BY <2>2, <3>2, Zenon DEF Elems
      <4>2. CASE m = n
        <5>1. k \in 1 .. n - 1 /\ q[k] = x
          <6>1. k \in 1 .. n - 1
            BY <2>2, <4>1, <4>2
          <6> QED
            BY <2>2, <2>3, <4>1, <4>2, <6>1, Zenon
        <5>2. k \in DOMAIN queue' /\ queue'[k] = x
          BY <2>4, <5>1, Zenon
        <5> QED
          BY <5>2, Zenon DEF Elems
      <4>3. CASE m # n
        <5>1. m \in 1 .. n - 1
          BY <2>2, <4>1, <4>3
        <5>2. q[m] = x
          BY <2>3, <4>1, Zenon
        <5>3. m \in DOMAIN queue' /\ queue'[m] = x
          BY <2>4, <5>1, <5>2, Zenon
        <5> QED
          BY <5>3, Zenon DEF Elems
      <4> QED
        BY <4>2, <4>3, Zenon
    <3> QED
      BY <3>1, <3>2, Zenon
  <2>7. Distinct(queue')
    <3> SUFFICES ASSUME NEW j \in 1 .. n - 1, NEW m \in 1 .. n - 1, queue'[j] = queue'[m]
                 PROVE  j = m
      BY <2>4, Zenon DEF Distinct
    <3>1. j \in 1 .. n /\ m \in 1 .. n /\ n \in 1 .. n /\ j # n /\ m # n
      BY <2>8
    <3>2. q[j] = q[m]
      BY <2>4, Zenon
    <3> QED
      BY <2>2, <2>3, <3>1, <3>2, Zenon DEF Distinct
  <2> QED
    BY <2>4, <2>6, <2>7, <2>8
<1> QED
  BY <1>1, <1>2, Zenon

(* keyboard_dw takes the first n requests from the list.                   *)
LEMMA CollectEffect ==
  ASSUME NEW S, NEW q \in Seq(S), Distinct(q), NEW n \in 0 .. Len(q)
  PROVE  /\ SubSeq(q, n + 1, Len(q)) \in Seq(S)
         /\ Len(SubSeq(q, n + 1, Len(q))) <= Len(q)
         /\ Distinct(SubSeq(q, n + 1, Len(q)))
         /\ Elems(SubSeq(q, n + 1, Len(q))) \cup {q[k] : k \in 1 .. n} = Elems(q)
         /\ Elems(SubSeq(q, n + 1, Len(q))) \cap {q[k] : k \in 1 .. n} = {}
<1> DEFINE L == Len(q)
           r == SubSeq(q, n + 1, Len(q))
<1>1. /\ r \in Seq(S) /\ Len(r) = L - n /\ L \in Nat /\ Len(q) = L /\ n \in 0 .. L
      /\ DOMAIN r = 1 .. L - n /\ DOMAIN q = 1 .. L
      /\ \A k \in 1 .. L - n : r[k] = q[n + k]
  OBVIOUS
<1> HIDE DEF r, L
<1>2. Distinct(r)
  <2> SUFFICES ASSUME NEW j \in 1 .. L - n, NEW k \in 1 .. L - n, r[j] = r[k]
               PROVE  j = k
    BY <1>1, Zenon DEF Distinct
  <2>1. n + j \in DOMAIN q /\ n + k \in DOMAIN q /\ q[n + j] = q[n + k]
    BY <1>1
  <2>2. n + j = n + k
    BY <2>1, Zenon DEF Distinct
  <2> QED
    BY <2>2
<1>3. Elems(r) \subseteq Elems(q) /\ {q[k] : k \in 1 .. n} \subseteq Elems(q)
  <2>1. \A k \in DOMAIN r : n + k \in DOMAIN q /\ r[k] = q[n + k]
    BY <1>1
  <2>2. 1 .. n \subseteq DOMAIN q
    BY <1>1
  <2>3. Elems(r) \subseteq Elems(q)
    BY <2>1, Zenon DEF Elems
  <2> QED
    BY <2>2, <2>3, Zenon DEF Elems
<1>4. ASSUME NEW x \in Elems(q), x \notin {q[k] : k \in 1 .. n}
      PROVE  x \in Elems(r)
  <2>1. PICK m \in 1 .. L : x = q[m]
    BY <1>1, Zenon DEF Elems
  <2>2. m - n \in 1 .. L - n /\ n + (m - n) = m
    BY <1>1, <1>4, <2>1
  <2>3. m - n \in DOMAIN r /\ r[m - n] = x
    BY <1>1, <2>1, <2>2, Zenon
  <2> QED
    BY <2>3, Zenon DEF Elems
<1>5. ASSUME NEW x \in Elems(r), x \in {q[k] : k \in 1 .. n}
      PROVE  FALSE
  <2>1. PICK j \in 1 .. L - n : x = r[j]
    BY <1>1, <1>5, Zenon DEF Elems
  <2>2. PICK k \in 1 .. n : x = q[k]
    BY <1>5, Zenon
  <2>3. n + j \in 1 .. L /\ k \in 1 .. L /\ n + j # k
    BY <1>1
  <2>4. q[n + j] = q[k]
    BY <1>1, <2>1, <2>2, Zenon
  <2>5. n + j \in DOMAIN q /\ k \in DOMAIN q
    BY <1>1, <2>3, Zenon
  <2> QED
    BY <2>3, <2>4, <2>5, Zenon DEF Distinct
<1> QED
  <2>1. Len(r) <= Len(q)
    BY <1>1
  <2>2. Elems(r) \cup {q[k] : k \in 1 .. n} = Elems(q)
    BY <1>3, <1>4, Zenon
  <2>3. Elems(r) \cap {q[k] : k \in 1 .. n} = {}
    BY <1>5, Zenon
  <2> QED
    BY <1>1, <1>2, <2>1, <2>2, <2>3, Zenon DEF r

-----------------------------------------------------------------------------
(* What the actions share.                                                  *)

(* A step of one actor leaves the others where they are.                   *)
LEMMA GotoEffect ==
  ASSUME Types, NEW a \in Actor, NEW w \in PcValues, StepTo(a, w)
  PROVE  /\ step' \in [Actor -> PcValues]
         /\ step'[a] = w
         /\ \A b \in Actor : b # a => step'[b] = step[b]
BY Zenon DEF Types, StepTo

(* A call of io_complete: the actor enters it with the IRP, the status and *)
(* the place to return to.                                                 *)
LEMMA CompleteEffect ==
  ASSUME Types, NEW a \in Actor, NEW i \in IrpId, NEW st \in Statuses, NEW ret \in PcValues,
         Complete(a, i, st, ret)
  PROVE  /\ step' \in [Actor -> PcValues] /\ cur' \in [Actor -> IrpId \cup {NoIrp}]
         /\ call' \in [Actor -> [status : Statuses, skip : BOOLEAN, ret : PcValues]]
         /\ step'[a] = "enter" /\ cur'[a] = i /\ call'[a].status = st /\ call'[a].ret = ret
         /\ \A b \in Actor : b # a => step'[b] = step[b] /\ cur'[b] = cur[b] /\ call'[b] = call[b]
<1>1. "enter" \in PcValues
  BY Zenon DEF PcValues, Completing
<1> QED
  BY <1>1, Zenon DEF Types, Complete, StepTo

(* A flag or the lock of an IRP is set, and the rest of it stays.          *)
LEMMA RoutineEffect ==
  ASSUME NEW x \in Irps, NEW v \in BOOLEAN
  PROVE  /\ [x EXCEPT !.routine = v] \in Irps /\ [x EXCEPT !.routine = v].routine = v
         /\ [x EXCEPT !.routine = v].mem = x.mem /\ [x EXCEPT !.routine = v].done = x.done
         /\ [x EXCEPT !.routine = v].cancelled = x.cancelled
BY Zenon DEF Irps

(* Marking an IRP cancelled changes nothing else of it.                    *)
LEMMA MarkEffect ==
  ASSUME NEW x \in Irps
  PROVE  /\ [x EXCEPT !.cancelled = TRUE] \in Irps /\ [x EXCEPT !.cancelled = TRUE].mem = x.mem
         /\ [x EXCEPT !.cancelled = TRUE].done = x.done
         /\ [x EXCEPT !.cancelled = TRUE].routine = x.routine
BY Zenon DEF Irps

(* Taking or releasing the lock of an IRP changes nothing else of it.      *)
LEMMA LockEffect ==
  ASSUME NEW x \in Irps, NEW l \in Actor \cup {NoIrp}
  PROVE  /\ [x EXCEPT !.lock = l] \in Irps /\ [x EXCEPT !.lock = l].mem = x.mem
         /\ [x EXCEPT !.lock = l].done = x.done /\ [x EXCEPT !.lock = l].routine = x.routine
         /\ [x EXCEPT !.lock = l].cancelled = x.cancelled
BY Zenon DEF Irps

(* Completion sets the event of an IRP and keeps its memory.               *)
LEMMA DoneEffect ==
  ASSUME NEW x \in Irps
  PROVE  /\ [x EXCEPT !.done = TRUE, !.completed = TRUE] \in Irps
         /\ [x EXCEPT !.done = TRUE, !.completed = TRUE].mem = x.mem
         /\ [x EXCEPT !.done = TRUE, !.completed = TRUE].done = TRUE
         /\ [x EXCEPT !.done = TRUE] \in Irps /\ [x EXCEPT !.done = TRUE].mem = x.mem
         /\ [x EXCEPT !.done = TRUE].done = TRUE
BY Zenon DEF Irps

(* A step that writes one IRP leaves the others alone.                     *)
LEMMA IrpEffect ==
  ASSUME Types, NEW i \in IrpId, NEW r \in Irps, irp' = [irp EXCEPT ![i] = r]
  PROVE  /\ irp' \in [IrpId -> Irps] /\ irp'[i] = r /\ irp[i] \in Irps
         /\ \A j \in IrpId : j # i => irp'[j] = irp[j]
BY Zenon DEF Types

(* deallocate_irp keeps the event, which the thread shares.                *)
LEMMA FreedEffect ==
  ASSUME Types, NEW i \in IrpId
  PROVE  Freed(i) \in Irps /\ Freed(i).mem = "freed" /\ Freed(i).done = irp[i].done
<1>1. irp[i] \in Irps
  BY Zenon DEF Types
<1>2. irp[i].done \in BOOLEAN
  BY <1>1, Zenon DEF Irps
<1> QED
  BY <1>2, Zenon DEF Freed, Unused, NewIrp, Irps

(* An actor goes to another place in its code, and nobody's hands change.  *)
(* It may leave its request behind, and what leaves the device is in hand  *)
(* and not on the list.                                                    *)
LEMMA MoveSafe ==
  ASSUME Types, RequestInv, NEW a \in Actor, NEW w \in Places(a) \cap PcValues,
         StepTo(a, w),
         w \notin {"dispatch", "setcancel", "wait", "unlock", "routine"},
         w = "undo" => a \in IoThread /\ req'[a] \in IrpId,
         w \in Completing <=> step[a] \in Completing,
         step[a] \notin {"unlock", "routine"},
         UNCHANGED <<irp, queue, cur>>,
         \A b \in Actor : call'[b].status = call[b].status /\ call'[b].ret = call[b].ret,
         todo'[Dw] = todo[Dw], todo'[Pnp] = todo[Pnp],
         \A t \in IoThread : req'[t] = req[t] \/ (t = a /\ req'[t] = NoIrp),
         \A i \in IrpId : i \in devPending /\ (i \in Elems(queue) \/ ~InHand(i))
                            => i \in devPending'
  PROVE  RequestInv'
<1>1. step'[a] = w /\ \A b \in Actor : b # a => step'[b] = step[b]
  BY GotoEffect, Zenon
<1>2. Elems(queue') = Elems(queue) /\ \A i : InHand(i)' <=> InHand(i)
  BY Zenon DEF InHand, WithDriver
<1>3. NoIrp \notin IrpId /\ IoThread \subseteq Actor
  BY ActorFacts, Zenon
<1>4. ActorsOK'
  BY <1>1, Zenon DEF RequestInv, ActorsOK
<1>5. RequestsOK'
  BY <1>1, <1>2, <1>3 DEF RequestInv, RequestsOK
<1>6. DispatchOK'
  <2> SUFFICES ASSUME NEW t \in IoThread, step'[t] = "dispatch"
               PROVE  /\ Allocated(req[t])' /\ ~irp'[req'[t]].routine
                      /\ req'[t] \in devPending' /\ ~InHand(req[t])'
    BY Zenon DEF DispatchOK
  <2>1. t # a /\ step[t] = "dispatch" /\ req'[t] = req[t]
    BY <1>1, <1>3, Zenon
  <2>2. req[t] \in IrpId
    BY <2>1, Zenon DEF RequestInv, RequestsOK
  <2> QED
    BY <1>2, <2>1, <2>2, Zenon DEF RequestInv, DispatchOK, Allocated
<1>7. QueueOK'
  <2>1. Elems(queue) \subseteq IrpId
    BY DEF Types, Elems
  <2> QED
    BY <1>1, <1>2, <2>1, Zenon DEF RequestInv, QueueOK
<1>8. WaitsOK'
  BY <1>1, <1>2, <1>3 DEF RequestInv, WaitsOK, Allocated
<1>9. ServersOK'
  BY <1>1, <1>2 DEF RequestInv, ServersOK, HasIrp, WithDriver, Allocated
<1> QED
  BY <1>4, <1>5, <1>6, <1>7, <1>8, <1>9, Zenon DEF RequestInv

(* An actor begins to complete IRP i.  It takes it from the list and from  *)
(* what was taken, and is the only one to free it if it does.              *)
Takes(a, i, st) ==
    /\ step[a] \notin Completing \cup {"unlock"}
    /\ step[a] = "routine" => cur[a] = i
    /\ irp[i].mem # "unused"
    /\ \A t \in IoThread : step[t] = "dispatch" /\ req[t] = i => t = a
    /\ st # "Cancelled" => \A b \in Actor : HasIrp(b, i) => b = a
    /\ \A j \in IrpId : /\ irp'[j].mem = irp[j].mem /\ irp'[j].done = irp[j].done
                        /\ irp'[j].cancelled = irp[j].cancelled
                        /\ \/ irp'[j].routine = irp[j].routine
                           \/ j = i /\ a = Dw /\ irp'[j].routine = FALSE
    /\ UNCHANGED <<req, devPending>>
    /\ Distinct(queue') /\ Elems(queue') = Elems(queue) \ {i}
    /\ \A b \in {Dw, Pnp} : /\ todo'[b] \subseteq todo[b] /\ todo[b] \ {i} \subseteq todo'[b]
                            /\ b = a => i \notin todo'[b]

(* What is known of the requests survives the beginning of a completion    *)
(* (io_complete, called by any party).                                     *)
LEMMA TakeSafe ==
  ASSUME Types, RequestInv, NEW a \in Actor, NEW i \in IrpId,
         NEW st \in Statuses, NEW ret \in Returns(a) \cap PcValues, Complete(a, i, st, ret),
         Takes(a, i, st)
  PROVE  RequestInv'
<1> /\ step[a] \notin Completing \cup {"unlock"}
    /\ step[a] = "routine" => cur[a] = i
    /\ irp[i].mem # "unused"
    /\ \A t \in IoThread : step[t] = "dispatch" /\ req[t] = i => t = a
    /\ st # "Cancelled" => \A b \in Actor : HasIrp(b, i) => b = a
    /\ \A j \in IrpId : /\ irp'[j].mem = irp[j].mem /\ irp'[j].done = irp[j].done
                        /\ irp'[j].cancelled = irp[j].cancelled
                        /\ \/ irp'[j].routine = irp[j].routine
                           \/ j = i /\ a = Dw /\ irp'[j].routine = FALSE
    /\ UNCHANGED <<req, devPending>>
    /\ Distinct(queue') /\ Elems(queue') = Elems(queue) \ {i}
    /\ \A b \in {Dw, Pnp} : /\ todo'[b] \subseteq todo[b] /\ todo[b] \ {i} \subseteq todo'[b]
                            /\ b = a => i \notin todo'[b]
  BY Zenon DEF Takes
<1>1. /\ step'[a] = "enter" /\ cur'[a] = i /\ call'[a].status = st /\ call'[a].ret = ret
      /\ \A b \in Actor : b # a => step'[b] = step[b] /\ cur'[b] = cur[b] /\ call'[b] = call[b]
  BY CompleteEffect
<1>2. NoIrp \notin IrpId /\ IoThread \subseteq Actor /\ Dw \in Actor /\ Pnp \in Actor
  BY ActorFacts, Zenon
<1>3. cur[a] = i \/ cur[a] \notin IrpId
  BY Zenon DEF RequestInv, ActorsOK
<1>4. /\ WithDriver' \subseteq WithDriver /\ WithDriver \ {i} \subseteq WithDriver'
      /\ \A j \in IrpId \ {i} : InHand(j)' <=> InHand(j)
      /\ InHand(i)'
  BY <1>1, <1>3 DEF InHand, WithDriver
<1>5. ActorsOK'
  <2>1. "enter" \in Places(a) /\ "enter" \in Completing
    BY Zenon DEF Places, Completing
  <2>2. \A b \in Actor : b # a /\ step[b] = "unlock" => irp'[cur[b]].done
    BY Zenon DEF RequestInv, ActorsOK
  <2> QED
    BY <1>1, <2>1, <2>2 DEF RequestInv, ActorsOK, Completing
<1>6. RequestsOK'
  BY <1>1, <1>2, <1>4 DEF RequestInv, RequestsOK
<1>7. DispatchOK'
  <2> SUFFICES ASSUME NEW t \in IoThread, step'[t] = "dispatch"
               PROVE  /\ Allocated(req[t])' /\ ~irp'[req'[t]].routine
                      /\ req'[t] \in devPending' /\ ~InHand(req[t])'
    BY Zenon DEF DispatchOK
  <2>1. t # a /\ step[t] = "dispatch" /\ req'[t] = req[t]
    BY <1>1, <1>2, Zenon
  <2>2. req[t] \in IrpId /\ req[t] # i
    BY <2>1, Zenon DEF RequestInv, RequestsOK
  <2> QED
    BY <1>4, <2>1, <2>2, Zenon DEF RequestInv, DispatchOK, Allocated
<1>8. QueueOK'
  BY <1>1, Zenon DEF RequestInv, QueueOK
<1>9. WaitsOK'
  <2> SUFFICES ASSUME NEW t \in IoThread, step'[t] \in {"wait", "setcancel"}, ~irp'[req'[t]].done
               PROVE  /\ step'[t] = "wait" => InHand(req[t])'
                      /\ step'[t] = "wait" /\ Allocated(req[t])' /\ irp'[req'[t]].cancelled
                           => \E b \in Actor : cur'[b] = req'[t]
                      /\ step'[t] = "wait" /\ Allocated(req[t])' /\ ~irp'[req'[t]].routine
                           => cur'[Dw] = req'[t]
                      /\ step'[t] = "setcancel" /\ Allocated(req[t])' => InHand(req[t])'
    BY Zenon DEF WaitsOK
  <2>1. t # a /\ step'[t] = step[t] /\ req'[t] = req[t] /\ req[t] \in IrpId
    BY <1>1, <1>2, Zenon DEF RequestInv, RequestsOK
  <2>2. ~irp[req[t]].done /\ (Allocated(req[t])' <=> Allocated(req[t]))
        /\ irp'[req[t]].cancelled = irp[req[t]].cancelled
    BY <2>1, Zenon DEF Allocated
  <2>3. CASE req[t] = i
    BY <1>1, <1>2, <1>4, <2>1, <2>2, <2>3 DEF RequestInv, WaitsOK
  <2>4. CASE req[t] # i
    BY <1>1, <1>2, <1>3, <1>4, <2>1, <2>2, <2>4 DEF RequestInv, WaitsOK
  <2> QED
    BY <2>3, <2>4, Zenon
<1>10. ServersOK'
  <2>1. ASSUME NEW b \in Actor, NEW j \in IrpId, HasIrp(b, j)', j # i PROVE HasIrp(b, j)
    BY <1>1, <2>1, Zenon DEF HasIrp
  <2>2. ASSUME NEW b \in Actor, HasIrp(b, i)', b # a \/ st = "Cancelled" PROVE HasIrp(b, i)
    BY <1>1, <2>2, Zenon DEF HasIrp
  <2>3. ASSUME NEW j \in WithDriver' PROVE Allocated(j)'
    <3>1. j \in WithDriver /\ j \in IrpId
      BY <1>2, <1>4, DriverTyped, Zenon
    <3> QED
      BY <3>1, Zenon DEF RequestInv, ServersOK, Allocated
  <2>4. ASSUME NEW b \in Actor, NEW j \in IrpId, HasIrp(b, j)'
        PROVE  j \notin Elems(queue') /\ \A c \in Actor : HasIrp(c, j)' => c = b
    <3>1. CASE j # i
      BY <2>1, <2>4, <3>1, Zenon DEF RequestInv, ServersOK
    <3>2. CASE j = i
      <4>1. CASE st = "Cancelled"
        BY <2>2, <2>4, <3>2, <4>1, Zenon DEF RequestInv, ServersOK
      <4>2. CASE st # "Cancelled"
        BY <2>2, <2>4, <3>2, <4>2, Zenon
      <4> QED
        BY <4>1, <4>2, Zenon
    <3> QED
      BY <3>1, <3>2, Zenon
  <2>5. \A b \in {Dw, Pnp} : cur'[b] \notin todo'[b]
    BY <1>1, <1>2 DEF RequestInv, ServersOK
  <2> QED
    BY <2>3, <2>4, <2>5, Zenon DEF ServersOK
<1> QED
  BY <1>5, <1>6, <1>7, <1>8, <1>9, <1>10, Zenon DEF RequestInv

(* A signal of pending_irps_drained_event wakes the PnP worker or is kept. *)
LEMMA SignalDrained ==
  ASSUME DrainedOK
  PROVE  /\ Signal(drained) \in {NewEvent, [signalled |-> TRUE, asleep |-> << >>]}
         /\ Signal(drained).asleep = << >>
<1>1. Tail(<<Pnp>>) = << >> /\ <<Pnp>> # << >>
  OBVIOUS
<1>2. CASE drained = NewEvent
  BY <1>2, Zenon DEF NewEvent, Signal
<1>3. CASE drained = [signalled |-> TRUE, asleep |-> << >>]
  BY <1>3, Zenon DEF NewEvent, Signal
<1>4. CASE drained = [signalled |-> FALSE, asleep |-> <<Pnp>>]
  BY <1>1, <1>4, Zenon DEF NewEvent, Signal
<1> QED
  BY <1>2, <1>3, <1>4, Zenon DEF DrainedOK

(* A step of a reader, of the killer or of io_complete, for the device.    *)
LEMMA DeviceKept ==
  ASSUME DeviceInv, UNCHANGED <<devState, works, refs, removing, ctx>>,
         \/ step'[Pnp] = step[Pnp]
         \/ step[Pnp] \in {"fail"} \cup Completing /\ step'[Pnp] \in {"fail"} \cup Completing,
         step'[Dw] = "idle" <=> step[Dw] = "idle",
         todo'[Pnp] \subseteq todo[Pnp], todo'[Dw] \subseteq todo[Dw],
         devState # "Started" => devPending' \subseteq devPending,
         drained' = drained \/ drained' = Signal(drained)
  PROVE  DeviceInv'
<1>1. DrainedOK'
  <2>1. CASE drained' = drained
    BY <2>1, Zenon DEF DeviceInv, DrainedOK, Completing
  <2>2. CASE drained' = Signal(drained)
    <3>1. /\ drained' \in {NewEvent, [signalled |-> TRUE, asleep |-> << >>]}
          /\ drained'.asleep = << >>
      BY <2>2, SignalDrained, Zenon DEF DeviceInv
    <3> QED
      BY <3>1, Zenon DEF DrainedOK
  <2> QED
    BY <2>1, <2>2, Zenon
<1>2. DeviceOK'
  BY Zenon DEF DeviceInv, DeviceOK, Completing
<1>3. ContextOK'
  BY Zenon DEF DeviceInv, ContextOK
<1> QED
  BY <1>1, <1>2, <1>3, Zenon DEF DeviceInv

-----------------------------------------------------------------------------
(* Completion.                                                              *)

(* io_complete begins: it looks whether the IRP was cancelled.             *)
LEMMA EnterSafe ==
  ASSUME IrpInv, NEW a \in Actor, Enter(a)
  PROVE  IrpInv'
<1> Types /\ RequestInv /\ DeviceInv
  BY Zenon DEF IrpInv
<1> USE DEF Enter, devVars, kbdVars, reqVars
<1>1. cur[a] \in IrpId
  BY Zenon DEF RequestInv, ActorsOK, Completing
<1>2. /\ call' \in [Actor -> [status : Statuses, skip : BOOLEAN, ret : PcValues]]
      /\ \A b \in Actor : call'[b].status = call[b].status /\ call'[b].ret = call[b].ret
  <2>1. irp[cur[a]].cancelled \in BOOLEAN
    BY <1>1, Zenon DEF Types, Irps
  <2>2. call \in [Actor -> [status : Statuses, skip : BOOLEAN, ret : PcValues]]
    BY Zenon DEF Types
  <2>3. /\ call' \in [Actor -> [status : Statuses, skip : BOOLEAN, ret : PcValues]]
        /\ call'[a].status = call[a].status /\ call'[a].ret = call[a].ret
    BY <2>1, <2>2, Zenon
  <2>4. \A b \in Actor : b # a => call'[b] = call[b]
    BY <2>2, Zenon
  <2> QED
    BY <2>3, <2>4, Zenon
<1>3. "release" \in Places(a) \cap PcValues
  BY Zenon DEF Places, PcValues, Completing
<1>4. step' \in [Actor -> PcValues] /\ step'[a] = "release" /\ \A b \in Actor : b # a => step'[b] = step[b]
  BY <1>3, GotoEffect, Zenon
<1>5. Types'
  BY <1>2, <1>4, Zenon DEF Types
<1>6. RequestInv'
  BY <1>2, <1>3, MoveSafe, Zenon DEF Completing
<1>7. DeviceInv'
  <2>1. step[a] = "enter" /\ step'[a] = "release"
    BY <1>4, Zenon
  <2> QED
    BY <1>4, <2>1, ActorFacts, DeviceKept, Zenon DEF Completing
<1> QED
  BY <1>5, <1>6, <1>7, Zenon DEF IrpInv

(* release_irp_tracking takes the request from the device and the thread.  *)
LEMMA TrackingEffect ==
  ASSUME Types, NEW i \in IrpId, ReleaseTracking(i)
  PROVE  /\ issued' \in [IoThread -> SUBSET IrpId]
         /\ devPending' = devPending \ {i}
         /\ drained' = drained \/ drained' = Signal(drained)
BY Zenon DEF ReleaseTracking, Types

(* io_complete stops tracking the request of its device and signals a      *)
(* drain that waits for the last.                                          *)
LEMMA ReleaseSafe ==
  ASSUME IrpInv, NEW a \in Actor, Release(a)
  PROVE  IrpInv'
<1> Types /\ RequestInv /\ DeviceInv
  BY Zenon DEF IrpInv
<1>1. cur[a] \in IrpId /\ step[a] = "release"
  BY Zenon DEF Release, RequestInv, ActorsOK, Completing
<1>2. /\ issued' \in [IoThread -> SUBSET IrpId]
      /\ devPending' = devPending \ {cur[a]}
      /\ drained' = drained \/ drained' = Signal(drained)
  BY <1>1, TrackingEffect, Zenon DEF Release
<1>3. "finish" \in Places(a) \cap PcValues
  BY Zenon DEF Places, PcValues, Completing
<1>4. step' \in [Actor -> PcValues] /\ step'[a] = "finish" /\ \A b \in Actor : b # a => step'[b] = step[b]
  BY <1>3, GotoEffect, Zenon DEF Release
<1>5. Types'
  BY <1>2, <1>4, Zenon DEF Types, Release, kbdVars
<1>6. \A i \in IrpId : i \in devPending /\ (i \in Elems(queue) \/ ~InHand(i)) => i \in devPending'
  <2>1. cur[a] \notin Elems(queue) /\ InHand(cur[a])
    BY <1>1, Zenon DEF RequestInv, QueueOK, InHand, Completing
  <2> QED
    BY <1>2, <2>1, Zenon
<1>7. RequestInv'
  <2>1. UNCHANGED <<irp, queue, cur, call, todo, req>> /\ StepTo(a, "finish")
    BY Zenon DEF Release
  <2> QED
    BY <1>1, <1>3, <1>6, <2>1, MoveSafe, Zenon DEF Completing
<1>8. DeviceInv'
  <2>1. UNCHANGED <<devState, works, refs, removing, ctx, todo>>
    BY Zenon DEF Release, kbdVars
  <2> QED
    BY <1>1, <1>2, <1>4, <2>1, ActorFacts, DeviceKept, Zenon DEF Completing
<1> QED
  BY <1>5, <1>7, <1>8, Zenon DEF IrpInv

(* The end of io_complete: the waiter is signalled, and what is freed was  *)
(* in nobody else's hands.                                                 *)
LEMMA FinishSafe ==
  ASSUME IrpInv, NEW a \in Actor, Finish(a)
  PROVE  IrpInv'
<1> Types /\ RequestInv /\ DeviceInv
  BY Zenon DEF IrpInv
<1> DEFINE i == cur[a]
           w == call[a].ret
<1>1. /\ i \in IrpId /\ step[a] = "finish" /\ Allocated(i) /\ w \in Returns(a)
      /\ w \in PcValues
  BY Zenon DEF Finish, RequestInv, ActorsOK, Completing, Types
<1>2. step' \in [Actor -> PcValues] /\ step'[a] = w /\ \A b \in Actor : b # a => step'[b] = step[b]
  BY <1>1, GotoEffect DEF Finish
<1>3. /\ irp' \in [IrpId -> Irps]
      /\ irp'[i].done /\ irp'[i].mem # "unused"
      /\ \A j \in IrpId : j # i => irp'[j] = irp[j]
      /\ call[a].status = "Cancelled" => irp'[i].mem = "live"
  <2> DEFINE r == IF call[a].status = "Cancelled"
                  THEN [irp[i] EXCEPT !.done = TRUE, !.completed = TRUE]
                  ELSE [Freed(i) EXCEPT !.done = TRUE]
  <2>1. irp' = [irp EXCEPT ![i] = r]
    BY Zenon DEF Finish
  <2>2. irp[i] \in Irps /\ irp[i].mem = "live"
    BY <1>1, Zenon DEF Types, Allocated
  <2>3. /\ r \in Irps /\ r.done = TRUE /\ r.mem # "unused"
        /\ call[a].status = "Cancelled" => r.mem = "live"
    <3>1. CASE call[a].status = "Cancelled"
      BY <2>2, <3>1, DoneEffect, Zenon
    <3>2. CASE call[a].status # "Cancelled"
      <4>1. Freed(i) \in Irps /\ Freed(i).mem = "freed"
        BY <1>1, FreedEffect, Zenon
      <4>2. "freed" # "unused" /\ "freed" # "live"
        BY Zenon
      <4> QED
        BY <3>2, <4>1, <4>2, DoneEffect, Zenon
    <3> QED
      BY <3>1, <3>2, Zenon
  <2> HIDE DEF r, i
  <2> QED
    BY <1>1, <2>1, <2>3, IrpEffect, Zenon
<1>4. /\ call' \in [Actor -> [status : Statuses, skip : BOOLEAN, ret : PcValues]]
      /\ \A b \in Actor : b # a => call'[b] = call[b]
  BY Zenon DEF Finish, Types, NoCall, Statuses, PcValues
<1>5. /\ cur' \in [Actor -> IrpId \cup {NoIrp}]
      /\ \A b \in Actor : b # a => cur'[b] = cur[b]
      /\ cur'[a] = IF w = "unlock" THEN i ELSE NoIrp
  BY Zenon DEF Finish, Types
<1>6. UNCHANGED <<devVars, kbdVars, issued, req, queue, todo>>
  BY Zenon DEF Finish
<1> HIDE DEF i, w
<1>7. Types'
  BY <1>2, <1>3, <1>4, <1>5, <1>6, Zenon DEF Types, devVars, kbdVars
<1>8. DeviceInv'
  <2>1. a = Pnp => w = "fail"
    BY <1>1, PlaceFacts, Zenon
  <2>2. a = Dw => w = "start"
    BY <1>1, PlaceFacts, Zenon
  <2> QED
    BY <1>1, <1>2, <1>6, <2>1, <2>2, ActorFacts, DeviceKept, Zenon DEF Completing, devVars, kbdVars
<1>9. w \in {"start", "fail", "unlock", "return"} /\ w \in Places(a)
  BY <1>1 DEF Places, Returns
<1>10. NoIrp \notin IrpId /\ IoThread \subseteq Actor /\ Dw \in Actor /\ Pnp \in Actor
  BY ActorFacts, Zenon
<1>11. WithDriver' = WithDriver /\ \A j \in IrpId \ {i} : InHand(j)' <=> InHand(j)
  BY <1>1, <1>5, <1>6, <1>10, Zenon DEF WithDriver, InHand, i
<1>12. ActorsOK'
  <2>1. \A b \in Actor : b # a /\ step[b] = "unlock" => irp'[cur[b]].done
    BY <1>3, Zenon DEF RequestInv, ActorsOK, Completing
  <2>2. ASSUME NEW b \in Actor, b # a
        PROVE  /\ step'[b] \in Places(b)
               /\ step'[b] \in Completing => call'[b].ret \in Returns(b)
               /\ cur'[b] \in IrpId <=> step'[b] \in Completing \cup {"routine", "unlock"}
               /\ step'[b] = "unlock" => irp'[cur'[b]].done
    BY <1>2, <1>4, <1>5, <2>1, <2>2, Zenon DEF RequestInv, ActorsOK
  <2>3. /\ step'[a] \in Places(a) /\ step'[a] \notin Completing
        /\ cur'[a] \in IrpId <=> step'[a] \in Completing \cup {"routine", "unlock"}
        /\ step'[a] = "unlock" => irp'[cur'[a]].done
    BY <1>1, <1>2, <1>3, <1>5, <1>9, <1>10, Zenon DEF Completing
  <2> QED
    BY <2>2, <2>3, Zenon DEF ActorsOK
<1>13. RequestsOK'
  <2>1. \A j \in IrpId : irp'[j].mem = "unused" => j # i /\ irp[j].mem = "unused" /\ ~InHand(j)'
    BY <1>3, <1>11, Zenon DEF RequestInv, RequestsOK
  <2>2. \A t \in IoThread : step'[t] \in {"dispatch", "setcancel", "undo", "wait"} => step'[t] = step[t]
    BY <1>2, <1>9, <1>10, Zenon
  <2> QED
    BY <1>6, <2>1, <2>2, Zenon DEF RequestInv, RequestsOK
<1>14. DispatchOK'
  <2> SUFFICES ASSUME NEW t \in IoThread, step'[t] = "dispatch"
               PROVE  /\ Allocated(req[t])' /\ ~irp'[req'[t]].routine
                      /\ req'[t] \in devPending' /\ ~InHand(req[t])'
    BY Zenon DEF DispatchOK
  <2>1. t # a /\ step[t] = "dispatch" /\ req'[t] = req[t]
    BY <1>2, <1>6, <1>9, <1>10, Zenon
  <2>2. req[t] \in IrpId /\ ~InHand(req[t])
    BY <2>1, Zenon DEF RequestInv, RequestsOK, DispatchOK
  <2>3. req[t] # i
    BY <2>2, Zenon DEF InHand, i
  <2> QED
    BY <1>3, <1>6, <1>11, <2>1, <2>2, <2>3, Zenon DEF RequestInv, DispatchOK, Allocated, devVars
<1>15. QueueOK'
  <2>1. i \notin Elems(queue)
    BY <1>1, Zenon DEF RequestInv, QueueOK, Completing, i
  <2>2. \A b \in Actor : step'[b] \in Completing \cup {"unlock"} => cur'[b] \notin Elems(queue')
    BY <1>2, <1>5, <1>6, <1>9, <2>1, Zenon DEF RequestInv, QueueOK, Completing
  <2> QED
    BY <1>6, <2>2, Zenon DEF RequestInv, QueueOK, devVars
<1>16. WaitsOK'
  <2> SUFFICES ASSUME NEW t \in IoThread, step'[t] \in {"wait", "setcancel"}, ~irp'[req'[t]].done
               PROVE  /\ step'[t] = "wait" => InHand(req[t])'
                      /\ step'[t] = "wait" /\ Allocated(req[t])' /\ irp'[req'[t]].cancelled
                           => \E b \in Actor : cur'[b] = req'[t]
                      /\ step'[t] = "wait" /\ Allocated(req[t])' /\ ~irp'[req'[t]].routine
                           => cur'[Dw] = req'[t]
                      /\ step'[t] = "setcancel" /\ Allocated(req[t])' => InHand(req[t])'
    BY Zenon DEF WaitsOK
  <2>1. t # a /\ step'[t] = step[t] /\ req'[t] = req[t] /\ req[t] \in IrpId /\ req[t] # i
    BY <1>2, <1>3, <1>6, <1>9, <1>10, Zenon DEF RequestInv, RequestsOK
  <2>2. irp'[req[t]] = irp[req[t]] /\ (InHand(req[t])' <=> InHand(req[t]))
        /\ \A b \in Actor : cur[b] = req[t] => cur'[b] = req[t]
    BY <1>3, <1>5, <1>6, <1>11, <2>1, Zenon DEF i
  <2> QED
    BY <1>10, <2>1, <2>2 DEF RequestInv, WaitsOK, Allocated
<1>17. ServersOK'
  <2>1. ASSUME NEW b \in Actor, NEW j \in IrpId, HasIrp(b, j)' PROVE HasIrp(b, j)
    BY <1>2, <1>4, <1>5, <1>6, <1>9, <2>1, Zenon DEF HasIrp, Completing
  <2>2. call[a].status # "Cancelled" => i \notin WithDriver
    <3> SUFFICES ASSUME call[a].status # "Cancelled" PROVE i \notin WithDriver
      BY Zenon
    <3>1. HasIrp(a, i) /\ (a \in {Dw, Pnp} => i \notin todo[a])
      BY <1>1, Zenon DEF HasIrp, Completing, i, RequestInv, ServersOK
    <3> QED
      BY <1>1, <1>10, <3>1, Zenon DEF RequestInv, ServersOK, WithDriver, HasIrp
  <2>3. ASSUME NEW j \in WithDriver' PROVE Allocated(j)'
    <3>1. j \in WithDriver /\ j \in IrpId
      BY <1>11, DriverTyped, Zenon
    <3> QED
      BY <1>3, <2>2, <3>1, Zenon DEF RequestInv, ServersOK, Allocated
  <2>4. \A b \in {Dw, Pnp} : cur'[b] \notin todo'[b]
    <3>1. \A b \in {Dw, Pnp} : cur'[b] = cur[b] \/ cur'[b] = NoIrp
      BY <1>5, <1>10, Zenon DEF i
    <3>2. \A b \in {Dw, Pnp} : NoIrp \notin todo[b] /\ cur[b] \notin todo[b] /\ todo'[b] = todo[b]
      BY <1>6, <1>10, Zenon DEF RequestInv, ServersOK, Types
    <3> QED
      BY <3>1, <3>2, Zenon
  <2> QED
    BY <1>6, <2>1, <2>3, <2>4, Zenon DEF RequestInv, ServersOK
<1>18. RequestInv'
  BY <1>12, <1>13, <1>14, <1>15, <1>16, <1>17, Zenon DEF RequestInv
<1> QED
  BY <1>7, <1>8, <1>18, Zenon DEF IrpInv

-----------------------------------------------------------------------------
(* io_request_sync and dispatch_read.                                       *)

(* A reader that is not the worker, the PnP worker or the killer.          *)
LEMMA ReaderDevice ==
  ASSUME DeviceInv, NEW a \in IoThread \cup {Killer},
         \A b \in Actor : b # a => step'[b] = step[b],
         UNCHANGED <<devState, drained, works, refs, removing, ctx>>,
         todo'[Dw] = todo[Dw], todo'[Pnp] = todo[Pnp],
         devState # "Started" => devPending' \subseteq devPending
  PROVE  DeviceInv'
BY ActorFacts, DeviceKept, Zenon

(* A thread allocates an IRP and is counted by the device.                 *)
LEMMA RequestSafe ==
  ASSUME IrpInv, NEW t \in IoThread, NEW i \in IrpId, Request(t, i)
  PROVE  IrpInv'
<1> Types /\ RequestInv /\ DeviceInv
  BY Zenon DEF IrpInv
<1>1. t \in Actor /\ "dispatch" \in PcValues /\ "dispatch" \in Places(t)
  BY ActorFacts, PlaceFacts, Zenon DEF PcValues
<1>2. /\ step' \in [Actor -> PcValues] /\ step'[t] = "dispatch"
      /\ \A b \in Actor : b # t => step'[b] = step[b]
  BY <1>1, GotoEffect, Zenon DEF Request
<1>3. /\ irp' \in [IrpId -> Irps]
      /\ irp'[i] = NewIrp(t) /\ \A j \in IrpId : j # i => irp'[j] = irp[j]
      /\ irp[i].mem = "unused"
      /\ issued' \in [IoThread -> SUBSET IrpId]
      /\ devPending' = devPending \cup {i} /\ devState = "Started"
  BY Zenon DEF Request, AllocateIrp, AllowedIn, Types, Irps, NewIrp
<1>4. req' = [req EXCEPT ![t] = i] /\ step[t] = "idle"
      /\ UNCHANGED <<devState, drained, stops, kbdVars, queue, cur, todo, call>>
  BY Zenon DEF Request
<1>5. req'[t] = i /\ \A u \in IoThread : u # t => req'[u] = req[u]
  BY <1>4, Zenon DEF Types
<1>6. Types'
  BY <1>2, <1>3, <1>4, Zenon DEF Types, kbdVars
<1>7. DeviceInv'
  BY <1>2, <1>3, <1>4, ReaderDevice, Zenon DEF kbdVars
<1>8. WithDriver' = WithDriver /\ \A j : InHand(j)' <=> InHand(j)
  BY <1>4, Zenon DEF WithDriver, InHand
<1>9. ~InHand(i) /\ \A u \in IoThread : req[u] # i
  BY <1>3, Zenon DEF RequestInv, RequestsOK
<1>10. \A b \in Actor : cur[b] # i
  BY <1>9, Zenon DEF InHand
<1>11. NoIrp \notin IrpId /\ IoThread \subseteq Actor /\ Dw \in Actor /\ Pnp \in Actor
  BY ActorFacts, Zenon
<1>12. irp'[i].mem = "live" /\ irp'[i].routine = FALSE
  BY <1>3 DEF NewIrp
<1>13. ActorsOK'
  <2>1. \A b \in Actor : step[b] = "unlock" => irp'[cur[b]].done
    BY <1>3, <1>10, Zenon DEF RequestInv, ActorsOK
  <2> QED
    BY <1>1, <1>2, <1>4, <2>1, Zenon DEF RequestInv, ActorsOK, Completing
<1>14. RequestsOK'
  BY <1>2, <1>3, <1>5, <1>8, <1>9, <1>11, <1>12 DEF RequestInv, RequestsOK
<1>15. DispatchOK'
  <2> SUFFICES ASSUME NEW u \in IoThread, step'[u] = "dispatch"
               PROVE  /\ Allocated(req[u])' /\ ~irp'[req'[u]].routine
                      /\ req'[u] \in devPending' /\ ~InHand(req[u])'
    BY Zenon DEF DispatchOK
  <2>1. CASE u = t
    BY <1>3, <1>5, <1>8, <1>9, <1>12, <2>1, Zenon DEF Allocated
  <2>2. CASE u # t
    <3>1. step[u] = "dispatch" /\ req'[u] = req[u]
      BY <1>2, <1>5, <1>11, <2>2, Zenon
    <3>2. req[u] \in IrpId /\ req[u] # i
      BY <1>9, <3>1, Zenon DEF RequestInv, RequestsOK
    <3> QED
      BY <1>3, <1>8, <3>1, <3>2, Zenon DEF RequestInv, DispatchOK, Allocated
  <2> QED
    BY <2>1, <2>2, Zenon
<1>16. QueueOK'
  BY <1>2, <1>3, <1>4, Zenon DEF RequestInv, QueueOK, Completing
<1>17. WaitsOK'
  <2> SUFFICES ASSUME NEW u \in IoThread, step'[u] \in {"wait", "setcancel"}, ~irp'[req'[u]].done
               PROVE  /\ step'[u] = "wait" => InHand(req[u])'
                      /\ step'[u] = "wait" /\ Allocated(req[u])' /\ irp'[req'[u]].cancelled
                           => \E b \in Actor : cur'[b] = req'[u]
                      /\ step'[u] = "wait" /\ Allocated(req[u])' /\ ~irp'[req'[u]].routine
                           => cur'[Dw] = req'[u]
                      /\ step'[u] = "setcancel" /\ Allocated(req[u])' => InHand(req[u])'
    BY Zenon DEF WaitsOK
  <2>1. u # t /\ step'[u] = step[u] /\ req'[u] = req[u]
    BY <1>2, <1>5, <1>11, Zenon
  <2>2. req[u] \in IrpId /\ req[u] # i
    BY <1>9, <2>1, Zenon DEF RequestInv, RequestsOK
  <2>3. irp'[req[u]] = irp[req[u]] /\ (InHand(req[u])' <=> InHand(req[u])) /\ cur' = cur
    BY <1>3, <1>4, <1>8, <2>1, <2>2, Zenon
  <2> QED
    BY <2>1, <2>2, <2>3, Zenon DEF RequestInv, WaitsOK, Allocated
<1>18. ServersOK'
  <2>1. \A b \in Actor : \A j \in IrpId : HasIrp(b, j)' => HasIrp(b, j)
    BY <1>2, <1>4, Zenon DEF HasIrp, Completing
  <2>2. ASSUME NEW j \in WithDriver PROVE Allocated(j)'
    <3>1. j # i /\ j \in IrpId
      BY <1>9, <1>11, DriverTyped, Zenon DEF InHand
    <3> QED
      BY <1>3, <3>1, Zenon DEF RequestInv, ServersOK, Allocated
  <2> QED
    BY <1>4, <1>8, <2>1, <2>2, Zenon DEF RequestInv, ServersOK
<1>19. RequestInv'
  BY <1>13, <1>14, <1>15, <1>16, <1>17, <1>18, Zenon DEF RequestInv
<1> QED
  BY <1>6, <1>7, <1>19, Zenon DEF IrpInv

(* The driver completes a request it has just got, or refuses it.          *)
LEMMA DispatchTakes ==
  ASSUME IrpInv, NEW t \in IoThread, step[t] = "dispatch", NEW st \in Statuses,
         Complete(t, req[t], st, "return"),
         UNCHANGED <<devVars, reqVars, scan, works, refs, removing, ctx, queue, todo>>,
         keys' \in Nat
  PROVE  IrpInv'
<1> Types /\ RequestInv /\ DeviceInv
  BY Zenon DEF IrpInv
<1>1. t \in Actor /\ Dw \in Actor /\ Pnp \in Actor
  BY ActorFacts, Zenon
<1>2. "return" \in Returns(t) \cap PcValues
  BY PlaceFacts, Zenon DEF PcValues
<1>3. req[t] \in IrpId /\ irp[req[t]].mem # "unused" /\ ~InHand(req[t])
  BY Zenon DEF RequestInv, RequestsOK, DispatchOK
<1>4. \A u \in IoThread : req[u] = req[t] => u = t
  BY <1>3, ActorFacts, Zenon DEF RequestInv, RequestsOK
<1>5. /\ step' \in [Actor -> PcValues] /\ cur' \in [Actor -> IrpId \cup {NoIrp}]
      /\ call' \in [Actor -> [status : Statuses, skip : BOOLEAN, ret : PcValues]]
      /\ \A b \in Actor : b # t => step'[b] = step[b]
  BY <1>1, <1>2, <1>3, CompleteEffect, Zenon
<1>6. Types'
  BY <1>5, Zenon DEF Types, devVars, reqVars
<1>7. DeviceInv'
  BY <1>5, ReaderDevice, Zenon DEF devVars
<1>8. \A b \in Actor : ~HasIrp(b, req[t])
  BY <1>3, Zenon DEF HasIrp, InHand, WithDriver
<1>9. req[t] \notin Elems(queue) /\ Distinct(queue) /\ \A b \in {Dw, Pnp} : req[t] \notin todo[b]
  BY <1>3, Zenon DEF InHand, WithDriver, RequestInv, QueueOK
<1>10. RequestInv'
  <2>1. UNCHANGED <<irp, req, devPending, queue, todo>>
    BY Zenon DEF devVars, reqVars
  <2>2. step[t] \notin Completing \cup {"unlock"} /\ step[t] # "routine"
    BY Zenon DEF Completing
  <2>3. Distinct(queue') /\ Elems(queue') = Elems(queue) \ {req[t]}
    BY <1>9, <2>1, Zenon
  <2>4. Takes(t, req[t], st)
    BY <1>1, <1>3, <1>4, <1>8, <1>9, <2>1, <2>2, <2>3, Zenon DEF Takes
  <2> QED
    BY <1>1, <1>2, <1>3, <2>4, TakeSafe, Zenon
<1> QED
  BY <1>6, <1>7, <1>10, Zenon DEF IrpInv

(* dispatch_read of the keyboard serves the request at once or puts it on  *)
(* the list.                                                               *)
LEMMA DispatchReadSafe ==
  ASSUME IrpInv, NEW t \in IoThread, DispatchRead(t)
  PROVE  IrpInv'
<1> Types /\ RequestInv /\ DeviceInv
  BY Zenon DEF IrpInv
<1>1. ASSUME keys > 0, keys' = keys - 1, Complete(t, req[t], "Success", "return"), UNCHANGED queue
      PROVE  IrpInv'
  <2>1. keys' \in Nat
    BY <1>1 DEF Types
  <2>2. "Success" \in Statuses
    BY Zenon DEF Statuses
  <2> QED
    BY <1>1, <2>1, <2>2, DispatchTakes, Zenon DEF DispatchRead
<1>2. ASSUME Len(queue) < MaxPending, queue' = Append(queue, req[t]), StepTo(t, "setcancel"),
             UNCHANGED <<keys, cur, call>>
      PROVE  IrpInv'
  <2> DEFINE i == req[t]
  <2>1. t \in Actor /\ "setcancel" \in PcValues /\ "setcancel" \in Places(t)
    BY ActorFacts, PlaceFacts, Zenon DEF PcValues
  <2>2. /\ step' \in [Actor -> PcValues] /\ step'[t] = "setcancel" /\ step[t] = "dispatch"
        /\ \A b \in Actor : b # t => step'[b] = step[b]
    BY <1>2, <2>1, GotoEffect, Zenon DEF DispatchRead
  <2>3. UNCHANGED <<devVars, reqVars, scan, works, refs, removing, ctx, todo, cur, call>>
    BY <1>2, Zenon DEF DispatchRead
  <2>4. /\ i \in IrpId /\ Allocated(i) /\ i \in devPending /\ ~InHand(i)
    BY <2>2, Zenon DEF RequestInv, RequestsOK, DispatchOK
  <2>5. /\ queue' \in Seq(IrpId) /\ Len(queue') = Len(queue) + 1
        /\ Elems(queue') = Elems(queue) \cup {i} /\ Distinct(queue')
    BY <1>2, <2>4, AppendEffect DEF Types, InHand, WithDriver, RequestInv, QueueOK
  <2> HIDE DEF i
  <2>6. Types'
    <3>1. Len(queue') <= MaxPending
      BY <1>2, <2>5, ActorFacts DEF Types
    <3> QED
      BY <1>2, <2>2, <2>3, <2>5, <3>1, Zenon DEF Types, devVars, reqVars
  <2>7. DeviceInv'
    BY <2>2, <2>3, ReaderDevice, Zenon DEF devVars
  <2>8. NoIrp \notin IrpId /\ IoThread \subseteq Actor /\ Dw \in Actor /\ Pnp \in Actor
    BY ActorFacts, Zenon
  <2>9. /\ WithDriver' = WithDriver \cup {i}
        /\ \A j \in IrpId : InHand(j)' <=> InHand(j) \/ j = i
        /\ UNCHANGED <<irp, req, devPending>>
    BY <2>3, <2>5, Zenon DEF WithDriver, InHand, devVars, reqVars
  <2>10. \A u \in IoThread : req[u] = i => u = t
    BY <2>4, <2>8, Zenon DEF RequestInv, RequestsOK, i
  <2>11. ActorsOK'
    BY <2>1, <2>2, <2>3, <2>9, Zenon DEF RequestInv, ActorsOK, Completing
  <2>12. RequestsOK'
    BY <2>2, <2>4, <2>8, <2>9, Zenon DEF RequestInv, RequestsOK, i, Allocated
  <2>13. DispatchOK'
    <3> SUFFICES ASSUME NEW u \in IoThread, step'[u] = "dispatch"
                 PROVE  /\ Allocated(req[u])' /\ ~irp'[req'[u]].routine
                        /\ req'[u] \in devPending' /\ ~InHand(req[u])'
      BY Zenon DEF DispatchOK
    <3>1. u # t /\ step[u] = "dispatch" /\ req[u] \in IrpId /\ req[u] # i
      BY <2>2, <2>8, <2>10, Zenon DEF RequestInv, RequestsOK
    <3> QED
      BY <2>9, <3>1, Zenon DEF RequestInv, DispatchOK, Allocated
  <2>14. QueueOK'
    <3>1. \A b \in Actor : cur[b] # i
      BY <2>4, Zenon DEF InHand
    <3> QED
      BY <2>2, <2>3, <2>4, <2>5, <2>9, <3>1, Zenon DEF RequestInv, QueueOK, Completing
  <2>15. WaitsOK'
    <3> SUFFICES ASSUME NEW u \in IoThread, step'[u] \in {"wait", "setcancel"}, ~irp[req[u]].done
                 PROVE  /\ step'[u] = "wait" => InHand(req[u])'
                        /\ step'[u] = "wait" /\ Allocated(req[u]) /\ irp[req[u]].cancelled
                             => \E b \in Actor : cur[b] = req[u]
                        /\ step'[u] = "wait" /\ Allocated(req[u]) /\ ~irp[req[u]].routine
                             => cur[Dw] = req[u]
                        /\ step'[u] = "setcancel" /\ Allocated(req[u]) => InHand(req[u])'
      BY <2>3, <2>9, Zenon DEF WaitsOK, Allocated
    <3>1. CASE u = t
      BY <2>2, <2>4, <2>9, <3>1, Zenon DEF i
    <3>2. CASE u # t
      <4>1. step[u] = step'[u] /\ req[u] \in IrpId
        BY <2>2, <2>8, <3>2, Zenon DEF RequestInv, RequestsOK
      <4> QED
        BY <2>9, <4>1, Zenon DEF RequestInv, WaitsOK
    <3> QED
      BY <3>1, <3>2, Zenon
  <2>16. ServersOK'
    <3>1. \A b \in Actor : \A j \in IrpId : HasIrp(b, j)' => HasIrp(b, j)
      BY <2>2, <2>3, Zenon DEF HasIrp, Completing
    <3>2. \A b \in Actor : ~HasIrp(b, i)
      BY <2>4, Zenon DEF HasIrp, InHand, WithDriver
    <3> QED
      BY <2>3, <2>4, <2>5, <2>9, <3>1, <3>2 DEF RequestInv, ServersOK, Allocated
  <2>17. RequestInv'
    BY <2>11, <2>12, <2>13, <2>14, <2>15, <2>16, Zenon DEF RequestInv
  <2> QED
    BY <2>6, <2>7, <2>17, Zenon DEF IrpInv
<1> QED
  BY <1>1, <1>2, Zenon DEF DispatchRead

(* A request that is refused fails at once.                                *)
LEMMA DispatchRefusedSafe ==
  ASSUME IrpInv, NEW t \in IoThread, DispatchRefused(t)
  PROVE  IrpInv'
<1>1. keys' \in Nat
  BY Zenon DEF DispatchRefused, kbdVars, IrpInv, Types
<1>2. "Failed" \in Statuses
  BY Zenon DEF Statuses
<1> QED
  BY <1>1, <1>2, DispatchTakes, Zenon DEF DispatchRefused, kbdVars

(* io_set_cancel_routine: from here the thread counts on being completed.  *)
LEMMA SetCancelSafe ==
  ASSUME IrpInv, NEW t \in IoThread, SetCancelRoutine(t)
  PROVE  IrpInv'
<1> Types /\ RequestInv /\ DeviceInv
  BY Zenon DEF IrpInv
<1> DEFINE i == req[t]
<1>1. /\ t \in Actor /\ {"undo", "wait"} \subseteq PcValues /\ {"undo", "wait"} \subseteq Places(t)
      /\ NoIrp \notin IrpId /\ IoThread \subseteq Actor /\ Dw \in Actor /\ Pnp \in Actor
  BY ActorFacts, PlaceFacts, Zenon DEF PcValues
<1>2. step[t] = "setcancel" /\ i \in IrpId /\ Allocated(i)
      /\ UNCHANGED <<devVars, kbdVars, issued, req, queue, cur, todo, call>>
  BY Zenon DEF SetCancelRoutine, RequestInv, RequestsOK
<1>3. CASE StepTo(t, "undo") /\ UNCHANGED irp
  <2>1. /\ step' \in [Actor -> PcValues] /\ step'[t] = "undo"
        /\ \A b \in Actor : b # t => step'[b] = step[b]
    BY <1>1, <1>3, GotoEffect, Zenon
  <2>2. Types'
    BY <1>2, <1>3, <2>1, Zenon DEF Types, devVars, kbdVars
  <2>3. DeviceInv'
    BY <1>2, <2>1, ReaderDevice, Zenon DEF devVars, kbdVars
  <2>4. RequestInv'
    BY <1>1, <1>2, <1>3, MoveSafe, Zenon DEF devVars, Completing
  <2> QED
    BY <2>2, <2>3, <2>4, Zenon DEF IrpInv
<1>4. CASE ~irp[i].cancelled /\ StepTo(t, "wait") /\ irp' = [irp EXCEPT ![i].routine = TRUE]
  <2>1. /\ step' \in [Actor -> PcValues] /\ step'[t] = "wait"
        /\ \A b \in Actor : b # t => step'[b] = step[b]
    BY <1>1, <1>4, GotoEffect, Zenon
  <2>2. /\ irp' \in [IrpId -> Irps]
        /\ irp'[i].routine = TRUE
        /\ \A j \in IrpId : /\ irp'[j].mem = irp[j].mem /\ irp'[j].done = irp[j].done
                            /\ irp'[j].cancelled = irp[j].cancelled
                            /\ j # i => irp'[j] = irp[j]
    <3> DEFINE r == [irp[i] EXCEPT !.routine = TRUE]
    <3>1. irp' = [irp EXCEPT ![i] = r] /\ irp[i] \in Irps
      BY <1>2, <1>4, Zenon DEF Types
    <3>2. /\ r \in Irps /\ r.routine = TRUE /\ r.mem = irp[i].mem /\ r.done = irp[i].done
          /\ r.cancelled = irp[i].cancelled
      BY <3>1, RoutineEffect, Zenon
    <3> HIDE DEF r, i
    <3> QED
      BY <1>2, <3>1, <3>2, IrpEffect, Zenon
  <2> HIDE DEF i
  <2>3. Types'
    BY <1>2, <2>1, <2>2, Zenon DEF Types, devVars, kbdVars
  <2>4. DeviceInv'
    BY <1>2, <2>1, ReaderDevice, Zenon DEF devVars, kbdVars
  <2>5. WithDriver' = WithDriver /\ \A j : InHand(j)' <=> InHand(j)
    BY <1>2, Zenon DEF WithDriver, InHand
  <2>6. \A u \in IoThread : req[u] = i => u = t
    BY <1>1, <1>2, Zenon DEF RequestInv, RequestsOK, i
  <2>7. ActorsOK'
    <3>1. \A b \in Actor : step[b] = "unlock" => irp'[cur[b]].done
      BY <2>2, Zenon DEF RequestInv, ActorsOK
    <3> QED
      BY <1>1, <1>2, <2>1, <3>1, Zenon DEF RequestInv, ActorsOK, Completing
  <2>8. RequestsOK'
    BY <1>1, <1>2, <2>1, <2>2, <2>5 DEF RequestInv, RequestsOK, i
  <2>9. DispatchOK'
    <3> SUFFICES ASSUME NEW u \in IoThread, step'[u] = "dispatch"
                 PROVE  /\ Allocated(req[u])' /\ ~irp'[req'[u]].routine
                        /\ req'[u] \in devPending' /\ ~InHand(req[u])'
      BY Zenon DEF DispatchOK
    <3>1. u # t /\ step[u] = "dispatch" /\ req[u] \in IrpId /\ req[u] # i
      BY <1>1, <2>1, <2>6, Zenon DEF RequestInv, RequestsOK
    <3> QED
      BY <1>2, <2>2, <2>5, <3>1, Zenon DEF RequestInv, DispatchOK, Allocated, devVars
  <2>10. QueueOK'
    BY <1>2, <2>1, Zenon DEF RequestInv, QueueOK, Completing, devVars
  <2>11. WaitsOK'
    <3> SUFFICES ASSUME NEW u \in IoThread, step'[u] \in {"wait", "setcancel"}, ~irp'[req[u]].done
                 PROVE  /\ step'[u] = "wait" => InHand(req[u])
                        /\ step'[u] = "wait" /\ Allocated(req[u])' /\ irp'[req[u]].cancelled
                             => \E b \in Actor : cur[b] = req[u]
                        /\ step'[u] = "wait" /\ Allocated(req[u])' /\ ~irp'[req[u]].routine
                             => cur[Dw] = req[u]
                        /\ step'[u] = "setcancel" /\ Allocated(req[u])' => InHand(req[u])
      BY <1>2, <2>5, Zenon DEF WaitsOK
    <3>1. CASE u = t
      <4>1. irp'[i].cancelled = FALSE /\ ~irp[i].done
        BY <1>2, <1>4, <2>2, <3>1 DEF i, Types, Irps
      <4>2. InHand(i)
        BY <1>2, <4>1, Zenon DEF RequestInv, WaitsOK, i
      <4> QED
        BY <2>1, <2>2, <3>1, <4>1, <4>2, Zenon DEF i
    <3>2. CASE u # t
      <4>1. step[u] = step'[u] /\ req[u] \in IrpId /\ req[u] # i
        BY <1>1, <2>1, <2>6, <3>2, Zenon DEF RequestInv, RequestsOK
      <4>2. irp'[req[u]] = irp[req[u]] /\ req'[u] = req[u]
        BY <1>2, <2>2, <4>1, Zenon
      <4> QED
        BY <4>1, <4>2, Zenon DEF RequestInv, WaitsOK, Allocated
    <3> QED
      BY <3>1, <3>2, Zenon
  <2>12. ServersOK'
    <3>1. \A b \in Actor : \A j \in IrpId : HasIrp(b, j)' => HasIrp(b, j)
      BY <1>2, <2>1, Zenon DEF HasIrp, Completing
    <3>2. WithDriver \subseteq IrpId
      BY DriverTyped, Zenon
    <3> QED
      BY <1>2, <2>2, <2>5, <3>1, <3>2, Zenon DEF RequestInv, ServersOK, Allocated
  <2>13. RequestInv'
    BY <2>7, <2>8, <2>9, <2>10, <2>11, <2>12, Zenon DEF RequestInv
  <2> QED
    BY <2>3, <2>4, <2>13, Zenon DEF IrpInv
<1> QED
  BY <1>3, <1>4, Zenon DEF SetCancelRoutine

(* A cancelled request is taken from the list, by dispatch_read or by the  *)
(* cancel routine, and completed without being freed.                      *)
LEMMA CancelTakes ==
  ASSUME IrpInv, NEW a \in IoThread \cup {Killer}, NEW i \in IrpId,
         NEW ret \in Returns(a), Unqueue(i), Complete(a, i, "Cancelled", ret),
         UNCHANGED <<devVars, kbdVars, reqVars, todo>>,
         step[a] = "undo" \/ (step[a] = "routine" /\ cur[a] = i),
         irp[i].mem # "unused",
         \A t \in IoThread : req[t] = i => step[t] # "dispatch"
  PROVE  IrpInv'
<1> Types /\ RequestInv /\ DeviceInv
  BY Zenon DEF IrpInv
<1>1. a \in Actor /\ Dw \in Actor /\ Pnp \in Actor /\ a # Dw /\ a # Pnp
  BY ActorFacts, Zenon
<1>2. ret \in Returns(a) \cap PcValues /\ "Cancelled" \in Statuses
  BY Zenon DEF Returns, PcValues, Statuses
<1>3. /\ step' \in [Actor -> PcValues] /\ cur' \in [Actor -> IrpId \cup {NoIrp}]
      /\ call' \in [Actor -> [status : Statuses, skip : BOOLEAN, ret : PcValues]]
      /\ \A b \in Actor : b # a => step'[b] = step[b]
  BY <1>1, <1>2, CompleteEffect, Zenon
<1>4. /\ queue' \in Seq(IrpId) /\ Len(queue') <= Len(queue)
      /\ Elems(queue') = Elems(queue) \ {i} /\ Distinct(queue')
  BY UnqueueEffect, Zenon DEF Types, RequestInv, QueueOK
<1>5. Types'
  <2>1. Len(queue') <= MaxPending
    BY <1>4, ActorFacts DEF Types
  <2> QED
    BY <1>3, <1>4, <2>1, Zenon DEF Types, devVars, kbdVars, reqVars
<1>6. DeviceInv'
  BY <1>3, ReaderDevice, Zenon DEF devVars, kbdVars
<1>7. RequestInv'
  <2>1. UNCHANGED <<irp, req, devPending, todo>>
    BY Zenon DEF devVars, reqVars
  <2>2. step[a] \notin Completing \cup {"unlock"}
    BY Zenon DEF Completing
  <2>3. Takes(a, i, "Cancelled")
    BY <1>1, <1>4, <2>1, <2>2, Zenon DEF Takes
  <2> QED
    BY <1>1, <1>2, <2>3, TakeSafe, Zenon
<1> QED
  BY <1>5, <1>6, <1>7, Zenon DEF IrpInv

(* dispatch_read takes a request back that was cancelled before its        *)
(* routine was set.                                                        *)
LEMMA UndoSafe ==
  ASSUME IrpInv, NEW t \in IoThread, UndoQueue(t)
  PROVE  IrpInv'
<1>1. "return" \in Returns(t)
  BY PlaceFacts, Zenon
<1>2. req[t] \in IrpId /\ irp[req[t]].mem # "unused" /\ step[t] = "undo"
  BY Zenon DEF UndoQueue, IrpInv, RequestInv, RequestsOK
<1>3. \A u \in IoThread : req[u] = req[t] => step[u] # "dispatch"
  BY <1>2, ActorFacts, Zenon DEF IrpInv, RequestInv, RequestsOK
<1> QED
  BY <1>1, <1>2, <1>3, CancelTakes, Zenon DEF UndoQueue

(* A thread returns from its read.                                         *)
LEMMA ReturnSafe ==
  ASSUME IrpInv, NEW t \in IoThread, ReturnToCaller(t)
  PROVE  IrpInv'
<1> Types /\ RequestInv /\ DeviceInv
  BY Zenon DEF IrpInv
<1>1. t \in Actor /\ "idle" \in Places(t) \cap PcValues
  BY ActorFacts, PlaceFacts, Zenon DEF PcValues
<1>2. /\ step' \in [Actor -> PcValues] /\ step'[t] = "idle" /\ step[t] \in {"return", "wait"}
      /\ \A b \in Actor : b # t => step'[b] = step[b]
  BY <1>1, GotoEffect, Zenon DEF ReturnToCaller
<1>3. /\ req' = [req EXCEPT ![t] = NoIrp]
      /\ UNCHANGED <<devVars, kbdVars, irp, issued, queue, cur, todo, call>>
  BY Zenon DEF ReturnToCaller
<1>4. Types'
  BY <1>2, <1>3, Zenon DEF Types, devVars, kbdVars
<1>5. DeviceInv'
  BY <1>2, <1>3, ReaderDevice, Zenon DEF devVars, kbdVars
<1>6. RequestInv'
  <2>1. \A u \in IoThread : req'[u] = req[u] \/ (u = t /\ req'[u] = NoIrp)
    BY <1>3, Zenon DEF Types
  <2>2. "idle" \notin Completing /\ step[t] \notin Completing /\ StepTo(t, "idle") /\ UNCHANGED devPending
    BY <1>2, <1>3, Zenon DEF ReturnToCaller, Completing, devVars
  <2> QED
    BY <1>1, <1>2, <1>3, <2>1, <2>2, MoveSafe, Zenon
<1> QED
  BY <1>4, <1>5, <1>6, Zenon DEF IrpInv

(* A reader or the killer begins to cancel what it has found.              *)
LEMMA SweepSafe ==
  ASSUME IrpInv, NEW a \in IoThread \cup {Killer}, StepTo(a, "cancel"),
         step[a] \in {"wait", "idle"}, NEW S \in SUBSET IrpId, todo' = [todo EXCEPT ![a] = S],
         issued' \in [IoThread -> SUBSET IrpId],
         UNCHANGED <<devVars, kbdVars, irp, req, queue, cur, call>>
  PROVE  IrpInv'
<1> Types /\ RequestInv /\ DeviceInv
  BY Zenon DEF IrpInv
<1>1. a \in Actor /\ a # Dw /\ a # Pnp /\ "cancel" \in Places(a) \cap PcValues
  BY ActorFacts, PlaceFacts, Zenon DEF PcValues
<1>2. /\ step' \in [Actor -> PcValues] /\ \A b \in Actor : b # a => step'[b] = step[b]
  BY <1>1, GotoEffect, Zenon DEF PcValues
<1>3. todo' \in [Actor -> SUBSET IrpId] /\ todo'[Dw] = todo[Dw] /\ todo'[Pnp] = todo[Pnp]
  BY <1>1 DEF Types
<1>4. Types'
  BY <1>2, <1>3, Zenon DEF Types, devVars, kbdVars
<1>5. DeviceInv'
  BY <1>2, <1>3, ReaderDevice, Zenon DEF devVars, kbdVars
<1>6. RequestInv'
  <2>1. "cancel" \notin Completing /\ step[a] \notin Completing /\ UNCHANGED devPending
    BY Zenon DEF Completing, devVars
  <2> QED
    BY <1>1, <1>3, <2>1, MoveSafe, Zenon
<1> QED
  BY <1>4, <1>5, <1>6, Zenon DEF IrpInv

(* An interrupted wait collects the requests of its thread to cancel them. *)
LEMMA InterruptedSafe ==
  ASSUME IrpInv, NEW t \in IoThread, Interrupted(t)
  PROVE  IrpInv'
<1> DEFINE S == IF devState \in {"Removing", "Removed"} THEN {}
                ELSE {i \in IrpId \cap devPending : irp[i].owner = t}
<1>1. S \in SUBSET IrpId /\ todo' = [todo EXCEPT ![t] = S]
  BY Zenon DEF Interrupted
<1>2. issued' \in [IoThread -> SUBSET IrpId]
  BY Zenon DEF Interrupted, reqVars, IrpInv, Types
<1> HIDE DEF S
<1> QED
  BY <1>1, <1>2, SweepSafe, Zenon DEF Interrupted, reqVars

(* A termination collects the requests of the thread to cancel them.       *)
LEMMA KillSafe ==
  ASSUME IrpInv, NEW t \in IoThread, Kill(t)
  PROVE  IrpInv'
<1> DEFINE S == IF devState \in {"Removing", "Removed"} THEN {} ELSE issued[t]
<1>1. S \in SUBSET IrpId /\ todo' = [todo EXCEPT ![Killer] = S]
  BY Zenon DEF Kill, IrpInv, Types
<1>2. issued' \in [IoThread -> SUBSET IrpId]
  BY Zenon DEF Kill, IrpInv, Types
<1> HIDE DEF S
<1> QED
  BY <1>1, <1>2, SweepSafe, Zenon DEF Kill

-----------------------------------------------------------------------------
(* Cancellation.                                                            *)

(* cancel_irp: a request without its routine is marked, one with it is     *)
(* taken in hand.                                                          *)
LEMMA CancelIrpSafe ==
  ASSUME IrpInv, NEW a \in IoThread \cup {Killer}, NEW i \in IrpId, CancelIrp(a, i)
  PROVE  IrpInv'
<1> Types /\ RequestInv /\ DeviceInv
  BY Zenon DEF IrpInv
<1>1. /\ a \in Actor /\ a # Dw /\ a # Pnp /\ "routine" \in Places(a) \cap PcValues
      /\ NoIrp \notin IrpId /\ IoThread \subseteq Actor /\ Dw \in Actor /\ Pnp \in Actor
  BY ActorFacts, PlaceFacts, Zenon DEF PcValues
<1>2. /\ step[a] = "cancel" /\ Allocated(i)
      /\ UNCHANGED <<devVars, kbdVars, issued, req, queue, call>>
  BY Zenon DEF CancelIrp
<1>3. todo' \in [Actor -> SUBSET IrpId] /\ todo'[Dw] = todo[Dw] /\ todo'[Pnp] = todo[Pnp]
  BY <1>1, Zenon DEF CancelIrp, Types
<1>4. cur[a] = NoIrp
  BY <1>1, <1>2, Zenon DEF RequestInv, ActorsOK, Completing, Types
<1>5. /\ irp' \in [IrpId -> Irps]
      /\ \A j \in IrpId : /\ irp'[j].mem = irp[j].mem /\ irp'[j].done = irp[j].done
                          /\ irp'[j].routine = irp[j].routine
                          /\ j # i => irp'[j].cancelled = irp[j].cancelled
  <2> DEFINE r == [irp[i] EXCEPT !.cancelled = TRUE]
             l == [r EXCEPT !.lock = a]
  <2>1. irp[i] \in Irps
    BY Zenon DEF Types
  <2>2. r \in Irps /\ r.mem = irp[i].mem /\ r.done = irp[i].done /\ r.routine = irp[i].routine
    BY <2>1, MarkEffect, Zenon
  <2>3. irp' = [irp EXCEPT ![i] = r] \/ irp' = [irp EXCEPT ![i] = l]
    BY Zenon DEF CancelIrp, Types
  <2> HIDE DEF r
  <2>4. l \in Irps /\ l.mem = irp[i].mem /\ l.done = irp[i].done /\ l.routine = irp[i].routine
    BY <1>1, <2>2, LockEffect, Zenon
  <2> HIDE DEF l
  <2> QED
    BY <2>2, <2>3, <2>4, IrpEffect, Zenon
<1>6. \/ (~irp[i].routine \/ irp[i].cancelled) /\ UNCHANGED <<step, cur>>
      \/ irp[i].routine /\ StepTo(a, "routine") /\ cur' = [cur EXCEPT ![a] = i]
  BY Zenon DEF CancelIrp, Types, Irps
<1>7. /\ step' \in [Actor -> PcValues] /\ cur' \in [Actor -> IrpId \cup {NoIrp}]
      /\ \A b \in Actor : b # a => step'[b] = step[b] /\ cur'[b] = cur[b]
      /\ \/ /\ ~irp[i].routine \/ irp[i].cancelled
            /\ step'[a] = "cancel" /\ cur'[a] = NoIrp
         \/ irp[i].routine /\ step'[a] = "routine" /\ cur'[a] = i
  <2>1. CASE (~irp[i].routine \/ irp[i].cancelled) /\ UNCHANGED <<step, cur>>
    BY <1>2, <1>4, <2>1, Zenon DEF Types
  <2>2. CASE irp[i].routine /\ StepTo(a, "routine") /\ cur' = [cur EXCEPT ![a] = i]
    BY <1>1, <2>2, GotoEffect, Zenon DEF Types
  <2> QED
    BY <1>6, <2>1, <2>2, Zenon
<1>8. Types'
  BY <1>2, <1>3, <1>5, <1>7, Zenon DEF Types, devVars, kbdVars
<1>9. DeviceInv'
  BY <1>2, <1>3, <1>7, ReaderDevice, Zenon DEF devVars, kbdVars
<1>10. /\ WithDriver' = WithDriver /\ Elems(queue') = Elems(queue)
       /\ \A j \in IrpId : InHand(j) => InHand(j)'
       /\ \A j \in IrpId : InHand(j)' => InHand(j) \/ (j = i /\ irp[i].routine)
  <2>1. WithDriver' = WithDriver
    BY <1>2, <1>3, Zenon DEF WithDriver
  <2> QED
    BY <1>1, <1>2, <1>4, <1>7, <2>1 DEF InHand
<1>11. ActorsOK'
  <2>1. \A b \in Actor : step[b] = "unlock" => irp'[cur[b]].done
    BY <1>5, Zenon DEF RequestInv, ActorsOK
  <2>2. ASSUME NEW b \in Actor, b # a
        PROVE  /\ step'[b] \in Places(b)
               /\ step'[b] \in Completing => call'[b].ret \in Returns(b)
               /\ cur'[b] \in IrpId <=> step'[b] \in Completing \cup {"routine", "unlock"}
               /\ step'[b] = "unlock" => irp'[cur'[b]].done
    BY <1>2, <1>7, <2>1, <2>2, Zenon DEF RequestInv, ActorsOK
  <2>3. /\ step'[a] \in Places(a) /\ step'[a] \notin Completing
        /\ cur'[a] \in IrpId <=> step'[a] \in Completing \cup {"routine", "unlock"}
        /\ step'[a] # "unlock"
    BY <1>1, <1>2, <1>7, Zenon DEF RequestInv, ActorsOK, Completing
  <2> QED
    BY <2>2, <2>3, Zenon DEF ActorsOK
<1>12. RequestsOK'
  <2>1. \A j \in IrpId : irp'[j].mem = "unused" => ~InHand(j)'
    BY <1>2, <1>5, <1>10, Zenon DEF RequestInv, RequestsOK, Allocated
  <2>2. \A t \in IoThread : step'[t] \in {"dispatch", "setcancel", "undo", "wait"} => step'[t] = step[t]
    BY <1>1, <1>7, Zenon
  <2> QED
    BY <1>2, <1>5, <2>1, <2>2 DEF RequestInv, RequestsOK
<1>13. DispatchOK'
  <2> SUFFICES ASSUME NEW t \in IoThread, step'[t] = "dispatch"
               PROVE  /\ Allocated(req[t])' /\ ~irp'[req'[t]].routine
                      /\ req'[t] \in devPending' /\ ~InHand(req[t])'
    BY Zenon DEF DispatchOK
  <2>1. step[t] = "dispatch" /\ req'[t] = req[t] /\ req[t] \in IrpId
    BY <1>1, <1>2, <1>7, Zenon DEF RequestInv, RequestsOK
  <2> QED
    BY <1>2, <1>5, <1>10, <2>1, Zenon DEF RequestInv, DispatchOK, Allocated, devVars
<1>14. QueueOK'
  BY <1>2, <1>7, <1>10, Zenon DEF RequestInv, QueueOK, Completing, devVars
<1>15. WaitsOK'
  <2> SUFFICES ASSUME NEW t \in IoThread, step'[t] \in {"wait", "setcancel"}, ~irp'[req'[t]].done
               PROVE  /\ step'[t] = "wait" => InHand(req[t])'
                      /\ step'[t] = "wait" /\ Allocated(req[t])' /\ irp'[req'[t]].cancelled
                           => \E b \in Actor : cur'[b] = req'[t]
                      /\ step'[t] = "wait" /\ Allocated(req[t])' /\ ~irp'[req'[t]].routine
                           => cur'[Dw] = req'[t]
                      /\ step'[t] = "setcancel" /\ Allocated(req[t])' => InHand(req[t])'
    BY Zenon DEF WaitsOK
  <2>1. step'[t] = step[t] /\ req'[t] = req[t] /\ req[t] \in IrpId
    BY <1>1, <1>2, <1>7, Zenon DEF RequestInv, RequestsOK
  <2>2. /\ ~irp[req[t]].done /\ (Allocated(req[t])' <=> Allocated(req[t]))
        /\ irp'[req[t]].routine = irp[req[t]].routine
    BY <1>5, <2>1, Zenon DEF Allocated
  <2>3. \A b \in Actor : cur[b] = req[t] => cur'[b] = req[t]
    BY <1>1, <1>4, <1>7, <2>1, Zenon
  <2>4. /\ step[t] = "wait" => InHand(req[t])
        /\ step[t] = "wait" /\ Allocated(req[t]) /\ irp[req[t]].cancelled
             => \E b \in Actor : cur[b] = req[t]
        /\ step[t] = "wait" /\ Allocated(req[t]) /\ ~irp[req[t]].routine => cur[Dw] = req[t]
        /\ step[t] = "setcancel" /\ Allocated(req[t]) => InHand(req[t])
    BY <2>2, Zenon DEF RequestInv, WaitsOK
  <2>5. ASSUME step[t] = "wait", Allocated(req[t]), irp'[req[t]].cancelled
        PROVE  \E b \in Actor : cur'[b] = req[t]
    <3>1. CASE req[t] # i \/ irp[i].cancelled
      BY <1>5, <2>1, <2>3, <2>4, <2>5, <3>1, Zenon
    <3>2. CASE req[t] = i /\ ~irp[i].cancelled
      BY <1>1, <1>7, <2>3, <2>4, <2>5, <3>2, Zenon
    <3> QED
      BY <3>1, <3>2, Zenon
  <2> QED
    BY <1>1, <1>10, <2>1, <2>2, <2>3, <2>4, <2>5, Zenon
<1>16. ServersOK'
  <2>1. \A b \in Actor : \A j \in IrpId : HasIrp(b, j)' => HasIrp(b, j)
    BY <1>2, <1>3, <1>7, Zenon DEF HasIrp, Completing
  <2>2. WithDriver \subseteq IrpId
    BY DriverTyped, Zenon
  <2>3. \A b \in {Dw, Pnp} : cur'[b] = cur[b] /\ todo'[b] = todo[b]
    BY <1>1, <1>3, <1>7, Zenon
  <2> QED
    BY <1>5, <1>10, <2>1, <2>2, <2>3, Zenon DEF RequestInv, ServersOK, Allocated
<1>17. RequestInv'
  BY <1>11, <1>12, <1>13, <1>14, <1>15, <1>16, Zenon DEF RequestInv
<1> QED
  BY <1>8, <1>9, <1>17, Zenon DEF IrpInv

(* The cancel routine takes the request from the list and completes it.    *)
LEMMA CancelRoutineSafe ==
  ASSUME IrpInv, NEW a \in IoThread \cup {Killer}, CancelRoutine(a)
  PROVE  IrpInv'
<1>1. "unlock" \in Returns(a) /\ a \in Actor
  BY ActorFacts, PlaceFacts, Zenon
<1>2. cur[a] \in IrpId /\ step[a] = "routine"
  BY <1>1, Zenon DEF CancelRoutine, IrpInv, RequestInv, ActorsOK
<1>3. InHand(cur[a])
  BY <1>1, Zenon DEF InHand
<1>4. irp[cur[a]].mem # "unused" /\ \A t \in IoThread : req[t] = cur[a] => step[t] # "dispatch"
  BY <1>2, <1>3, Zenon DEF IrpInv, RequestInv, RequestsOK, DispatchOK
<1> QED
  BY <1>1, <1>2, <1>4, CancelTakes, Zenon DEF CancelRoutine

(* The cancelling party releases the lock of the IRP.                      *)
LEMMA CancelUnlockSafe ==
  ASSUME IrpInv, NEW a \in IoThread \cup {Killer}, CancelUnlock(a)
  PROVE  IrpInv'
<1> Types /\ RequestInv /\ DeviceInv
  BY Zenon DEF IrpInv
<1> DEFINE i == cur[a]
<1>1. /\ a \in Actor /\ a # Dw /\ a # Pnp /\ "cancel" \in Places(a) \cap PcValues
      /\ NoIrp \notin IrpId /\ IoThread \subseteq Actor /\ Dw \in Actor /\ Pnp \in Actor
  BY ActorFacts, PlaceFacts, Zenon DEF PcValues
<1>2. /\ step[a] = "unlock" /\ i \in IrpId /\ irp[i].done
      /\ UNCHANGED <<devVars, kbdVars, issued, req, queue, todo, call>>
  BY <1>1, Zenon DEF CancelUnlock, RequestInv, ActorsOK
<1>3. /\ irp' \in [IrpId -> Irps]
      /\ \A j \in IrpId : /\ irp'[j].mem = irp[j].mem /\ irp'[j].done = irp[j].done
                          /\ irp'[j].routine = irp[j].routine
                          /\ irp'[j].cancelled = irp[j].cancelled
  <2> DEFINE r == [irp[i] EXCEPT !.lock = NoIrp]
  <2>1. irp' = [irp EXCEPT ![i] = r] /\ irp[i] \in Irps
    BY <1>2, Zenon DEF CancelUnlock, Types
  <2>2. /\ r \in Irps /\ r.routine = irp[i].routine /\ r.mem = irp[i].mem /\ r.done = irp[i].done
        /\ r.cancelled = irp[i].cancelled
    BY <2>1, LockEffect, Zenon
  <2> HIDE DEF r, i
  <2> QED
    BY <1>2, <2>1, <2>2, IrpEffect, Zenon
<1>4. /\ step' \in [Actor -> PcValues] /\ step'[a] = "cancel"
      /\ \A b \in Actor : b # a => step'[b] = step[b]
  BY <1>1, GotoEffect, Zenon DEF CancelUnlock
<1>5. /\ cur' \in [Actor -> IrpId \cup {NoIrp}] /\ cur'[a] = NoIrp
      /\ \A b \in Actor : b # a => cur'[b] = cur[b]
  BY <1>1, Zenon DEF CancelUnlock, Types
<1>6. Types'
  BY <1>2, <1>3, <1>4, <1>5, Zenon DEF Types, devVars, kbdVars
<1>7. DeviceInv'
  BY <1>2, <1>4, ReaderDevice, Zenon DEF devVars, kbdVars
<1>8. /\ WithDriver' = WithDriver
      /\ \A j \in IrpId : InHand(j)' => InHand(j)
      /\ \A j \in IrpId : j # i /\ InHand(j) => InHand(j)'
  BY <1>1, <1>2, <1>5, Zenon DEF WithDriver, InHand
<1>9. ActorsOK'
  <2>1. \A b \in Actor : step[b] = "unlock" => irp'[cur[b]].done
    BY <1>3, Zenon DEF RequestInv, ActorsOK
  <2> QED
    BY <1>1, <1>2, <1>4, <1>5, <2>1, Zenon DEF RequestInv, ActorsOK, Completing
<1>10. RequestsOK'
  BY <1>1, <1>2, <1>3, <1>4, <1>8 DEF RequestInv, RequestsOK
<1>11. DispatchOK'
  <2> SUFFICES ASSUME NEW t \in IoThread, step'[t] = "dispatch"
               PROVE  /\ Allocated(req[t])' /\ ~irp'[req'[t]].routine
                      /\ req'[t] \in devPending' /\ ~InHand(req[t])'
    BY Zenon DEF DispatchOK
  <2>1. step[t] = "dispatch" /\ req'[t] = req[t] /\ devPending' = devPending
    BY <1>1, <1>2, <1>4, Zenon DEF devVars
  <2>2. req[t] \in IrpId
    BY <2>1, Zenon DEF RequestInv, RequestsOK
  <2> QED
    BY <1>3, <1>8, <2>1, <2>2, Zenon DEF RequestInv, DispatchOK, Allocated
<1>12. QueueOK'
  BY <1>2, <1>4, <1>5, Zenon DEF RequestInv, QueueOK, Completing, devVars
<1>13. WaitsOK'
  <2> SUFFICES ASSUME NEW t \in IoThread, step'[t] \in {"wait", "setcancel"}, ~irp'[req'[t]].done
               PROVE  /\ step'[t] = "wait" => InHand(req[t])'
                      /\ step'[t] = "wait" /\ Allocated(req[t])' /\ irp'[req'[t]].cancelled
                           => \E b \in Actor : cur'[b] = req'[t]
                      /\ step'[t] = "wait" /\ Allocated(req[t])' /\ ~irp'[req'[t]].routine
                           => cur'[Dw] = req'[t]
                      /\ step'[t] = "setcancel" /\ Allocated(req[t])' => InHand(req[t])'
    BY Zenon DEF WaitsOK
  <2>1. step'[t] = step[t] /\ req'[t] = req[t] /\ req[t] \in IrpId
    BY <1>1, <1>2, <1>4, Zenon DEF RequestInv, RequestsOK
  <2>2. /\ ~irp[req[t]].done /\ req[t] # i /\ (Allocated(req[t])' <=> Allocated(req[t]))
        /\ irp'[req[t]].routine = irp[req[t]].routine
        /\ irp'[req[t]].cancelled = irp[req[t]].cancelled
    BY <1>2, <1>3, <2>1, Zenon DEF Allocated
  <2>3. \A b \in Actor : cur[b] = req[t] => cur'[b] = req[t]
    BY <1>5, <2>2, Zenon
  <2>4. InHand(req[t]) => InHand(req[t])'
    BY <1>8, <2>1, <2>2, Zenon
  <2>5. /\ step[t] = "wait" => InHand(req[t])
        /\ step[t] = "wait" /\ Allocated(req[t]) /\ irp[req[t]].cancelled
             => \E b \in Actor : cur[b] = req[t]
        /\ step[t] = "wait" /\ Allocated(req[t]) /\ ~irp[req[t]].routine => cur[Dw] = req[t]
        /\ step[t] = "setcancel" /\ Allocated(req[t]) => InHand(req[t])
    BY <2>2, Zenon DEF RequestInv, WaitsOK
  <2>6. Dw \in Actor
    BY ActorFacts, Zenon
  <2>7. step'[t] = "wait" /\ Allocated(req[t])' /\ irp'[req'[t]].cancelled
             => \E b \in Actor : cur'[b] = req'[t]
    BY <2>1, <2>2, <2>3, <2>5, Zenon
  <2>8. step'[t] = "wait" /\ Allocated(req[t])' /\ ~irp'[req'[t]].routine => cur'[Dw] = req'[t]
    BY <2>1, <2>2, <2>3, <2>5, <2>6, Zenon
  <2> QED
    BY <2>1, <2>2, <2>4, <2>5, <2>7, <2>8, Zenon
<1>14. ServersOK'
  <2>1. \A b \in Actor : \A j \in IrpId : HasIrp(b, j)' => HasIrp(b, j)
    BY <1>2, <1>4, <1>5, Zenon DEF HasIrp, Completing
  <2>2. WithDriver \subseteq IrpId
    BY DriverTyped, Zenon
  <2> QED
    BY <1>1, <1>2, <1>3, <1>5, <1>8, <2>1, <2>2 DEF RequestInv, ServersOK, Allocated
<1>15. RequestInv'
  BY <1>9, <1>10, <1>11, <1>12, <1>13, <1>14, Zenon DEF RequestInv
<1> QED
  BY <1>6, <1>7, <1>15, Zenon DEF IrpInv

(* All requests that were collected have been cancelled.                   *)
LEMMA CancelDoneSafe ==
  ASSUME IrpInv, NEW a \in IoThread \cup {Killer}, CancelDone(a)
  PROVE  IrpInv'
<1> Types /\ RequestInv /\ DeviceInv
  BY Zenon DEF IrpInv
<1>1. a \in Actor /\ "idle" \in Places(a) \cap PcValues
  BY ActorFacts, PlaceFacts, Zenon DEF PcValues
<1>2. /\ step' \in [Actor -> PcValues] /\ step'[a] = "idle" /\ step[a] = "cancel"
      /\ \A b \in Actor : b # a => step'[b] = step[b]
  BY <1>1, GotoEffect, Zenon DEF CancelDone
<1>3. /\ req' = [t \in IoThread |-> IF t = a THEN NoIrp ELSE req[t]]
      /\ UNCHANGED <<devVars, kbdVars, irp, issued, queue, cur, todo, call>>
  BY Zenon DEF CancelDone
<1>4. Types'
  BY <1>2, <1>3, Zenon DEF Types, devVars, kbdVars
<1>5. DeviceInv'
  BY <1>2, <1>3, ReaderDevice, Zenon DEF devVars, kbdVars
<1>6. RequestInv'
  <2>1. \A u \in IoThread : req'[u] = req[u] \/ (u = a /\ req'[u] = NoIrp)
    BY <1>3, Zenon
  <2>2. "idle" \notin Completing /\ step[a] \notin Completing /\ StepTo(a, "idle") /\ UNCHANGED devPending
    BY <1>2, <1>3, Zenon DEF CancelDone, Completing, devVars
  <2> QED
    BY <1>1, <1>2, <1>3, <2>1, <2>2, MoveSafe, Zenon
<1> QED
  BY <1>4, <1>5, <1>6, Zenon DEF IrpInv

-----------------------------------------------------------------------------
(* The interrupt, and the worker of the driver.                             *)

(* A step that touches no request keeps what is known of them.             *)
LEMMA SameRequests ==
  ASSUME RequestInv, UNCHANGED <<irp, req, devPending, queue, step, cur, todo, call>>
  PROVE  RequestInv'
<1>1. ActorsOK' /\ RequestsOK'
  BY Zenon DEF RequestInv, ActorsOK, RequestsOK, InHand, WithDriver
<1>2. DispatchOK' /\ QueueOK'
  BY Zenon DEF RequestInv, DispatchOK, QueueOK, InHand, WithDriver, Allocated
<1>3. WaitsOK'
  BY Zenon DEF RequestInv, WaitsOK, InHand, WithDriver, Allocated
<1>4. ServersOK'
  BY DEF RequestInv, ServersOK, HasIrp, WithDriver, Allocated
<1> QED
  BY <1>1, <1>2, <1>3, <1>4, Zenon DEF RequestInv

(* The interrupt stores the scan code and queues the worker.               *)
LEMMA IsrSafe ==
  ASSUME IrpInv, NEW queued \in BOOLEAN, KeyboardIsr(queued)
  PROVE  IrpInv'
<1> Types /\ RequestInv /\ DeviceInv
  BY Zenon DEF IrpInv
<1> USE DEF KeyboardIsr, devVars, reqVars, actVars
<1>1. Types'
  BY DEF Types
<1>2. RequestInv'
  BY SameRequests, Zenon
<1>3. DrainedOK' /\ DeviceOK'
  BY Zenon DEF DeviceInv, DrainedOK, DeviceOK
<1>4. ContextOK'
  BY DEF DeviceInv, ContextOK, Types
<1> QED
  BY <1>1, <1>2, <1>3, <1>4, Zenon DEF IrpInv, DeviceInv

(* keyboard_dw and do_stop take requests from the list, to serve or to     *)
(* fail them.                                                              *)
LEMMA HandOver ==
  ASSUME Types, RequestInv, NEW a \in {Dw, Pnp}, NEW w \in Places(a) \cap PcValues,
         StepTo(a, w), w \in {"start", "fail"}, step[a] \in {"idle", "stop"}, todo[a] = {},
         NEW T \in SUBSET IrpId, todo' = [todo EXCEPT ![a] = T],
         Elems(queue') \cup T = Elems(queue), Elems(queue') \cap T = {}, Distinct(queue'),
         UNCHANGED <<irp, req, devPending, cur, call>>
  PROVE  RequestInv'
<1>1. /\ a \in Actor /\ NoIrp \notin IrpId /\ IoThread \subseteq Actor /\ a \notin IoThread
      /\ Dw \in Actor /\ Pnp \in Actor /\ Dw # Pnp
  BY ActorFacts, Zenon
<1>2. step'[a] = w /\ \A b \in Actor : b # a => step'[b] = step[b]
  BY <1>1, GotoEffect, Zenon
<1>3. todo'[a] = T /\ \A b \in Actor : b # a => todo'[b] = todo[b]
  BY <1>1, Zenon DEF Types
<1>4. WithDriver' = WithDriver
  BY <1>1, <1>3, Zenon DEF WithDriver
<1>5. \A i : InHand(i)' <=> InHand(i)
  BY <1>4, Zenon DEF InHand
<1>6. cur[a] \notin IrpId
  BY <1>1, Zenon DEF RequestInv, ActorsOK, Completing
<1>7. ActorsOK'
  BY <1>1, <1>2, Zenon DEF RequestInv, ActorsOK, Completing
<1>8. RequestsOK'
  BY <1>1, <1>2, <1>5, Zenon DEF RequestInv, RequestsOK
<1>9. DispatchOK'
  BY <1>1, <1>2, <1>5, Zenon DEF RequestInv, DispatchOK, Allocated
<1>10. QueueOK'
  BY <1>2, Zenon DEF RequestInv, QueueOK, Completing
<1>11. WaitsOK'
  BY <1>1, <1>2, <1>5, Zenon DEF RequestInv, WaitsOK, Allocated
<1>12. ServersOK'
  <2>1. ASSUME NEW b \in Actor, NEW i \in IrpId, HasIrp(b, i)'
        PROVE  HasIrp(b, i) \/ (b = a /\ i \in T)
    BY <1>1, <1>2, <1>3, <2>1, Zenon DEF HasIrp, Completing
  <2>2. \A i \in T : i \in Elems(queue) /\ \A b \in Actor : ~HasIrp(b, i)
    BY Zenon DEF RequestInv, ServersOK
  <2>3. \A b \in Actor : \A i \in IrpId : HasIrp(b, i) => i \notin Elems(queue)
    BY Zenon DEF RequestInv, ServersOK
  <2>4. ASSUME NEW b \in Actor, NEW i \in IrpId, HasIrp(b, i)'
        PROVE  i \notin Elems(queue') /\ \A c \in Actor : HasIrp(c, i)' => c = b
    <3>1. CASE i \in T
      BY <2>1, <2>2, <2>4, <3>1, Zenon
    <3>2. CASE i \notin T
      BY <2>1, <2>3, <2>4, <3>2, Zenon DEF RequestInv, ServersOK
    <3> QED
      BY <3>1, <3>2, Zenon
  <2>5. \A b \in {Dw, Pnp} : cur'[b] \notin todo'[b]
    BY <1>1, <1>3, <1>6, Zenon DEF RequestInv, ServersOK
  <2>6. \A i \in WithDriver' : Allocated(i)'
    BY <1>4, Zenon DEF RequestInv, ServersOK, Allocated
  <2> QED
    BY <2>4, <2>5, <2>6, Zenon DEF ServersOK
<1> QED
  BY <1>7, <1>8, <1>9, <1>10, <1>11, <1>12, Zenon DEF RequestInv

(* keyboard_dw takes as many requests from the list as there are keys.     *)
LEMMA DwCollectSafe ==
  ASSUME IrpInv, DwCollect
  PROVE  IrpInv'
<1> Types /\ RequestInv /\ DeviceInv
  BY Zenon DEF IrpInv
<1> DEFINE avail == keys + scan
           n == IF avail < Len(queue) THEN avail ELSE Len(queue)
           T == {queue[k] : k \in 1 .. n}
<1>1. /\ Dw \in Actor /\ Pnp \in Actor /\ Dw # Pnp /\ "start" \in Places(Dw) \cap PcValues
      /\ MaxPending \in Nat
  BY ActorFacts, PlaceFacts, Zenon DEF PcValues
<1>2. n \in 0 .. Len(queue) /\ avail - n \in Nat
  BY DEF Types
<1>3. /\ step[Dw] = "idle" /\ works > 0 /\ works' = works - 1 /\ scan' = 0 /\ StepTo(Dw, "start")
      /\ todo' = [todo EXCEPT ![Dw] = T]
      /\ queue' = SubSeq(queue, n + 1, Len(queue)) /\ keys' = avail - n
      /\ UNCHANGED <<devVars, reqVars, pressed, refs, removing, ctx, intr, cur, call>>
  BY Zenon DEF DwCollect
<1>4. /\ queue' \in Seq(IrpId) /\ Len(queue') <= Len(queue) /\ Distinct(queue')
      /\ Elems(queue') \cup T = Elems(queue) /\ Elems(queue') \cap T = {}
  BY <1>2, <1>3, CollectEffect, Zenon DEF Types, RequestInv, QueueOK
<1>5. keys' \in Nat
  BY <1>2, <1>3, Zenon
<1> HIDE DEF n, avail, T
<1>6. T \in SUBSET IrpId
  BY <1>4 DEF Types, Elems
<1>7. /\ step' \in [Actor -> PcValues] /\ step'[Dw] = "start"
      /\ \A b \in Actor : b # Dw => step'[b] = step[b]
  BY <1>1, <1>3, GotoEffect, Zenon
<1>8. todo' \in [Actor -> SUBSET IrpId] /\ todo'[Pnp] = todo[Pnp]
  BY <1>1, <1>3, <1>6, Zenon DEF Types
<1>9. Types'
  <2>1. Len(queue') <= MaxPending /\ works' \in Nat /\ scan' \in Nat
    BY <1>1, <1>3, <1>4 DEF Types
  <2> QED
    BY <1>3, <1>4, <1>5, <1>7, <1>8, <2>1, Zenon DEF Types, devVars, reqVars
<1>10. RequestInv'
  <2>1. todo[Dw] = {} /\ UNCHANGED <<irp, req, devPending, cur, call>>
    BY <1>3, Zenon DEF DeviceInv, DeviceOK, devVars, reqVars
  <2> QED
    BY <1>1, <1>3, <1>4, <1>6, <2>1, HandOver, Zenon
<1>11. DeviceInv'
  <2>1. DrainedOK' /\ DeviceOK'
    BY <1>1, <1>3, <1>7, <1>8, Zenon DEF DeviceInv, DrainedOK, DeviceOK, devVars
  <2>2. ContextOK'
    BY <1>3, <1>7 DEF DeviceInv, ContextOK, Types, devVars
  <2> QED
    BY <2>1, <2>2, Zenon DEF DeviceInv
<1> QED
  BY <1>9, <1>10, <1>11, Zenon DEF IrpInv

(* io_start_processing of a request that was cancelled: it is freed, and   *)
(* whoever cancelled it has it in hand or has told its thread.             *)
LEMMA DwFreeSafe ==
  ASSUME IrpInv, NEW i \in IrpId, i \in todo[Dw], irp[i].cancelled,
         step[Dw] = "start", todo' = [todo EXCEPT ![Dw] = @ \ {i}], ReleaseTracking(i),
         irp' = [irp EXCEPT ![i] = Freed(i)],
         UNCHANGED <<step, cur, call, devState, stops, kbdVars, req, queue>>
  PROVE  IrpInv'
<1> Types /\ RequestInv /\ DeviceInv
  BY Zenon DEF IrpInv
<1>1. /\ Dw \in Actor /\ Pnp \in Actor /\ Dw # Pnp /\ NoIrp \notin IrpId /\ IoThread \subseteq Actor
  BY ActorFacts, Zenon
<1>2. /\ issued' \in [IoThread -> SUBSET IrpId]
      /\ devPending' = devPending \ {i}
      /\ drained' = drained \/ drained' = Signal(drained)
  BY TrackingEffect, Zenon
<1>3. /\ todo' \in [Actor -> SUBSET IrpId] /\ todo'[Dw] = todo[Dw] \ {i}
      /\ \A b \in Actor : b # Dw => todo'[b] = todo[b]
  BY <1>1, Zenon DEF Types
<1>4. /\ irp' \in [IrpId -> Irps] /\ irp'[i].mem = "freed"
      /\ \A j \in IrpId : irp'[j].done = irp[j].done /\ (j # i => irp'[j] = irp[j])
  BY Zenon DEF Types, Irps, Freed, Unused, NewIrp
<1>5. Types'
  BY <1>2, <1>3, <1>4, Zenon DEF Types, kbdVars
<1>6. DeviceInv'
  BY <1>1, <1>2, <1>3, DeviceKept, Zenon DEF kbdVars
<1>7. /\ HasIrp(Dw, i) /\ i \in WithDriver /\ InHand(i) /\ Allocated(i)
  BY Zenon DEF HasIrp, WithDriver, InHand, RequestInv, ServersOK
<1>8. i \notin Elems(queue) /\ i \notin todo[Pnp]
  <2>1. i \in todo[Pnp] => HasIrp(Pnp, i)
    BY Zenon DEF HasIrp
  <2> QED
    BY <1>1, <1>7, <2>1, Zenon DEF RequestInv, ServersOK
<1>9. /\ WithDriver' = WithDriver \ {i} /\ WithDriver \subseteq IrpId
      /\ \A j \in IrpId : j # i => (InHand(j)' <=> InHand(j))
  <2>1. WithDriver \subseteq IrpId
    BY DriverTyped, Zenon
  <2> QED
    BY <1>1, <1>3, <1>8, <2>1 DEF WithDriver, InHand
<1>10. ActorsOK'
  BY <1>4, Zenon DEF RequestInv, ActorsOK, Completing
<1>11. RequestsOK'
  BY <1>4, <1>9, Zenon DEF RequestInv, RequestsOK
<1>12. DispatchOK'
  <2> SUFFICES ASSUME NEW t \in IoThread, step[t] = "dispatch"
               PROVE  /\ Allocated(req[t])' /\ ~irp'[req[t]].routine
                      /\ req[t] \in devPending' /\ ~InHand(req[t])'
    BY Zenon DEF DispatchOK
  <2>1. req[t] \in IrpId /\ ~InHand(req[t]) /\ req'[t] = req[t]
    BY Zenon DEF RequestInv, RequestsOK, DispatchOK
  <2>2. req[t] # i
    BY <1>7, <2>1, Zenon
  <2> QED
    BY <1>2, <1>4, <1>9, <2>1, <2>2, Zenon DEF RequestInv, DispatchOK, Allocated
<1>13. QueueOK'
  BY <1>2, <1>8, Zenon DEF RequestInv, QueueOK
<1>14. WaitsOK'
  <2> SUFFICES ASSUME NEW t \in IoThread, step[t] \in {"wait", "setcancel"}, ~irp'[req[t]].done
               PROVE  /\ step[t] = "wait" => InHand(req[t])'
                      /\ step[t] = "wait" /\ Allocated(req[t])' /\ irp'[req[t]].cancelled
                           => \E b \in Actor : cur[b] = req[t]
                      /\ step[t] = "wait" /\ Allocated(req[t])' /\ ~irp'[req[t]].routine
                           => cur[Dw] = req[t]
                      /\ step[t] = "setcancel" /\ Allocated(req[t])' => InHand(req[t])'
    BY Zenon DEF WaitsOK
  <2>1. req[t] \in IrpId /\ ~irp[req[t]].done /\ req'[t] = req[t]
    BY <1>4, Zenon DEF RequestInv, RequestsOK
  <2>2. CASE req[t] = i
    <3>1. ~Allocated(req[t])'
      BY <1>4, <2>1, <2>2, Zenon DEF Allocated
    <3>2. step[t] = "wait" => \E b \in Actor : cur[b] = req[t]
      BY <1>7, <2>1, <2>2, Zenon DEF RequestInv, WaitsOK
    <3>3. step[t] = "wait" => InHand(req[t])'
      BY <2>1, <3>2, Zenon DEF InHand
    <3> QED
      BY <3>1, <3>3, Zenon
  <2>3. CASE req[t] # i
    BY <1>4, <1>9, <2>1, <2>3, Zenon DEF RequestInv, WaitsOK, Allocated
  <2> QED
    BY <2>2, <2>3, Zenon
<1>15. ServersOK'
  <2>1. \A b \in Actor : \A j \in IrpId : HasIrp(b, j)' => HasIrp(b, j)
    BY <1>1, <1>3, Zenon DEF HasIrp
  <2>2. \A b \in {Dw, Pnp} : cur'[b] \notin todo'[b]
    BY <1>1, <1>3, Zenon DEF RequestInv, ServersOK
  <2> QED
    BY <1>4, <1>9, <2>1, <2>2, Zenon DEF RequestInv, ServersOK, Allocated
<1>16. RequestInv'
  BY <1>10, <1>11, <1>12, <1>13, <1>14, <1>15, Zenon DEF RequestInv
<1> QED
  BY <1>5, <1>6, <1>16, Zenon DEF IrpInv

(* The driver's code completes a request that it has taken from the list.  *)
LEMMA ServerTakes ==
  ASSUME IrpInv, NEW a \in {Dw, Pnp}, NEW i \in IrpId, i \in todo[a],
         NEW st \in Statuses, NEW ret \in Returns(a) \cap PcValues, Complete(a, i, st, ret),
         step[a] \in {"start", "fail"}, todo' = [todo EXCEPT ![a] = @ \ {i}],
         irp' \in [IrpId -> Irps],
         \A j \in IrpId : /\ irp'[j].mem = irp[j].mem /\ irp'[j].done = irp[j].done
                          /\ irp'[j].cancelled = irp[j].cancelled
                          /\ \/ irp'[j].routine = irp[j].routine
                             \/ j = i /\ a = Dw /\ irp'[j].routine = FALSE,
         UNCHANGED <<devVars, kbdVars, issued, req, queue>>
  PROVE  IrpInv'
<1> Types /\ RequestInv /\ DeviceInv
  BY Zenon DEF IrpInv
<1>1. a \in Actor /\ Dw \in Actor /\ Pnp \in Actor /\ Dw # Pnp
  BY ActorFacts, Zenon
<1>2. /\ todo' \in [Actor -> SUBSET IrpId] /\ todo'[a] = todo[a] \ {i}
      /\ \A b \in Actor : b # a => todo'[b] = todo[b]
  BY <1>1, Zenon DEF Types
<1>3. /\ step' \in [Actor -> PcValues] /\ cur' \in [Actor -> IrpId \cup {NoIrp}]
      /\ call' \in [Actor -> [status : Statuses, skip : BOOLEAN, ret : PcValues]]
      /\ step'[a] = "enter" /\ \A b \in Actor : b # a => step'[b] = step[b]
  BY <1>1, CompleteEffect
<1>4. Types'
  BY <1>2, <1>3, Zenon DEF Types, devVars, kbdVars
<1>5. DeviceInv'
  <2>1. a = Pnp => step[a] = "fail"
    BY <1>1, PlaceFacts, Zenon DEF RequestInv, ActorsOK, Completing
  <2> QED
    BY <1>1, <1>2, <1>3, <2>1, DeviceKept, Zenon DEF devVars, kbdVars, Completing
<1>6. HasIrp(a, i) /\ InHand(i)
  BY Zenon DEF HasIrp, InHand, WithDriver
<1>7. /\ i \notin Elems(queue) /\ \A b \in Actor : HasIrp(b, i) => b = a
  BY <1>1, <1>6, Zenon DEF RequestInv, ServersOK
<1>8. irp[i].mem # "unused" /\ \A t \in IoThread : req[t] = i => step[t] # "dispatch"
  BY <1>6, Zenon DEF RequestInv, RequestsOK, DispatchOK
<1>9. RequestInv'
  <2>1. UNCHANGED <<req, devPending, queue>>
    BY Zenon DEF devVars
  <2>2. step[a] \notin Completing \cup {"unlock"} /\ step[a] # "routine"
    BY Zenon DEF Completing
  <2>3. Distinct(queue') /\ Elems(queue') = Elems(queue) \ {i}
    BY <1>7, <2>1, Zenon DEF RequestInv, QueueOK
  <2>4. \A b \in {Dw, Pnp} : /\ todo'[b] \subseteq todo[b] /\ todo[b] \ {i} \subseteq todo'[b]
                             /\ b = a => i \notin todo'[b]
    BY <1>1, <1>2, Zenon
  <2>5. /\ step[a] = "routine" => cur[a] = i
        /\ \A t \in IoThread : step[t] = "dispatch" /\ req[t] = i => t = a
        /\ st # "Cancelled" => \A b \in Actor : HasIrp(b, i) => b = a
    BY <1>7, <1>8, <2>2, Zenon
  <2>6. UNCHANGED <<req, devPending>> /\ irp[i].mem # "unused"
    BY <1>8, <2>1, Zenon
  <2>7. Takes(a, i, st)
    BY <2>2, <2>3, <2>4, <2>5, <2>6, Zenon DEF Takes
  <2> QED
    BY <1>1, <2>7, TakeSafe, Zenon
<1> QED
  BY <1>4, <1>5, <1>9, Zenon DEF IrpInv

(* keyboard_dw completes one of them, or frees it if it was cancelled.     *)
LEMMA DwStartSafe ==
  ASSUME IrpInv, NEW i \in IrpId, DwStart(i)
  PROVE  IrpInv'
<1>1. CASE irp[i].cancelled
  BY <1>1, DwFreeSafe, Zenon DEF DwStart
<1>2. CASE ~irp[i].cancelled
  <2>1. /\ irp' = [irp EXCEPT ![i].routine = FALSE] /\ Complete(Dw, i, "Success", "start")
        /\ UNCHANGED <<devVars, kbdVars, issued, req, queue>>
    BY <1>2, Zenon DEF DwStart, devVars
  <2>2. /\ irp' \in [IrpId -> Irps]
        /\ \A j \in IrpId : /\ irp'[j].mem = irp[j].mem /\ irp'[j].done = irp[j].done
                            /\ irp'[j].cancelled = irp[j].cancelled
                            /\ \/ irp'[j].routine = irp[j].routine
                               \/ j = i /\ irp'[j].routine = FALSE
    <3> DEFINE r == [irp[i] EXCEPT !.routine = FALSE]
    <3>1. irp' = [irp EXCEPT ![i] = r] /\ irp[i] \in Irps /\ Types
      BY <2>1, Zenon DEF IrpInv, Types
    <3>2. /\ r \in Irps /\ r.routine = FALSE /\ r.mem = irp[i].mem /\ r.done = irp[i].done
          /\ r.cancelled = irp[i].cancelled
      BY <3>1, RoutineEffect, Zenon
    <3> HIDE DEF r
    <3> QED
      BY <3>1, <3>2, IrpEffect, Zenon
  <2>3. "Success" \in Statuses /\ "start" \in Returns(Dw) \cap PcValues
    BY PlaceFacts, Zenon DEF Statuses, PcValues
  <2> QED
    BY <2>1, <2>2, <2>3, ServerTakes, Zenon DEF DwStart
<1> QED
  BY <1>1, <1>2, Zenon

(* keyboard_dw ends, and frees the context if it was the last after a      *)
(* removal.                                                                *)
LEMMA DwEndSafe ==
  ASSUME IrpInv, DwEnd
  PROVE  IrpInv'
<1> Types /\ RequestInv /\ DeviceInv
  BY Zenon DEF IrpInv
<1>1. Dw \in Actor /\ Pnp \in Actor /\ Dw # Pnp /\ "idle" \in Places(Dw) \cap PcValues
      /\ Dw \notin IoThread
  BY ActorFacts, PlaceFacts, Zenon DEF PcValues
<1>2. /\ step' \in [Actor -> PcValues] /\ step'[Dw] = "idle" /\ step[Dw] = "start"
      /\ \A b \in Actor : b # Dw => step'[b] = step[b]
  BY <1>1, GotoEffect, Zenon DEF DwEnd
<1>3. Types'
  BY <1>2, Zenon DEF DwEnd, Types, devVars, reqVars
<1>4. RequestInv'
  <2>1. UNCHANGED <<irp, queue, cur, call, todo, req, devPending>> /\ StepTo(Dw, "idle")
    BY Zenon DEF DwEnd, reqVars, devVars
  <2>2. "idle" \notin Completing /\ step[Dw] \notin Completing
    BY <1>2, Zenon DEF Completing
  <2> QED
    BY <1>1, <1>2, <2>1, <2>2, MoveSafe, Zenon
<1>5. DrainedOK' /\ DeviceOK'
  BY <1>1, <1>2, Zenon DEF DwEnd, DeviceInv, DrainedOK, DeviceOK, devVars
<1>6. ContextOK'
  BY <1>2 DEF DwEnd, DeviceInv, ContextOK, Types, devVars
<1> QED
  BY <1>3, <1>4, <1>5, <1>6, Zenon DEF IrpInv, DeviceInv

-----------------------------------------------------------------------------
(* The PnP worker.                                                          *)

(* It moves on and has no request in hand.                                 *)
LEMMA PnpMoves ==
  ASSUME Types, RequestInv, NEW w, StepTo(Pnp, w),
         w \in {"idle", "stop", "drain", "drainwait", "slept", "remove"},
         step[Pnp] \notin Completing,
         devPending' \subseteq IrpId \cup {Pnp},
         \A i \in IrpId : i \in devPending => i \in devPending',
         UNCHANGED <<irp, req, queue, cur, todo, call>>
  PROVE  /\ step' \in [Actor -> PcValues] /\ step'[Pnp] = w
         /\ \A b \in Actor : b # Pnp => step'[b] = step[b]
         /\ step'[Dw] = step[Dw]
         /\ RequestInv'
<1>1. Pnp \in Actor /\ Dw \in Actor /\ Dw # Pnp
  BY ActorFacts, Zenon
<1>2. /\ w \in Places(Pnp) \cap PcValues /\ w \notin Completing
      /\ w \notin {"dispatch", "setcancel", "wait", "unlock", "routine", "undo"}
  BY PlaceFacts, Zenon DEF PcValues, Completing
<1>3. step[Pnp] \notin {"unlock", "routine"}
  BY <1>1, PlaceFacts, Zenon DEF RequestInv, ActorsOK, Completing
<1>4. RequestInv'
  BY <1>1, <1>2, <1>3, MoveSafe, Zenon
<1> QED
  BY <1>1, <1>2, <1>4, GotoEffect, Zenon

(* The PnP worker begins to stop the device.                               *)
LEMMA StopSelfSafe ==
  ASSUME IrpInv, StopSelf
  PROVE  IrpInv'
<1> Types /\ RequestInv /\ DeviceInv
  BY Zenon DEF IrpInv
<1>1. /\ step[Pnp] = "idle" /\ devState = "Started" /\ devState' = "Stopping"
      /\ devPending' = devPending \cup {Pnp} /\ StepTo(Pnp, "stop")
      /\ UNCHANGED <<drained, kbdVars, reqVars, queue, cur, todo, call>>
  BY Zenon DEF StopSelf
<1>2. devPending' \subseteq IrpId \cup {Pnp}
  BY <1>1, Zenon DEF Types
<1>3. step' \in [Actor -> PcValues] /\ step'[Pnp] = "stop" /\ step'[Dw] = step[Dw] /\ RequestInv'
  BY <1>1, <1>2, PnpMoves, Zenon DEF reqVars, Completing
<1>4. Types'
  BY <1>1, <1>2, <1>3, Zenon DEF Types, kbdVars, reqVars
<1>5. DrainedOK' /\ DeviceOK'
  BY <1>1, <1>3, Zenon DEF DeviceInv, DrainedOK, DeviceOK, Completing
<1>6. ContextOK'
  BY <1>1, <1>3, Zenon DEF DeviceInv, ContextOK, kbdVars
<1> QED
  BY <1>3, <1>4, <1>5, <1>6, Zenon DEF IrpInv, DeviceInv

(* do_stop takes every request from the list.                              *)
LEMMA DoStopSafe ==
  ASSUME IrpInv, DoStop
  PROVE  IrpInv'
<1> Types /\ RequestInv /\ DeviceInv
  BY Zenon DEF IrpInv
<1>1. /\ Pnp \in Actor /\ Dw \in Actor /\ Dw # Pnp /\ "fail" \in Places(Pnp) \cap PcValues
      /\ MaxPending \in Nat
  BY ActorFacts, PlaceFacts, Zenon DEF PcValues
<1>2. /\ step[Pnp] = "stop" /\ devState = "Stopping"
      /\ todo' = [todo EXCEPT ![Pnp] = Elems(queue)] /\ queue' = << >> /\ StepTo(Pnp, "fail")
      /\ UNCHANGED <<devVars, reqVars, keys, scan, works, refs, removing, ctx, cur, call>>
  BY Zenon DEF DoStop, AllowedIn
<1>3. /\ step' \in [Actor -> PcValues] /\ step'[Pnp] = "fail" /\ step'[Dw] = step[Dw]
  BY <1>1, <1>2, GotoEffect, Zenon
<1>4. Elems(queue) \in SUBSET IrpId
  BY DEF Types, Elems
<1>5. /\ queue' \in Seq(IrpId) /\ Len(queue') = 0 /\ Elems(queue') = {} /\ Distinct(queue')
  BY <1>2 DEF Elems, Distinct
<1>6. todo' \in [Actor -> SUBSET IrpId] /\ todo'[Dw] = todo[Dw]
  BY <1>1, <1>2, <1>4, Zenon DEF Types
<1>7. Types'
  <2>1. Len(queue') <= MaxPending
    BY <1>1, <1>5
  <2> QED
    BY <1>2, <1>3, <1>5, <1>6, <2>1, Zenon DEF Types, devVars, reqVars
<1>8. RequestInv'
  <2>1. todo[Pnp] = {} /\ UNCHANGED <<irp, req, devPending, cur, call>>
    BY <1>2, Zenon DEF DeviceInv, DeviceOK, devVars, reqVars, Completing
  <2> QED
    BY <1>1, <1>2, <1>4, <1>5, <2>1, HandOver, Zenon
<1>9. DrainedOK' /\ DeviceOK'
  BY <1>2, <1>3, <1>6, Zenon DEF DeviceInv, DrainedOK, DeviceOK, devVars, Completing
<1>10. ContextOK'
  BY <1>2, <1>3, Zenon DEF DeviceInv, ContextOK, devVars
<1> QED
  BY <1>7, <1>8, <1>9, <1>10, Zenon DEF IrpInv, DeviceInv

(* do_stop completes one of them as failed.                                *)
LEMMA DoStopFailSafe ==
  ASSUME IrpInv, NEW i \in IrpId, DoStopFail(i)
  PROVE  IrpInv'
<1>1. "Failed" \in Statuses /\ "fail" \in Returns(Pnp) \cap PcValues
  BY PlaceFacts, Zenon DEF Statuses, PcValues
<1>2. irp' \in [IrpId -> Irps] /\ UNCHANGED <<irp, devVars, kbdVars, issued, req, queue>>
  BY Zenon DEF DoStopFail, reqVars, IrpInv, Types
<1> QED
  BY <1>1, <1>2, ServerTakes, Zenon DEF DoStopFail

(* do_stop has completed all of them.                                      *)
LEMMA StopDoneSafe ==
  ASSUME IrpInv, StopDone
  PROVE  IrpInv'
<1> Types /\ RequestInv /\ DeviceInv
  BY Zenon DEF IrpInv
<1>1. /\ step[Pnp] = "fail" /\ todo[Pnp] = {} /\ devPending' = devPending \ {Pnp}
      /\ devState = "Stopping" /\ devState' = "Stopped" /\ StepTo(Pnp, "drain")
      /\ drained' = drained \/ drained' = Signal(drained)
      /\ UNCHANGED <<stops, kbdVars, reqVars, queue, cur, todo, call>>
  BY Zenon DEF StopDone, DeviceInv, DeviceOK
<1>2. devPending' \subseteq IrpId \cup {Pnp} /\ \A i \in IrpId : i \in devPending => i \in devPending'
  BY <1>1, ActorFacts, Zenon DEF Types
<1>3. step' \in [Actor -> PcValues] /\ step'[Pnp] = "drain" /\ step'[Dw] = step[Dw] /\ RequestInv'
  BY <1>1, <1>2, PnpMoves, Zenon DEF reqVars, Completing
<1>4. Types'
  BY <1>1, <1>2, <1>3, Zenon DEF Types, kbdVars, reqVars
<1>5. DrainedOK'
  <2>1. CASE drained' = drained
    BY <1>1, <2>1, Zenon DEF DeviceInv, DrainedOK
  <2>2. CASE drained' = Signal(drained)
    <3>1. /\ drained' \in {NewEvent, [signalled |-> TRUE, asleep |-> << >>]}
          /\ drained'.asleep = << >>
      BY <2>2, SignalDrained, Zenon DEF DeviceInv
    <3> QED
      BY <3>1, Zenon DEF DrainedOK
  <2> QED
    BY <1>1, <2>1, <2>2, Zenon
<1>6. DeviceOK'
  BY <1>1, <1>3, Zenon DEF DeviceInv, DeviceOK, Completing
<1>7. ContextOK'
  BY <1>1, <1>3, Zenon DEF DeviceInv, ContextOK, kbdVars
<1> QED
  BY <1>3, <1>4, <1>5, <1>6, <1>7, Zenon DEF IrpInv, DeviceInv

(* The PnP worker looks whether the device still counts requests.          *)
LEMMA DrainLookSafe ==
  ASSUME IrpInv, DrainLook
  PROVE  IrpInv'
<1> Types /\ RequestInv /\ DeviceInv
  BY Zenon DEF IrpInv
<1> DEFINE w == IF devPending = {} THEN "idle" ELSE "drainwait"
<1>1. /\ step[Pnp] \in {"drain", "slept"} /\ StepTo(Pnp, w)
      /\ step[Pnp] = "slept" => Pnp \notin Asleep(drained)
      /\ UNCHANGED <<devVars, kbdVars, reqVars, queue, cur, todo, call>>
  BY Zenon DEF DrainLook
<1>2. w \in {"idle", "drainwait"} /\ (w = "idle" => devPending = {})
  BY Zenon
<1> HIDE DEF w
<1>3. step' \in [Actor -> PcValues] /\ step'[Pnp] = w /\ step'[Dw] = step[Dw] /\ RequestInv'
  BY <1>1, <1>2, PnpMoves, Zenon DEF reqVars, devVars, Completing, Types
<1>4. Types'
  BY <1>1, <1>3, Zenon DEF Types, devVars, kbdVars, reqVars
<1>5. DrainedOK'
  <2>1. drained = [signalled |-> FALSE, asleep |-> <<Pnp>>] => Pnp \in Asleep(drained)
    BY DEF Asleep
  <2>2. drained.asleep = << >>
    BY <1>1, <2>1 DEF DeviceInv, DrainedOK, NewEvent
  <2> QED
    BY <1>1, <2>2, Zenon DEF DeviceInv, DrainedOK, devVars
<1>6. DeviceOK'
  BY <1>1, <1>2, <1>3, Zenon DEF DeviceInv, DeviceOK, devVars, Completing
<1>7. ContextOK'
  BY <1>1, <1>3, Zenon DEF DeviceInv, ContextOK, kbdVars, devVars
<1> QED
  BY <1>3, <1>4, <1>5, <1>6, <1>7, Zenon DEF IrpInv, DeviceInv

(* It waits for the last of them.                                          *)
LEMMA DrainWaitSafe ==
  ASSUME IrpInv, DrainWait
  PROVE  IrpInv'
<1> Types /\ RequestInv /\ DeviceInv
  BY Zenon DEF IrpInv
<1> DEFINE w == IF drained.signalled THEN "drain" ELSE "slept"
<1>1. /\ step[Pnp] = "drainwait" /\ StepTo(Pnp, w) /\ drained' = Wait(drained, Pnp)
      /\ UNCHANGED <<devState, devPending, stops, kbdVars, reqVars, queue, cur, todo, call>>
  BY Zenon DEF DrainWait
<1>2. w \in {"drain", "slept"}
  BY Zenon
<1>3. drained'.asleep # << >> => w = "slept"
  <2>1. drained.signalled = TRUE => drained'.asleep = << >>
    BY <1>1, Zenon DEF Wait, DeviceInv, DrainedOK, NewEvent
  <2> QED
    BY <2>1, Zenon DEF DeviceInv, DrainedOK, NewEvent
<1>4. drained' \in {NewEvent, [signalled |-> TRUE, asleep |-> << >>],
                    [signalled |-> FALSE, asleep |-> <<Pnp>>]}
  <2>1. drained.asleep = << >>
    BY <1>1, Zenon DEF DeviceInv, DrainedOK
  <2>2. CASE drained = NewEvent
    <3>1. Append(<< >>, Pnp) = <<Pnp>>
      OBVIOUS
    <3> QED
      BY <1>1, <2>2, <3>1, Zenon DEF Wait, NewEvent
  <2>3. CASE drained = [signalled |-> TRUE, asleep |-> << >>]
    BY <1>1, <2>3, Zenon DEF Wait, NewEvent
  <2>4. <<Pnp>> # << >>
    BY Zenon
  <2> QED
    BY <2>1, <2>2, <2>3, <2>4 DEF DeviceInv, DrainedOK
<1> HIDE DEF w
<1>5. step' \in [Actor -> PcValues] /\ step'[Pnp] = w /\ step'[Dw] = step[Dw] /\ RequestInv'
  BY <1>1, <1>2, PnpMoves, Zenon DEF reqVars, Completing, Types
<1>6. Types'
  BY <1>1, <1>5, Zenon DEF Types, kbdVars, reqVars
<1>7. DrainedOK'
  BY <1>3, <1>4, <1>5, Zenon DEF DrainedOK
<1>8. DeviceOK'
  BY <1>1, <1>2, <1>5, Zenon DEF DeviceInv, DeviceOK, Completing
<1>9. ContextOK'
  BY <1>1, <1>5, Zenon DEF DeviceInv, ContextOK, kbdVars
<1> QED
  BY <1>5, <1>6, <1>7, <1>8, <1>9, Zenon DEF IrpInv, DeviceInv

(* The driver empties its list when it starts: it is empty, as no request  *)
(* is left.                                                                *)
LEMMA DoStartSafe ==
  ASSUME IrpInv, DoStart
  PROVE  IrpInv'
<1> Types /\ RequestInv /\ DeviceInv
  BY Zenon DEF IrpInv
<1>1. /\ step[Pnp] = "idle" /\ devState = "Stopped" /\ devState' = "Started"
      /\ keys' = 0 /\ scan' = 0 /\ queue' = << >>
      /\ drained' = drained \/ drained' = Signal(drained)
      /\ UNCHANGED <<devPending, reqVars, actVars, works, refs, removing, ctx>>
  BY Zenon DEF DoStart, AllowedIn, KeyboardStart
<1>2. queue' = queue
  <2>1. Elems(queue) = {}
    BY <1>1, Zenon DEF DeviceInv, DeviceOK, RequestInv, QueueOK
  <2>2. \A k \in DOMAIN queue : queue[k] \in Elems(queue)
    BY Zenon DEF Elems
  <2>3. Len(queue) = 0
    <3>1. Len(queue) \in Nat /\ DOMAIN queue = 1 .. Len(queue)
      BY DEF Types
    <3>2. 1 \notin DOMAIN queue
      BY <2>1, <2>2, Zenon
    <3> QED
      BY <3>1, <3>2
  <2> QED
    BY <1>1, <2>3 DEF Types
<1>3. Types'
  BY <1>1, <1>2, Zenon DEF Types, reqVars, actVars
<1>4. RequestInv'
  BY <1>1, <1>2, SameRequests, Zenon DEF reqVars, actVars
<1>5. DrainedOK'
  <2>1. CASE drained' = drained
    BY <1>1, <2>1, Zenon DEF DeviceInv, DrainedOK, actVars
  <2>2. CASE drained' = Signal(drained)
    <3>1. /\ drained' \in {NewEvent, [signalled |-> TRUE, asleep |-> << >>]}
          /\ drained'.asleep = << >>
      BY <2>2, SignalDrained, Zenon DEF DeviceInv
    <3> QED
      BY <3>1, Zenon DEF DrainedOK
  <2> QED
    BY <1>1, <2>1, <2>2, Zenon
<1>6. DeviceOK'
  BY <1>1, Zenon DEF DeviceInv, DeviceOK, Completing, actVars
<1>7. ContextOK'
  BY <1>1, Zenon DEF DeviceInv, ContextOK, actVars
<1> QED
  BY <1>3, <1>4, <1>5, <1>6, <1>7, Zenon DEF IrpInv, DeviceInv

(* The PnP worker begins to remove the stopped device.                     *)
LEMMA RemoveDeviceSafe ==
  ASSUME IrpInv, RemoveDevice
  PROVE  IrpInv'
<1> Types /\ RequestInv /\ DeviceInv
  BY Zenon DEF IrpInv
<1>1. /\ step[Pnp] = "idle" /\ devState = "Stopped" /\ devState' = "Removing" /\ StepTo(Pnp, "remove")
      /\ UNCHANGED <<devPending, drained, kbdVars, reqVars, queue, cur, todo, call>>
  BY Zenon DEF RemoveDevice
<1>2. step' \in [Actor -> PcValues] /\ step'[Pnp] = "remove" /\ step'[Dw] = step[Dw] /\ RequestInv'
  BY <1>1, PnpMoves, Zenon DEF reqVars, Completing, Types
<1>3. Types'
  BY <1>1, <1>2, Zenon DEF Types, kbdVars, reqVars
<1>4. DrainedOK' /\ DeviceOK'
  BY <1>1, <1>2, Zenon DEF DeviceInv, DrainedOK, DeviceOK, Completing
<1>5. ContextOK'
  BY <1>1, <1>2, Zenon DEF DeviceInv, ContextOK, kbdVars
<1> QED
  BY <1>2, <1>3, <1>4, <1>5, Zenon DEF IrpInv, DeviceInv

(* do_remove frees the context, or leaves it to the last worker.           *)
LEMMA DoRemoveSafe ==
  ASSUME IrpInv, DoRemove
  PROVE  IrpInv'
<1> Types /\ RequestInv /\ DeviceInv
  BY Zenon DEF IrpInv
<1>1. /\ step[Pnp] = "remove" /\ devState = "Removing" /\ devState' = "Removed" /\ StepTo(Pnp, "idle")
      /\ removing' = TRUE /\ ctx' = IF refs = 0 THEN "freed" ELSE ctx
      /\ drained' = drained \/ drained' = Signal(drained)
      /\ UNCHANGED <<devPending, reqVars, cur, todo, call, queue, keys, scan, works, refs>>
  BY Zenon DEF DoRemove, AllowedIn
<1>2. step' \in [Actor -> PcValues] /\ step'[Pnp] = "idle" /\ step'[Dw] = step[Dw] /\ RequestInv'
  BY <1>1, PnpMoves, Zenon DEF reqVars, Completing, Types
<1>3. Types'
  BY <1>1, <1>2, Zenon DEF Types, reqVars
<1>4. DrainedOK'
  <2>1. CASE drained' = drained
    BY <1>1, <2>1, Zenon DEF DeviceInv, DrainedOK
  <2>2. CASE drained' = Signal(drained)
    <3>1. /\ drained' \in {NewEvent, [signalled |-> TRUE, asleep |-> << >>]}
          /\ drained'.asleep = << >>
      BY <2>2, SignalDrained, Zenon DEF DeviceInv
    <3> QED
      BY <3>1, Zenon DEF DrainedOK
  <2> QED
    BY <1>1, <2>1, <2>2, Zenon
<1>5. DeviceOK'
  BY <1>1, <1>2, Zenon DEF DeviceInv, DeviceOK, Completing
<1>6. ContextOK'
  BY <1>1, <1>2 DEF DeviceInv, ContextOK, Types
<1> QED
  BY <1>2, <1>3, <1>4, <1>5, <1>6, Zenon DEF IrpInv, DeviceInv

-----------------------------------------------------------------------------
(* All steps.                                                               *)

(* A device that was added has no request.                                 *)
LEMMA InitSafe ==
  ASSUME IrpInit
  PROVE  IrpInv
<1>1. Types
  <2>1. Unused \in Irps
    BY Zenon DEF Unused, NewIrp, Irps
  <2>2. NoCall \in [status : Statuses, skip : BOOLEAN, ret : PcValues] /\ "idle" \in PcValues
    BY Zenon DEF NoCall, Statuses, PcValues
  <2>3. /\ irp \in [IrpId -> Irps]
        /\ call \in [Actor -> [status : Statuses, skip : BOOLEAN, ret : PcValues]]
        /\ step \in [Actor -> PcValues]
    BY <2>1, <2>2, Zenon DEF IrpInit
  <2>4. queue \in Seq(IrpId) /\ Len(queue) <= MaxPending
    BY ActorFacts DEF IrpInit
  <2> QED
    BY <2>3, <2>4, Zenon DEF IrpInit, Types
<1>2. Elems(queue) = {} /\ WithDriver = {} /\ \A i \in IrpId : ~InHand(i)
  BY ActorFacts DEF IrpInit, Elems, WithDriver, InHand
<1>3. ActorsOK
  BY ActorFacts, Zenon DEF IrpInit, ActorsOK, Places, Completing
<1>4. RequestsOK /\ DispatchOK
  BY <1>2, ActorFacts, Zenon DEF IrpInit, RequestsOK, DispatchOK
<1>5. QueueOK
  BY <1>2 DEF IrpInit, QueueOK, Distinct, Completing
<1>6. WaitsOK
  BY ActorFacts, Zenon DEF IrpInit, WaitsOK
<1>7. ServersOK
  BY <1>2, ActorFacts, Zenon DEF IrpInit, ServersOK, HasIrp, Completing
<1>8. DrainedOK
  BY Zenon DEF IrpInit, DrainedOK, NewEvent
<1>9. DeviceOK /\ ContextOK
  BY ActorFacts DEF IrpInit, DeviceOK, ContextOK, Completing
<1> QED
  BY <1>1, <1>3, <1>4, <1>5, <1>6, <1>7, <1>8, <1>9, Zenon DEF IrpInv, RequestInv, DeviceInv

(* A step that changes nothing keeps the invariant.                        *)
LEMMA StutterSafe ==
  ASSUME IrpInv, UNCHANGED irpVars
  PROVE  IrpInv'
<1> USE DEF irpVars, devVars, kbdVars, reqVars, actVars
<1>1. Types'
  BY Zenon DEF IrpInv, Types
<1>2. RequestInv'
  BY SameRequests, Zenon DEF IrpInv
<1>3. DeviceInv'
  BY Zenon DEF IrpInv, DeviceInv, DrainedOK, DeviceOK, ContextOK
<1> QED
  BY <1>1, <1>2, <1>3, Zenon DEF IrpInv

(* Every step of every party keeps the invariant.                          *)
LEMMA NextSafe ==
  ASSUME IrpInv, [IrpNext]_irpVars
  PROVE  IrpInv'
<1>1. ASSUME NEW t \in IoThread, ThreadStep(t) PROVE IrpInv'
  BY <1>1, RequestSafe, DispatchReadSafe, DispatchRefusedSafe, SetCancelSafe, UndoSafe, ReturnSafe,
     InterruptedSafe, KillSafe, Zenon DEF ThreadStep
<1>2. ASSUME NEW a \in IoThread \cup {Killer}, CancelStep(a) PROVE IrpInv'
  BY <1>2, CancelIrpSafe, CancelRoutineSafe, CancelUnlockSafe, CancelDoneSafe, Zenon DEF CancelStep
<1>3. ASSUME NEW a \in Actor, Enter(a) \/ Release(a) \/ Finish(a) PROVE IrpInv'
  BY <1>3, EnterSafe, ReleaseSafe, FinishSafe, Zenon
<1>4. ASSUME KeyboardStep PROVE IrpInv'
  BY <1>4, IsrSafe, DwCollectSafe, DwEndSafe, DwStartSafe, Zenon DEF KeyboardStep
<1>5. ASSUME PnpStep PROVE IrpInv'
  BY <1>5, StopSelfSafe, DoStopSafe, StopDoneSafe, DrainLookSafe, DrainWaitSafe, DoStopFailSafe,
     DoStartSafe, RemoveDeviceSafe, DoRemoveSafe, Zenon DEF PnpStep
<1> QED
  BY <1>1, <1>2, <1>3, <1>4, <1>5, StutterSafe, Zenon DEF IrpNext

(* The inductive invariant of the requests holds always, whatever the      *)
(* order of io_request_sync, io_complete, cancel_irp, keyboard_dw and the  *)
(* PnP worker.                                                             *)
THEOREM IrpInvariance == IrpSpec => []IrpInv
<1>1. IrpInit => IrpInv
  BY InitSafe, Zenon
<1>2. IrpInv /\ [IrpNext]_irpVars => IrpInv'
  BY NextSafe, Zenon
<1> QED
  BY <1>1, <1>2, PTL DEF IrpSpec

(* Requests to the driver: one that is queued or being served is           *)
(* allocated, one party at a time may free it, a reader that waits is not  *)
(* forgotten, a device that was stopped has no request left, and the       *)
(* context of the driver outlives its users, while io_complete, cancels,   *)
(* keyboard_dw and do_stop race.                                           *)
THEOREM RequestsSoundAlways == IrpSpec => []RequestsSound
<1>1. ASSUME IrpInv PROVE RequestsSound
  <2> Types /\ RequestInv /\ DeviceInv
    BY <1>1, Zenon DEF IrpInv
  <2>1. Dw \in Actor /\ Pnp \in Actor
    BY ActorFacts, Zenon
  <2>2. QueuedIsLive
    BY Zenon DEF QueuedIsLive, RequestInv, ServersOK, WithDriver
  <2>3. OneServer
    BY Zenon DEF OneServer, RequestInv, ServersOK, HasIrp
  <2>4. RequestInHand
    BY Zenon DEF RequestInHand, RequestInv, WaitsOK, InHand, WithDriver
  <2>5. StoppedIsDrained
    BY Zenon DEF StoppedIsDrained, RequestInv, DispatchOK, DeviceInv, DeviceOK
  <2>6. ContextIsLive
    <3>1. ctx = "freed" => step[Pnp] = "idle" /\ devState = "Removed"
      BY <2>1, PlaceFacts, Zenon DEF DeviceInv, DeviceOK, ContextOK, RequestInv, ActorsOK, Completing
    <3>2. ctx # "live" => ctx = "freed" /\ works = 0 /\ step[Dw] = "idle"
      BY Zenon DEF DeviceInv, ContextOK, Types
    <3>3. ctx # "live" => devPending = {} /\ \A t \in IoThread : step[t] # "dispatch"
      BY <2>5, <3>1, <3>2, Zenon DEF StoppedIsDrained
    <3>4. step[Killer] # "dispatch"
      BY <2>1, PlaceFacts, ActorFacts, Zenon DEF RequestInv, ActorsOK, Completing
    <3>5. ctx # "live" => \A a \in IoThread \cup {Killer} : ~UsesContext(a)
      BY <3>3, <3>4, Zenon DEF UsesContext
    <3>6. works > 0 => works # 0
      BY DEF Types
    <3> QED
      BY <3>2, <3>5, <3>6, Zenon DEF ContextIsLive
  <2>7. IrpTypeOK
    <3>1. EventOK(drained, {a \in {Pnp} : step[a] = "slept"})
      <4> DEFINE T == {a \in {Pnp} : step[a] = "slept"}
      <4>1. CASE drained = NewEvent
        BY <4>1 DEF EventOK, Asleep, NewEvent
      <4>2. CASE drained = [signalled |-> TRUE, asleep |-> << >>]
        BY <4>2 DEF EventOK, Asleep
      <4>3. CASE drained = [signalled |-> FALSE, asleep |-> <<Pnp>>]
        <5>1. drained.asleep = <<Pnp>> /\ drained.signalled = FALSE
          BY <4>3, Zenon
        <5>2. <<Pnp>> # << >> /\ DOMAIN <<Pnp>> = {1} /\ <<Pnp>>[1] = Pnp
          OBVIOUS
        <5>3. Pnp \in T
          BY <5>1, <5>2, Zenon DEF DeviceInv, DrainedOK
        <5>4. Asleep(drained) \subseteq T
          BY <5>1, <5>2, <5>3, Zenon DEF Asleep
        <5>5. /\ drained.signalled \in BOOLEAN /\ (Len(drained.asleep) > 0 => ~drained.signalled)
              /\ \A j, k \in DOMAIN drained.asleep : drained.asleep[j] = drained.asleep[k] => j = k
          <6>1. /\ drained.signalled \in BOOLEAN /\ ~drained.signalled
            BY <5>1, Zenon
          <6>2. \A j, k \in {1} : j = k
            BY Zenon
          <6> QED
            BY <5>1, <5>2, <6>1, <6>2
        <5> HIDE DEF T
        <5>6. EventOK(drained, T)
          BY <5>4, <5>5, Zenon DEF EventOK
        <5> QED
          BY <5>6, Zenon DEF T
      <4> QED
        BY <4>1, <4>2, <4>3, Zenon DEF DeviceInv, DrainedOK
    <3>2. Elems(queue) \subseteq IrpId
      BY DEF Types, Elems
    <3> QED
      BY <3>1, <3>2, Zenon DEF IrpTypeOK, Types, DeviceInv, ContextOK
  <2> QED
    BY <2>2, <2>3, <2>4, <2>5, <2>6, <2>7, Zenon DEF RequestsSound
<1> QED
  BY <1>1, IrpInvariance, PTL
=============================================================================
