----------------------------- MODULE PipeProofs -----------------------------
(***************************************************************************)
(* A pipe counts its writers, delivers its bytes once and in order, ends   *)
(* for good, and lets nobody sleep on bytes or on room, for any number of  *)
(* readers and of writers and every capacity.                              *)
(***************************************************************************)
EXTENDS Pipe, FiniteSetTheorems, SequenceTheorems, TLAPS

-----------------------------------------------------------------------------
(* Events.                                                                  *)

(* do_signal on an auto-reset event: the signal is remembered when nobody  *)
(* sleeps, and otherwise the oldest sleeper leaves the list.               *)
LEMMA SignalEffect ==
  ASSUME NEW S, NEW e \in EventOf(S), NEW T, EventOK(e, T)
  PROVE  /\ Signal(e) \in EventOf(S)
         /\ EventOK(Signal(e), T)
         /\ Asleep(Signal(e)) \subseteq Asleep(e)
         /\ \/ Signal(e).signalled
            \/ \E t \in Asleep(e) : t \notin Asleep(Signal(e))
<1> DEFINE q == e.asleep
<1>1. q \in Seq(S) /\ e.signalled \in BOOLEAN /\ e = [signalled |-> e.signalled, asleep |-> q]
  BY Zenon DEF EventOf
<1>2. CASE q = << >>
  <2>1. Signal(e) = [signalled |-> TRUE, asleep |-> q]
    BY <1>1, <1>2, Zenon DEF Signal
  <2>2. Signal(e).signalled = TRUE /\ Signal(e).asleep = q /\ Signal(e) \in EventOf(S)
    BY <1>1, <2>1 DEF EventOf
  <2>3. Len(q) = 0 /\ Asleep(Signal(e)) = Asleep(e)
    BY <1>2, <2>2, Zenon DEF Asleep
  <2>4. Asleep(e) \subseteq T /\ \A i, j \in DOMAIN q : q[i] = q[j] => i = j
    BY Zenon DEF EventOK
  <2>5. EventOK(Signal(e), T)
    <3> DEFINE s == Signal(e)
    <3>1. s.signalled \in BOOLEAN
      BY <2>2, Zenon
    <3>2. Asleep(s) \subseteq T
      BY <2>3, <2>4, Zenon
    <3>3. ~(Len(s.asleep) > 0)
      BY <2>2, <2>3
    <3>4. \A i, j \in DOMAIN s.asleep : s.asleep[i] = s.asleep[j] => i = j
      BY <2>2, <2>4, Zenon
    <3> HIDE DEF s
    <3>5. EventOK(s, T)
      BY <3>1, <3>2, <3>3, <3>4, Zenon DEF EventOK
    <3> QED
      BY <3>5, Zenon DEF s
  <2> QED
    BY <2>2, <2>3, <2>5, Zenon
<1>3. CASE q # << >>
  <2> DEFINE r == Tail(q)
  <2>1. /\ r \in Seq(S) /\ Len(r) = Len(q) - 1 /\ Len(q) \in Nat \ {0}
        /\ DOMAIN q = 1 .. Len(q) /\ DOMAIN r = 1 .. Len(q) - 1
        /\ \A i \in 1 .. Len(q) - 1 : r[i] = q[i + 1] /\ i + 1 \in DOMAIN q
    BY <1>1, <1>3
  <2>2. Signal(e) = [e EXCEPT !.asleep = r]
    BY <1>3, Zenon DEF Signal
  <2> HIDE DEF r
  <2>3. /\ Signal(e).asleep = r /\ Signal(e).signalled = e.signalled
        /\ Signal(e) \in EventOf(S)
    BY <1>1, <2>1, <2>2, Zenon DEF EventOf
  <2>4. \A i, j \in DOMAIN q : q[i] = q[j] => i = j
    BY Zenon DEF EventOK
  <2>5. \A i, j \in DOMAIN r : r[i] = r[j] => i = j
    <3> SUFFICES ASSUME NEW i \in DOMAIN r, NEW j \in DOMAIN r, r[i] = r[j]
                 PROVE  i = j
      BY Zenon
    <3>1. q[i + 1] = q[j + 1] /\ i + 1 \in DOMAIN q /\ j + 1 \in DOMAIN q
      BY <2>1, Zenon
    <3>2. i + 1 = j + 1
      BY <2>4, <3>1, Zenon
    <3> QED
      BY <2>1, <3>2
  <2>6. {r[i] : i \in DOMAIN r} \subseteq {q[i] : i \in DOMAIN q}
    BY <2>1, Zenon
  <2>7. 1 \in DOMAIN q /\ q[1] \notin {r[i] : i \in DOMAIN r}
    <3>1. 1 \in DOMAIN q
      BY <2>1
    <3>2. \A i \in DOMAIN r : r[i] # q[1]
      <4> SUFFICES ASSUME NEW i \in DOMAIN r, r[i] = q[1] PROVE FALSE
        BY Zenon
      <4>1. q[i + 1] = q[1] /\ i + 1 \in DOMAIN q
        BY <2>1, Zenon
      <4>2. i + 1 = 1
        BY <2>4, <3>1, <4>1, Zenon
      <4> QED
        BY <2>1, <4>2
    <3> QED
      BY <3>1, <3>2, Zenon
  <2>8. Asleep(Signal(e)) = {r[i] : i \in DOMAIN r} /\ Asleep(e) = {q[i] : i \in DOMAIN q}
    BY <2>3, Zenon DEF Asleep
  <2>9. ~e.signalled /\ Asleep(e) \subseteq T
    BY <2>1 DEF EventOK
  <2>10. EventOK(Signal(e), T)
    BY <2>3, <2>5, <2>6, <2>8, <2>9, Zenon DEF EventOK
  <2> QED
    BY <2>3, <2>6, <2>7, <2>8, <2>10, Zenon
<1> QED
  BY <1>2, <1>3, Zenon

(* do_wait: the signal is taken, or the task is the newest sleeper.        *)
LEMMA WaitEffect ==
  ASSUME NEW S, NEW e \in EventOf(S), NEW T, EventOK(e, T), NEW t \in S, t \notin Asleep(e)
  PROVE  /\ Wait(e, t) \in EventOf(S)
         /\ EventOK(Wait(e, t), T \cup {t})
         /\ e.signalled => /\ EventOK(Wait(e, t), T)
                           /\ Asleep(Wait(e, t)) = Asleep(e)
         /\ ~e.signalled => /\ Asleep(Wait(e, t)) = Asleep(e) \cup {t}
                            /\ ~Wait(e, t).signalled
<1> DEFINE q == e.asleep
<1>1. q \in Seq(S) /\ e.signalled \in BOOLEAN /\ e = [signalled |-> e.signalled, asleep |-> q]
  BY Zenon DEF EventOf
<1>2. CASE e.signalled
  BY <1>1, <1>2, Zenon DEF Wait, EventOK, Asleep, EventOf
<1>3. CASE ~e.signalled
  <2> DEFINE r == Append(q, t)
  <2>1. /\ r \in Seq(S) /\ Len(q) \in Nat
        /\ DOMAIN q = 1 .. Len(q) /\ DOMAIN r = 1 .. Len(q) + 1
        /\ r[Len(q) + 1] = t
        /\ \A i \in 1 .. Len(q) : r[i] = q[i]
    BY <1>1
  <2>2. Wait(e, t) = [e EXCEPT !.asleep = r]
    BY <1>3, Zenon DEF Wait
  <2> HIDE DEF r
  <2>3. /\ Wait(e, t).asleep = r /\ Wait(e, t).signalled = FALSE
        /\ Wait(e, t) \in EventOf(S)
    BY <1>1, <1>3, <2>1, <2>2, Zenon DEF EventOf
  <2>4. \A i, j \in DOMAIN q : q[i] = q[j] => i = j
    BY Zenon DEF EventOK
  <2>5. {r[i] : i \in DOMAIN r} = {q[i] : i \in DOMAIN q} \cup {t}
    BY <2>1
  <2>6. \A i, j \in DOMAIN r : r[i] = r[j] => i = j
    BY <2>1, <2>4 DEF Asleep
  <2>7. Asleep(Wait(e, t)) = {r[i] : i \in DOMAIN r} /\ Asleep(e) = {q[i] : i \in DOMAIN q}
    BY <2>3, Zenon DEF Asleep
  <2>8. Asleep(e) \subseteq T
    BY Zenon DEF EventOK
  <2>9. EventOK(Wait(e, t), T \cup {t})
    BY <2>3, <2>5, <2>6, <2>7, <2>8, Zenon DEF EventOK
  <2> QED
    BY <1>3, <2>3, <2>5, <2>7, <2>9, Zenon
<1> QED
  BY <1>1, <1>2, <1>3, Zenon

(* An interrupted wait leaves the list, and the others stay.               *)
LEMMA LeaveEffect ==
  ASSUME NEW S, NEW e \in EventOf(S), NEW T, EventOK(e, T), NEW t \in S
  PROVE  /\ Leave(e, t) \in EventOf(S)
         /\ EventOK(Leave(e, t), T \ {t})
         /\ Asleep(Leave(e, t)) = Asleep(e) \ {t}
         /\ Leave(e, t).signalled = e.signalled
<1> DEFINE q == e.asleep
<1>1. q \in Seq(S) /\ e.signalled \in BOOLEAN /\ e = [signalled |-> e.signalled, asleep |-> q]
  BY Zenon DEF EventOf
<1>2. CASE t \notin Asleep(e)
  BY <1>1, <1>2, Zenon DEF Leave, EventOK
<1>3. CASE t \in Asleep(e)
  <2> DEFINE p == CHOOSE k \in DOMAIN q : q[k] = t
             r == [j \in 1 .. (Len(q) - 1) |-> IF j < p THEN q[j] ELSE q[j + 1]]
  <2>1. p \in DOMAIN q /\ q[p] = t
    BY <1>3, Zenon DEF Asleep
  <2>2. Leave(e, t) = [e EXCEPT !.asleep = r]
    BY <1>3, Zenon DEF Leave
  <2> HIDE DEF p
  <2>3. DOMAIN q = 1 .. Len(q) /\ Len(q) \in Nat /\ Len(q) # 0
    BY <1>1, <2>1
  <2>4. /\ DOMAIN r = 1 .. (Len(q) - 1)
        /\ \A k \in 1 .. (Len(q) - 1) :
             /\ k < p => r[k] = q[k] /\ k \in DOMAIN q
             /\ ~(k < p) => r[k] = q[k + 1] /\ k + 1 \in DOMAIN q
    BY <2>1, <2>3
  <2> HIDE DEF r
  <2>5. r \in Seq(S)
    <3>1. \A k \in 1 .. (Len(q) - 1) : r[k] \in S
      BY <1>1, <2>3, <2>4
    <3>2. Len(q) - 1 \in Nat
      BY <2>3
    <3> HIDE DEF q
    <3>3. r = [k \in 1 .. (Len(q) - 1) |-> IF k < p THEN q[k] ELSE q[k + 1]]
      BY Zenon DEF r
    <3> QED
      BY <3>1, <3>2, <3>3
  <2>6. Leave(e, t).asleep = r /\ Leave(e, t).signalled = e.signalled /\ Leave(e, t) \in EventOf(S)
    BY <1>1, <2>2, <2>5, Zenon DEF EventOf
  <2>7. \A i, j \in DOMAIN q : q[i] = q[j] => i = j
    BY Zenon DEF EventOK
  <2>8. \A i, j \in DOMAIN r : r[i] = r[j] => i = j
    <3> SUFFICES ASSUME NEW i \in DOMAIN r, NEW j \in DOMAIN r, r[i] = r[j]
                 PROVE  i = j
      BY Zenon
    <3>1. i \in 1 .. (Len(q) - 1) /\ j \in 1 .. (Len(q) - 1) /\ p \in 1 .. Len(q)
      BY <2>1, <2>3, <2>4, Zenon
    <3>2. CASE i < p /\ j < p
      BY <2>4, <2>7, <3>1, <3>2, Zenon
    <3>3. CASE ~(i < p) /\ ~(j < p)
      <4>1. i + 1 = j + 1
        BY <2>4, <2>7, <3>1, <3>3
      <4> QED
        BY <3>1, <4>1
    <3>4. CASE i < p /\ ~(j < p)
      <4>1. i = j + 1
        BY <2>4, <2>7, <3>1, <3>4, Zenon
      <4> QED
        BY <3>1, <3>4, <4>1
    <3>5. CASE ~(i < p) /\ j < p
      <4>1. i + 1 = j
        BY <2>4, <2>7, <3>1, <3>5, Zenon
      <4> QED
        BY <3>1, <3>5, <4>1
    <3> QED
      BY <3>2, <3>3, <3>4, <3>5, Zenon
  <2>9. {r[i] : i \in DOMAIN r} = {q[i] : i \in DOMAIN q} \ {t}
    <3>1. \A i \in DOMAIN r : r[i] \in {q[k] : k \in DOMAIN q} /\ r[i] # t
      <4> SUFFICES ASSUME NEW i \in DOMAIN r
                   PROVE  r[i] \in {q[k] : k \in DOMAIN q} /\ r[i] # t
        BY Zenon
      <4>1. i \in 1 .. (Len(q) - 1) /\ p \in 1 .. Len(q)
        BY <2>1, <2>3, <2>4, Zenon
      <4>2. CASE i < p
        BY <2>1, <2>4, <2>7, <4>1, <4>2
      <4>3. CASE ~(i < p)
        <5>1. r[i] = q[i + 1] /\ i + 1 \in DOMAIN q /\ i + 1 # p
          BY <2>4, <4>1, <4>3
        <5> QED
          BY <2>1, <2>7, <5>1, Zenon
      <4> QED
        BY <4>2, <4>3, Zenon
    <3>2. \A k \in DOMAIN q : k # p => q[k] \in {r[i] : i \in DOMAIN r}
      <4> SUFFICES ASSUME NEW k \in DOMAIN q, k # p
                   PROVE  \E i \in DOMAIN r : r[i] = q[k]
        BY Zenon
      <4>1. k \in 1 .. Len(q) /\ p \in 1 .. Len(q)
        BY <2>1, <2>3, Zenon
      <4>2. CASE k < p
        <5>1. k \in 1 .. (Len(q) - 1)
          BY <4>1, <4>2, <2>3
        <5> QED
          BY <2>4, <4>2, <5>1, Zenon
      <4>3. CASE ~(k < p)
        <5>1. k - 1 \in 1 .. (Len(q) - 1) /\ ~(k - 1 < p) /\ (k - 1) + 1 = k
          BY <4>1, <4>3, <2>3
        <5> QED
          BY <2>4, <5>1, Zenon
      <4> QED
        BY <4>2, <4>3, Zenon
    <3> QED
      BY <2>1, <3>1, <3>2, Zenon
  <2>10. Asleep(Leave(e, t)) = Asleep(e) \ {t}
    BY <2>6, <2>9, Zenon DEF Asleep
  <2>11. EventOK(Leave(e, t), T \ {t})
    <3>1. Len(r) = Len(q) - 1
      BY <2>3, <2>4, <2>5
    <3>2. Len(q) > 0 => ~e.signalled
      BY Zenon DEF EventOK
    <3>3. Len(r) > 0 => ~e.signalled
      BY <2>3, <3>1, <3>2
    <3> QED
      BY <1>1, <2>6, <2>8, <2>10, <3>3, Zenon DEF EventOK
  <2> QED
    BY <2>6, <2>10, <2>11, Zenon
<1> QED
  BY <1>2, <1>3, Zenon

-----------------------------------------------------------------------------
(* What every step needs of the invariant.                                  *)

(* What is asleep on an event, and who may be, in one direction.           *)
LEMMA EventWider ==
  ASSUME NEW e, NEW T, NEW U, EventOK(e, T), Asleep(e) \subseteq U
  PROVE  EventOK(e, U)
BY Zenon DEF EventOK

(* The stream holds the bytes between taken and sent.                      *)
LEMMA StreamFacts ==
  ASSUME PipeInv
  PROVE  /\ stream \in Seq(Nat)
         /\ Len(stream) = sent - taken
         /\ Len(stream) \in Nat
         /\ stream # << >> <=> taken < sent
<1>1. sent - taken \in Nat /\ taken \in Nat /\ sent \in Nat /\ taken <= sent
  BY DEF PipeInv, DataTypes
<1>2. stream = [i \in 1 .. (sent - taken) |-> taken + i]
  BY Zenon DEF PipeInv, BytesInOrder
<1>3. \A i \in 1 .. (sent - taken) : taken + i \in Nat
  BY <1>1
<1>4. stream \in Seq(Nat) /\ Len(stream) = sent - taken
  BY <1>1, <1>2, <1>3
<1> QED
  BY <1>1, <1>4

(* A thread that has the stream lock is on no event's list.                *)
LEMMA LoopingAwake ==
  ASSUME PipeInv, NEW t \in Thread, Looping(t)
  PROVE  /\ t \notin Asleep(readWaiter) /\ t \notin Asleep(writeWaiter)
         /\ pc[t] \in {"loop", "slept"}
BY Zenon DEF PipeInv, TypeOK, EventOK, Looping

(* Nor is one that is not in a wait.                                       *)
LEMMA OthersAwake ==
  ASSUME PipeInv, NEW t \in Thread, pc[t] # "slept"
  PROVE  t \notin Asleep(readWaiter) /\ t \notin Asleep(writeWaiter)
BY Zenon DEF PipeInv, TypeOK, EventOK

(* A step of a thread t that is awake, or that stays where it is, and that *)
(* leaves the events alone or signals them: both events stay in order, the *)
(* others that could go on still can, and a signal that is not remembered  *)
(* has made somebody able to.                                              *)
LEMMA SignalsFrame ==
  ASSUME PipeInv, NEW t \in Thread,
         NEW where \in {"idle", "loop", "wait", "drop", "eof", "slept"},
         Goto(t, where),
         \/ where = pc[t]
         \/ /\ t \notin Asleep(readWaiter) /\ t \notin Asleep(writeWaiter)
            /\ where # "slept"
         ,
         t \in Reader => where \notin {"drop", "eof"},
         readWaiter' \in {readWaiter, Signal(readWaiter)},
         writeWaiter' \in {writeWaiter, Signal(writeWaiter)}
  PROVE  /\ readWaiter' \in EventOf(Reader) /\ writeWaiter' \in EventOf(Writer)
         /\ EventOK(readWaiter, {r \in Reader : pc[r] = "slept"})'
         /\ EventOK(writeWaiter, {w \in Writer : pc[w] = "slept"})'
         /\ pc' \in [Thread -> {"idle", "loop", "wait", "slept", "drop", "eof"}]
         /\ \A r \in Reader : pc'[r] \notin {"drop", "eof"}
         /\ \A u \in Thread : (u # t \/ where = pc[t]) /\ Looping(u) => Looping(u)'
         /\ readWaiter' = Signal(readWaiter) =>
              readWaiter'.signalled \/ \E r \in Reader : Looping(r)'
         /\ writeWaiter' = Signal(writeWaiter) =>
              writeWaiter'.signalled \/ \E w \in Writer : Looping(w)'
<1> DEFINE SR == {r \in Reader : pc[r] = "slept"}
           SW == {w \in Writer : pc[w] = "slept"}
<1>1. /\ readWaiter \in EventOf(Reader) /\ writeWaiter \in EventOf(Writer)
      /\ EventOK(readWaiter, SR) /\ EventOK(writeWaiter, SW)
      /\ pc \in [Thread -> {"idle", "loop", "wait", "slept", "drop", "eof"}]
      /\ \A r \in Reader : pc[r] \notin {"drop", "eof"}
  BY Zenon DEF PipeInv, DataTypes, TypeOK
<1>2. /\ readWaiter' \in EventOf(Reader) /\ EventOK(readWaiter', SR)
      /\ Asleep(readWaiter') \subseteq Asleep(readWaiter)
      /\ readWaiter' = Signal(readWaiter) =>
            readWaiter'.signalled
            \/ \E r \in Asleep(readWaiter) : r \notin Asleep(readWaiter')
  BY <1>1, SignalEffect
<1>3. /\ writeWaiter' \in EventOf(Writer) /\ EventOK(writeWaiter', SW)
      /\ Asleep(writeWaiter') \subseteq Asleep(writeWaiter)
      /\ writeWaiter' = Signal(writeWaiter) =>
            writeWaiter'.signalled
            \/ \E w \in Asleep(writeWaiter) : w \notin Asleep(writeWaiter')
  BY <1>1, SignalEffect
<1>4. Asleep(readWaiter) \subseteq SR /\ Asleep(writeWaiter) \subseteq SW
  BY <1>1, Zenon DEF EventOK
<1>5. /\ pc' \in [Thread -> {"idle", "loop", "wait", "slept", "drop", "eof"}]
      /\ \A u \in Thread : u # t \/ where = pc[t] => pc'[u] = pc[u]
      /\ pc'[t] = where
  BY <1>1, Zenon DEF Goto
<1>6. \A r \in Reader : pc'[r] \notin {"drop", "eof"}
  BY <1>1, <1>5, Zenon DEF Thread
<1>7. /\ Asleep(readWaiter') \subseteq {r \in Reader : pc'[r] = "slept"}
      /\ Asleep(writeWaiter') \subseteq {w \in Writer : pc'[w] = "slept"}
  BY <1>2, <1>3, <1>4, <1>5, Zenon DEF Thread
<1>8. /\ EventOK(readWaiter', {r \in Reader : pc'[r] = "slept"})
      /\ EventOK(writeWaiter', {w \in Writer : pc'[w] = "slept"})
  BY <1>2, <1>3, <1>7, EventWider, Zenon
<1>9. \A u \in Thread : (u # t \/ where = pc[t]) /\ Looping(u) => Looping(u)'
  BY <1>2, <1>3, <1>5, Zenon DEF Looping
<1>10. SR \cap SW = {} /\ SR \subseteq Thread /\ SW \subseteq Thread
  BY PipeAssumption, Zenon DEF Thread
<1>11. ASSUME NEW r \in Asleep(readWaiter), r \notin Asleep(readWaiter')
       PROVE  r \in Reader /\ Looping(r)'
  <2>1. r \in SR /\ r \notin Asleep(writeWaiter')
    BY <1>3, <1>4, <1>10, Zenon
  <2>2. pc'[r] = "slept"
    BY <1>5, <1>10, <2>1, Zenon
  <2> QED
    BY <1>11, <2>1, <2>2, Zenon DEF Looping
<1>12. ASSUME NEW w \in Asleep(writeWaiter), w \notin Asleep(writeWaiter')
       PROVE  w \in Writer /\ Looping(w)'
  <2>1. w \in SW /\ w \notin Asleep(readWaiter')
    BY <1>2, <1>4, <1>10, Zenon
  <2>2. pc'[w] = "slept"
    BY <1>5, <1>10, <2>1, Zenon
  <2> QED
    BY <1>12, <2>1, <2>2, Zenon DEF Looping
<1> QED
  BY <1>2, <1>3, <1>5, <1>6, <1>8, <1>9, <1>11, <1>12, Zenon

-----------------------------------------------------------------------------
(* Counting the writers.                                                    *)

(* The two sets writer_count counts: handles, and clones held by calls.    *)
Open == {w \in Writer : handle[w] = "open"}
Busy == {w \in Writer : pc[w] \notin {"idle", "eof"}}

(* The writers that hold a handle or are inside write() can be counted.    *)
LEMMA CountFacts ==
  ASSUME PipeInv
  PROVE  /\ IsFiniteSet(Open) /\ IsFiniteSet(Busy)
         /\ Cardinality(Open) \in Nat /\ Cardinality(Busy) \in Nat
         /\ writerCount = Cardinality(Open) + Cardinality(Busy)
         /\ writerCount = 0 => Open = {} /\ Busy = {}
<1>1. Open \subseteq Writer /\ Busy \subseteq Writer
  BY Zenon DEF Open, Busy
<1>2. IsFiniteSet(Open) /\ IsFiniteSet(Busy)
  BY <1>1, PipeAssumption, FS_Subset, Zenon
<1>3. Cardinality(Open) \in Nat /\ Cardinality(Busy) \in Nat
  BY <1>2, FS_CardinalityType, Zenon
<1>4. writerCount = Cardinality(Open) + Cardinality(Busy)
  BY Zenon DEF PipeInv, CountMatchesHandles, Open, Busy
<1>5. (Cardinality(Open) = 0 => Open = {}) /\ (Cardinality(Busy) = 0 => Busy = {})
  BY <1>2, FS_EmptySet, Zenon
<1> QED
  BY <1>2, <1>3, <1>4, <1>5

(* The step of a reader changes neither set.                               *)
LEMMA ReaderCount ==
  ASSUME PipeInv, NEW r \in Reader, NEW where, Goto(r, where),
         UNCHANGED <<handle, writerCount>>
  PROVE  /\ CountMatchesHandles' /\ writerCount' \in Nat
         /\ \A w \in Writer : pc'[w] = pc[w] /\ w # r
<1>1. \A w \in Writer : pc'[w] = pc[w] /\ w # r
  BY PipeAssumption, Zenon DEF PipeInv, TypeOK, Goto, Thread
<1>2. Open' = Open /\ Busy' = Busy
  BY <1>1, Zenon DEF Open, Busy
<1> QED
  BY <1>1, <1>2, Zenon DEF CountMatchesHandles, Open, Busy, PipeInv, DataTypes

(* A writer's call holds one clone from its start to its drop.             *)
LEMMA WriterCount ==
  ASSUME PipeInv, NEW w \in Writer,
         NEW where, Goto(w, where), UNCHANGED handle,
         \/ /\ pc[w] \notin {"idle", "eof"} <=> where \notin {"idle", "eof"}
            /\ UNCHANGED writerCount
         \/ /\ pc[w] \in {"idle", "eof"} /\ where \notin {"idle", "eof"}
            /\ writerCount' = writerCount + 1
         \/ /\ pc[w] \notin {"idle", "eof"} /\ where \in {"idle", "eof"}
            /\ writerCount' = writerCount - 1
  PROVE  CountMatchesHandles' /\ writerCount' \in Nat
<1>1. /\ pc'[w] = where
      /\ \A v \in Writer : v # w => pc'[v] = pc[v]
  BY Zenon DEF PipeInv, TypeOK, Goto, Thread
<1>2. Open' = Open
  BY Zenon DEF Open
<1>3. Busy' = IF where \in {"idle", "eof"} THEN Busy \ {w} ELSE Busy \cup {w}
  BY <1>1, Zenon DEF Busy
<1>4. w \in Busy <=> pc[w] \notin {"idle", "eof"}
  BY Zenon DEF Busy
<1>5. /\ Cardinality(Busy \cup {w}) = IF w \in Busy THEN Cardinality(Busy) ELSE Cardinality(Busy) + 1
      /\ Cardinality(Busy \ {w}) = IF w \in Busy THEN Cardinality(Busy) - 1 ELSE Cardinality(Busy)
  BY CountFacts, FS_AddElement, FS_RemoveElement, Zenon
<1>6. w \in Busy => Cardinality(Busy) # 0
  BY CountFacts, FS_EmptySet, Zenon
<1>7. writerCount' = Cardinality(Open') + Cardinality(Busy')
  BY <1>2, <1>3, <1>4, <1>5, CountFacts
<1>8. writerCount' \in Nat
  BY <1>4, <1>6, CountFacts
<1> QED
  BY <1>7, <1>8, Zenon DEF CountMatchesHandles, Open, Busy

(* A handle that is opened or closed is counted with it.                   *)
LEMMA HandleCount ==
  ASSUME PipeInv, NEW w \in Writer, NEW h, handle' = [handle EXCEPT ![w] = h],
         UNCHANGED pc,
         \/ handle[w] # "open" /\ h = "open" /\ writerCount' = writerCount + 1
         \/ handle[w] = "open" /\ h # "open" /\ writerCount' = writerCount - 1
         \/ handle[w] # "open" /\ h # "open" /\ UNCHANGED writerCount
  PROVE  CountMatchesHandles' /\ writerCount' \in Nat
<1>1. /\ handle'[w] = h
      /\ \A v \in Writer : v # w => handle'[v] = handle[v]
  BY Zenon DEF PipeInv, TypeOK
<1>2. Busy' = Busy
  BY Zenon DEF Busy
<1>3. Open' = IF h = "open" THEN Open \cup {w} ELSE Open \ {w}
  BY <1>1, Zenon DEF Open
<1>4. w \in Open <=> handle[w] = "open"
  BY Zenon DEF Open
<1>5. /\ Cardinality(Open \cup {w}) = IF w \in Open THEN Cardinality(Open) ELSE Cardinality(Open) + 1
      /\ Cardinality(Open \ {w}) = IF w \in Open THEN Cardinality(Open) - 1 ELSE Cardinality(Open)
  BY CountFacts, FS_AddElement, FS_RemoveElement, Zenon
<1>6. w \in Open => Cardinality(Open) # 0
  BY CountFacts, FS_EmptySet, Zenon
<1>7. writerCount' = Cardinality(Open') + Cardinality(Busy')
  BY <1>2, <1>3, <1>4, <1>5, CountFacts
<1>8. writerCount' \in Nat
  BY <1>4, <1>6, CountFacts
<1> QED
  BY <1>7, <1>8, Zenon DEF CountMatchesHandles, Open, Busy

-----------------------------------------------------------------------------
(* The initial states, and the steps, one lemma each.                       *)

(* A new pipe is empty and every writer has the handle.                    *)
LEMMA InitPipeInv == Init => PipeInv
<1> SUFFICES ASSUME Init PROVE PipeInv
  BY Zenon
<1>1. DataTypes
  <2>1. NewEvent \in EventOf(Reader) /\ NewEvent \in EventOf(Writer)
    <3>1. FALSE \in BOOLEAN
      BY Zenon
    <3> QED
      BY <3>1 DEF NewEvent, EventOf
  <2>2. eof \in BOOLEAN /\ wasted \in BOOLEAN
    BY Zenon DEF Init
  <2>3. readWaiter = NewEvent /\ writeWaiter = NewEvent
    BY Zenon DEF Init
  <2>4. sent = 0 /\ taken = 0 /\ len \in [Thread -> Nat] /\ writerCount \in Nat
    BY Zenon DEF Init
  <2> QED
    BY <2>1, <2>2, <2>3, <2>4 DEF DataTypes
<1>2. TypeOK
  BY PipeAssumption DEF Init, TypeOK, EventOK, NewEvent, Asleep, Thread
<1>3. CountMatchesHandles
  <2>1. PICK w \in Writer : handle = [v \in Writer |-> IF v = w THEN "open" ELSE "none"]
    BY Zenon DEF Init
  <2>2. {v \in Writer : handle[v] = "open"} = {w}
    BY <2>1, Zenon
  <2>3. {v \in Writer : pc[v] \notin {"idle", "eof"}} = {}
    BY Zenon DEF Init, Thread
  <2>4. Cardinality({w}) = 1 /\ Cardinality({}) = 0
    BY FS_Singleton, FS_EmptySet, Zenon
  <2>5. writerCount = 1
    BY Zenon DEF Init
  <2> QED
    BY <2>2, <2>3, <2>4, <2>5 DEF CountMatchesHandles
<1>4. BytesInOrder
  <2>1. stream = << >> /\ 1 .. (sent - taken) = {}
    BY DEF Init
  <2> QED
    BY <2>1 DEF BytesInOrder
<1> QED
  BY <1>1, <1>2, <1>3, <1>4, Zenon DEF Init, PipeInv, BytesWake, RoomWakes, Thread

(* Opening, inheriting and closing handles leaves the calls and the bytes  *)
(* alone; a signal only adds to who is awake.                              *)
LEMMA HandleSteps ==
  ASSUME PipeInv, NEW w \in Writer, HandleStep(w)
  PROVE  PipeInv'
<1>1. /\ UNCHANGED <<writeWaiter, stream, sent, taken, wasted, pc, len>>
      /\ readWaiter' \in {readWaiter, Signal(readWaiter)}
      /\ \E v \in Writer, h \in {"none", "open", "dropped", "closed"} :
           /\ handle' = [handle EXCEPT ![v] = h]
           /\ \/ handle[v] # "open" /\ h = "open" /\ writerCount' = writerCount + 1
              \/ handle[v] = "open" /\ h # "open" /\ writerCount' = writerCount - 1
              \/ handle[v] # "open" /\ h # "open" /\ UNCHANGED writerCount
  BY Zenon DEF HandleStep, Inherit, OpenPipe, CloseHandle, CloseSignal, eventVars, dataVars
<1>2. PICK v \in Writer, h \in {"none", "open", "dropped", "closed"} :
           /\ handle' = [handle EXCEPT ![v] = h]
           /\ \/ handle[v] # "open" /\ h = "open" /\ writerCount' = writerCount + 1
              \/ handle[v] = "open" /\ h # "open" /\ writerCount' = writerCount - 1
              \/ handle[v] # "open" /\ h # "open" /\ UNCHANGED writerCount
  BY <1>1, Zenon
<1>3. CountMatchesHandles' /\ writerCount' \in Nat
  BY <1>1, <1>2, HandleCount, Zenon
<1>4. /\ w \in Thread /\ pc[w] \in {"idle", "loop", "wait", "drop", "eof", "slept"}
      /\ Goto(w, pc[w]) /\ w \notin Reader
  BY <1>1, PipeAssumption, Zenon DEF PipeInv, TypeOK, Thread, Goto
<1>5. /\ readWaiter' \in EventOf(Reader) /\ writeWaiter' \in EventOf(Writer)
      /\ EventOK(readWaiter, {r \in Reader : pc[r] = "slept"})'
      /\ EventOK(writeWaiter, {v2 \in Writer : pc[v2] = "slept"})'
      /\ pc' \in [Thread -> {"idle", "loop", "wait", "slept", "drop", "eof"}]
      /\ \A r \in Reader : pc'[r] \notin {"drop", "eof"}
      /\ \A u \in Thread : Looping(u) => Looping(u)'
      /\ readWaiter' = Signal(readWaiter) =>
              readWaiter'.signalled \/ \E r \in Reader : Looping(r)'
  <2>1. /\ writeWaiter' \in {writeWaiter, Signal(writeWaiter)}
        /\ w \in Reader => pc[w] \notin {"drop", "eof"}
    BY <1>1, <1>4, Zenon
  <2> DEFINE Where == pc[w]
  <2>2. /\ Where \in {"idle", "loop", "wait", "drop", "eof", "slept"} /\ Goto(w, Where)
        /\ Where = pc[w] /\ (w \in Reader => Where \notin {"drop", "eof"})
    BY <1>4, <2>1, Zenon
  <2> HIDE DEF Where
  <2>3. /\ readWaiter' \in EventOf(Reader) /\ writeWaiter' \in EventOf(Writer)
        /\ EventOK(readWaiter, {r \in Reader : pc[r] = "slept"})'
        /\ EventOK(writeWaiter, {v2 \in Writer : pc[v2] = "slept"})'
        /\ pc' \in [Thread -> {"idle", "loop", "wait", "slept", "drop", "eof"}]
        /\ \A r \in Reader : pc'[r] \notin {"drop", "eof"}
        /\ \A u \in Thread : (u # w \/ Where = pc[w]) /\ Looping(u) => Looping(u)'
        /\ readWaiter' = Signal(readWaiter) =>
              readWaiter'.signalled \/ \E r \in Reader : Looping(r)'
    BY <1>1, <1>4, <2>1, <2>2, SignalsFrame, Zenon
  <2> QED
    BY <2>2, <2>3, Zenon
<1>6. handle' \in [Writer -> {"none", "open", "dropped", "closed"}]
  BY <1>2, Zenon DEF PipeInv, TypeOK
<1>7. TypeOK'
  BY <1>1, <1>5, <1>6, Zenon DEF PipeInv, TypeOK
<1>8. eof' \in BOOLEAN /\ (eof' => writerCount' = 0 /\ taken' = sent')
  <2>1. handle[w] = "open" => w \in Open /\ ~eof
    BY CountFacts, Zenon DEF Open, PipeInv
  <2>2. \/ eof' = eof /\ (eof => UNCHANGED writerCount)
        \/ eof' = FALSE
    <3>1. CASE \E x \in Writer : Inherit(w, x)
      BY <2>1, <3>1, Zenon DEF Inherit, dataVars
    <3>2. CASE OpenPipe(w)
      BY <3>2, Zenon DEF OpenPipe
    <3>3. CASE CloseHandle(w)
      BY <2>1, <3>3, Zenon DEF CloseHandle, dataVars
    <3>4. CASE CloseSignal(w)
      BY <3>4, Zenon DEF CloseSignal, dataVars
    <3> QED
      BY <3>1, <3>2, <3>3, <3>4, Zenon DEF HandleStep
  <2>3. eof' \in BOOLEAN
    BY <2>2, Zenon DEF PipeInv, DataTypes
  <2> QED
    BY <1>1, <2>2, <2>3 DEF PipeInv, DataTypes
<1>9. DataTypes'
  BY <1>1, <1>3, <1>5, <1>8, Zenon DEF PipeInv, DataTypes
<1>10. BytesInOrder'
  BY <1>1, Zenon DEF PipeInv, BytesInOrder
<1>11. BytesWake'
  BY <1>1, <1>5, Zenon DEF PipeInv, BytesWake, Thread
<1>12. RoomWakes'
  BY <1>1, <1>5, Zenon DEF PipeInv, RoomWakes, Thread
<1> QED
  BY <1>3, <1>7, <1>8, <1>9, <1>10, <1>11, <1>12, Zenon DEF PipeInv

(* What a reader that is awake may do under the stream lock, or before it:  *)
(* bytes it leaves behind come with a signal, unless it stays to take them, *)
(* and so does the room it makes.                                           *)
LEMMA ReaderStep ==
  ASSUME PipeInv, NEW r \in Reader, NEW where \in {"idle", "loop", "wait"},
         Goto(r, where),
         r \notin Asleep(readWaiter), r \notin Asleep(writeWaiter),
         readWaiter' \in {readWaiter, Signal(readWaiter)},
         writeWaiter' \in {writeWaiter, Signal(writeWaiter)},
         UNCHANGED <<handle, writerCount, sent>>,
         len' \in [Thread -> Nat], taken' \in Nat, taken' <= sent,
         eof' \in BOOLEAN, wasted' \in BOOLEAN,
         Len(stream') <= Capacity, BytesInOrder',
         eof' => writerCount = 0 /\ taken' = sent,
         stream' # << >> => readWaiter' = Signal(readWaiter) \/ where = "loop",
         \/ writeWaiter' = Signal(writeWaiter)
         \/ UNCHANGED <<writeWaiter, stream, wasted>>
  PROVE  PipeInv'
<1>1. r \in Thread /\ where \in {"idle", "loop", "wait", "drop", "eof", "slept"}
  BY Zenon DEF Thread
<1>2. /\ readWaiter' \in EventOf(Reader) /\ writeWaiter' \in EventOf(Writer)
      /\ EventOK(readWaiter, {q \in Reader : pc[q] = "slept"})'
      /\ EventOK(writeWaiter, {w \in Writer : pc[w] = "slept"})'
      /\ pc' \in [Thread -> {"idle", "loop", "wait", "slept", "drop", "eof"}]
      /\ \A q \in Reader : pc'[q] \notin {"drop", "eof"}
      /\ \A u \in Thread : u # r /\ Looping(u) => Looping(u)'
      /\ readWaiter' = Signal(readWaiter) =>
              readWaiter'.signalled \/ \E q \in Reader : Looping(q)'
      /\ writeWaiter' = Signal(writeWaiter) =>
              writeWaiter'.signalled \/ \E w \in Writer : Looping(w)'
  BY <1>1, SignalsFrame, Zenon
<1>3. /\ CountMatchesHandles' /\ writerCount' \in Nat
      /\ \A w \in Writer : pc'[w] = pc[w] /\ w # r
  BY ReaderCount, Zenon
<1>4. DataTypes'
  BY <1>2, <1>3, Zenon DEF PipeInv, DataTypes
<1>5. TypeOK'
  BY <1>2, Zenon DEF PipeInv, TypeOK
<1>6. BytesWake'
  <2>1. where = "loop" => Looping(r)'
    BY <1>1, Zenon DEF Goto, Looping, PipeInv, TypeOK
  <2> QED
    BY <1>2, <2>1, Zenon DEF BytesWake
<1>7. RoomWakes'
  <2>1. CASE writeWaiter' = Signal(writeWaiter)
    BY <1>2, <2>1, Zenon DEF RoomWakes
  <2>2. CASE UNCHANGED <<writeWaiter, stream, wasted>>
    BY <1>2, <1>3, <2>2, Zenon DEF PipeInv, RoomWakes, Thread
  <2> QED
    BY <2>1, <2>2, Zenon
<1> QED
  BY <1>3, <1>4, <1>5, <1>6, <1>7, Zenon DEF PipeInv

(* The same for a writer: bytes come with a signal, and so does room that  *)
(* is left, unless the writer stays to use it or was woken for nothing.    *)
LEMMA WriterStep ==
  ASSUME PipeInv, NEW w \in Writer, NEW where \in {"idle", "loop", "wait", "drop", "eof"},
         Goto(w, where),
         w \notin Asleep(readWaiter), w \notin Asleep(writeWaiter),
         readWaiter' \in {readWaiter, Signal(readWaiter)},
         writeWaiter' \in {writeWaiter, Signal(writeWaiter)},
         UNCHANGED <<handle, taken>>,
         CountMatchesHandles', writerCount' \in Nat,
         len' \in [Thread -> Nat], sent' \in Nat, taken <= sent',
         eof' \in BOOLEAN, wasted' \in BOOLEAN,
         Len(stream') <= Capacity, BytesInOrder',
         eof' => writerCount' = 0 /\ taken = sent',
         readWaiter' = Signal(readWaiter) \/ UNCHANGED stream,
         \/ writeWaiter' = Signal(writeWaiter)
         \/ Len(stream') = Capacity
         \/ wasted' = TRUE
         \/ where = "loop"
         \/ where # "wait" /\ ~Looping(w) /\ UNCHANGED <<writeWaiter, stream, wasted>>
  PROVE  PipeInv'
<1>1. /\ w \in Thread /\ w \notin Reader
      /\ where \in {"idle", "loop", "wait", "drop", "eof", "slept"}
  BY PipeAssumption, Zenon DEF Thread
<1>2. /\ readWaiter' \in EventOf(Reader) /\ writeWaiter' \in EventOf(Writer)
      /\ EventOK(readWaiter, {q \in Reader : pc[q] = "slept"})'
      /\ EventOK(writeWaiter, {v \in Writer : pc[v] = "slept"})'
      /\ pc' \in [Thread -> {"idle", "loop", "wait", "slept", "drop", "eof"}]
      /\ \A q \in Reader : pc'[q] \notin {"drop", "eof"}
      /\ \A u \in Thread : u # w /\ Looping(u) => Looping(u)'
      /\ readWaiter' = Signal(readWaiter) =>
              readWaiter'.signalled \/ \E q \in Reader : Looping(q)'
      /\ writeWaiter' = Signal(writeWaiter) =>
              writeWaiter'.signalled \/ \E v \in Writer : Looping(v)'
  BY <1>1, SignalsFrame, Zenon
<1>3. pc'[w] = where /\ \A u \in Thread : u # w => pc'[u] = pc[u]
  BY <1>1, Zenon DEF Goto, PipeInv, TypeOK
<1>4. DataTypes'
  BY <1>2, Zenon DEF PipeInv, DataTypes
<1>5. TypeOK'
  BY <1>2, Zenon DEF PipeInv, TypeOK
<1>6. BytesWake'
  <2>1. CASE readWaiter' = Signal(readWaiter)
    BY <1>2, <2>1, Zenon DEF BytesWake
  <2>2. CASE UNCHANGED <<stream, readWaiter>>
    <3>1. \A q \in Reader : q \in Thread /\ q # w
      BY <1>1, Zenon DEF Thread
    <3> QED
      BY <1>2, <2>2, <3>1, Zenon DEF PipeInv, BytesWake
  <2> QED
    BY <2>1, <2>2, Zenon
<1>7. RoomWakes'
  <2>1. CASE writeWaiter' = Signal(writeWaiter)
    BY <1>2, <2>1, Zenon DEF RoomWakes
  <2>2. CASE Len(stream') = Capacity \/ wasted' = TRUE
    BY <2>2, PipeAssumption DEF RoomWakes
  <2>3. CASE where = "loop"
    BY <1>3, <2>3, Zenon DEF RoomWakes, Looping
  <2>4. CASE where # "wait" /\ ~Looping(w) /\ UNCHANGED <<writeWaiter, stream, wasted>>
    <3>1. \A v \in Writer : v \in Thread
      BY Zenon DEF Thread
    <3> QED
      BY <1>2, <1>3, <2>4, <3>1, Zenon DEF PipeInv, RoomWakes
  <2> QED
    BY <2>1, <2>2, <2>3, <2>4, Zenon
<1> QED
  BY <1>4, <1>5, <1>6, <1>7, Zenon DEF PipeInv

(* Taking a prefix of the stream leaves the bytes from there on.           *)
LEMMA TakeBytes ==
  ASSUME PipeInv, NEW give \in Nat, give <= Len(stream)
  PROVE  /\ SubSeq(stream, give + 1, Len(stream))
              = [i \in 1 .. (sent - (taken + give)) |-> (taken + give) + i]
         /\ Len(SubSeq(stream, give + 1, Len(stream))) = Len(stream) - give
         /\ taken + give \in Nat /\ taken + give <= sent
<1>1. /\ stream \in Seq(Nat) /\ Len(stream) = sent - taken /\ Len(stream) \in Nat
      /\ sent \in Nat /\ taken \in Nat
  BY StreamFacts, Zenon DEF PipeInv, DataTypes
<1>2. \A i \in 1 .. (sent - taken) : stream[i] = taken + i
  BY Zenon DEF PipeInv, BytesInOrder
<1> DEFINE u == SubSeq(stream, give + 1, Len(stream))
<1>3. /\ u \in Seq(Nat) /\ Len(u) = Len(stream) - give
      /\ \A i \in 1 .. (Len(stream) - give) : u[i] = stream[give + i]
  <2> DEFINE m == give + 1
             n == Len(stream)
  <2>1. /\ m \in Int /\ n \in Int
        /\ \A i \in m .. n : stream[i] \in Nat
    BY <1>1
  <2>2. (IF m <= n THEN n - m + 1 ELSE 0) = Len(stream) - give /\ n - m + 1 = Len(stream) - give
    BY <1>1
  <2>3. \A i \in 1 .. (Len(stream) - give) : m + i - 1 = give + i
    BY <1>1
  <2> HIDE DEF m, n
  <2>4. /\ SubSeq(stream, m, n) \in Seq(Nat)
        /\ Len(SubSeq(stream, m, n)) = IF m <= n THEN n - m + 1 ELSE 0
        /\ \A i \in 1 .. n - m + 1 : SubSeq(stream, m, n)[i] = stream[m + i - 1]
    BY <2>1, SubSeqProperties
  <2>5. u = SubSeq(stream, m, n)
    BY Zenon DEF m, n
  <2> HIDE DEF u
  <2> QED
    BY <2>2, <2>3, <2>4, <2>5, Zenon
<1>4. DOMAIN u = 1 .. (sent - (taken + give))
  BY <1>1, <1>3
<1>5. \A i \in 1 .. (sent - (taken + give)) : u[i] = (taken + give) + i
  BY <1>1, <1>2, <1>3
<1> HIDE DEF u
<1>6. u = [i \in 1 .. (sent - (taken + give)) |-> (taken + give) + i]
  BY <1>3, <1>4, <1>5
<1> QED
  BY <1>1, <1>3, <1>6 DEF u

(* Appending the next bytes keeps the order.                               *)
LEMMA PutBytes ==
  ASSUME PipeInv, NEW get \in Nat
  PROVE  /\ stream \o [i \in 1 .. get |-> sent + i]
              = [i \in 1 .. ((sent + get) - taken) |-> taken + i]
         /\ Len(stream \o [i \in 1 .. get |-> sent + i]) = Len(stream) + get
         /\ sent + get \in Nat /\ taken <= sent + get
<1>1. /\ stream \in Seq(Nat) /\ Len(stream) = sent - taken /\ Len(stream) \in Nat
      /\ sent \in Nat /\ taken \in Nat
  BY StreamFacts, Zenon DEF PipeInv, DataTypes
<1>2. \A i \in 1 .. (sent - taken) : stream[i] = taken + i
  BY Zenon DEF PipeInv, BytesInOrder
<1> DEFINE more == [i \in 1 .. get |-> sent + i]
           u == stream \o more
<1>3. more \in Seq(Nat) /\ Len(more) = get /\ \A i \in 1 .. get : more[i] = sent + i
  <2>1. \A i \in 1 .. get : sent + i \in Nat
    BY <1>1
  <2> QED
    BY <2>1
<1> HIDE DEF more
<1>4. /\ u \in Seq(Nat) /\ Len(u) = Len(stream) + get
      /\ \A i \in 1 .. Len(stream) : u[i] = stream[i]
      /\ \A i \in 1 .. get : u[Len(stream) + i] = more[i]
  <2>1. /\ u \in Seq(Nat) /\ Len(u) = Len(stream) + Len(more)
        /\ \A i \in 1 .. Len(stream) + Len(more) :
              u[i] = IF i <= Len(stream) THEN stream[i] ELSE more[i - Len(stream)]
    BY <1>1, <1>3, ConcatProperties, Zenon
  <2> HIDE DEF u
  <2>2. ASSUME NEW i \in 1 .. get PROVE u[Len(stream) + i] = more[i]
    <3>1. /\ Len(stream) + i \in 1 .. Len(stream) + Len(more) /\ ~(Len(stream) + i <= Len(stream))
          /\ (Len(stream) + i) - Len(stream) = i
      BY <1>1, <1>3
    <3> QED
      BY <2>1, <3>1, Zenon
  <2> QED
    BY <1>1, <1>3, <2>1, <2>2
<1>5. DOMAIN u = 1 .. ((sent + get) - taken)
  BY <1>1, <1>4
<1> HIDE DEF u
<1>6. \A i \in 1 .. ((sent + get) - taken) : u[i] = taken + i
  <2> SUFFICES ASSUME NEW i \in 1 .. ((sent + get) - taken) PROVE u[i] = taken + i
    BY Zenon
  <2>1. CASE i <= Len(stream)
    BY <1>1, <1>2, <1>4, <2>1
  <2>2. CASE ~(i <= Len(stream))
    <3>1. i - Len(stream) \in 1 .. get /\ i = Len(stream) + (i - Len(stream))
      BY <1>1, <2>2
    <3>2. u[i] = more[i - Len(stream)]
      BY <1>4, <3>1, Zenon
    <3> QED
      BY <1>1, <1>3, <3>1, <3>2
  <2> QED
    BY <2>1, <2>2, Zenon
<1>7. u = [i \in 1 .. ((sent + get) - taken) |-> taken + i]
  <2>1. u = [i \in DOMAIN u |-> u[i]]
    BY <1>4, LenProperties, Zenon
  <2> QED
    BY <1>5, <1>6, <2>1, Zenon
<1>8. taken <= sent + get /\ sent + get \in Nat
  BY <1>1
<1> QED
  BY <1>4, <1>7, <1>8, Zenon DEF u, more

(* A reader calls read().                                                  *)
LEMMA ReadCallInv ==
  ASSUME PipeInv, NEW r \in Reader, NEW n \in 1 .. MaxLen, ReadCall(r, n)
  PROVE  PipeInv'
<1>1. r \in Thread /\ r \notin Asleep(readWaiter) /\ r \notin Asleep(writeWaiter)
  BY OthersAwake, Zenon DEF ReadCall, Thread
<1>2. len' \in [Thread -> Nat]
  BY <1>1, PipeAssumption DEF ReadCall, PipeInv, DataTypes
<1>3. UNCHANGED <<stream, sent, taken, eof, wasted, readWaiter, writeWaiter, handle, writerCount>>
  BY Zenon DEF ReadCall, dataVars, eventVars
<1>4. BytesInOrder'
  BY <1>3, Zenon DEF PipeInv, BytesInOrder
<1> QED
  BY <1>1, <1>2, <1>3, <1>4, ReaderStep, Zenon DEF ReadCall, PipeInv, DataTypes, TypeOK

(* A read takes what is there and wakes a writer.                          *)
LEMMA ReadBytesInv ==
  ASSUME PipeInv, NEW r \in Reader, NEW fault \in BOOLEAN, ReadBytes(r, fault)
  PROVE  PipeInv'
<1> DEFINE give == Least(len[r], Len(stream))
<1>1. /\ r \in Thread /\ r \notin Asleep(readWaiter) /\ r \notin Asleep(writeWaiter)
      /\ Goto(r, "idle") /\ UNCHANGED <<handle, writerCount, sent, len, eof>>
      /\ writeWaiter' = Signal(writeWaiter)
      /\ readWaiter' = IF stream' # << >> THEN Signal(readWaiter) ELSE readWaiter
  BY LoopingAwake, Zenon DEF ReadBytes, Thread
<1>2. give \in Nat /\ give <= Len(stream)
  <2>1. len[r] \in Nat /\ Len(stream) \in Nat
    BY <1>1, StreamFacts, Zenon DEF PipeInv, DataTypes
  <2> QED
    BY <2>1 DEF Least
<1>3. /\ stream' = IF fault THEN stream ELSE SubSeq(stream, give + 1, Len(stream))
      /\ taken' = IF fault THEN taken ELSE taken + give
  BY Zenon DEF ReadBytes
<1> HIDE DEF give
<1>4. BytesInOrder' /\ taken' \in Nat /\ taken' <= sent /\ Len(stream') <= Capacity
  <2>1. CASE fault
    BY <1>1, <1>3, <2>1, Zenon DEF PipeInv, BytesInOrder, DataTypes, TypeOK
  <2>2. CASE ~fault
    <3>1. /\ stream' = [i \in 1 .. (sent - taken') |-> taken' + i]
          /\ Len(stream') = Len(stream) - give
          /\ taken' \in Nat /\ taken' <= sent
      BY <1>2, <1>3, <2>2, TakeBytes, Zenon
    <3>2. Len(stream) \in Nat /\ Len(stream) <= Capacity /\ Capacity \in Nat
      BY StreamFacts, PipeAssumption, Zenon DEF PipeInv, TypeOK
    <3>3. Len(stream') <= Capacity
      <4>1. Len(stream') = Len(stream) - give
        BY <3>1, Zenon
      <4> QED
        BY <1>2, <3>2, <4>1
    <3> QED
      BY <1>1, <3>1, <3>3, Zenon DEF BytesInOrder
  <2> QED
    BY <2>1, <2>2, Zenon
<1>5. eof' \in BOOLEAN /\ ~eof
  <2>1. ~eof
    BY StreamFacts DEF ReadBytes, PipeInv, DataTypes
  <2> QED
    BY <1>1, <2>1, Zenon DEF PipeInv, DataTypes
<1>6. wasted' \in BOOLEAN
  BY Zenon DEF ReadBytes
<1>7. len' \in [Thread -> Nat]
  BY <1>1, Zenon DEF PipeInv, DataTypes
<1> QED
  BY <1>1, <1>4, <1>5, <1>6, <1>7, ReaderStep, Zenon

(* A read of an empty pipe without writers tells the end of file.          *)
LEMMA ReadEofInv ==
  ASSUME PipeInv, NEW r \in Reader, ReadEof(r)
  PROVE  PipeInv'
<1>1. /\ r \in Thread /\ r \notin Asleep(readWaiter) /\ r \notin Asleep(writeWaiter)
      /\ Goto(r, "idle")
      /\ UNCHANGED <<readWaiter, writeWaiter, handle, writerCount, len, stream, sent, taken, wasted>>
      /\ writerCount = 0 /\ stream = << >>
  BY LoopingAwake, Zenon DEF ReadEof, Thread, eventVars
<1>2. eof' \in BOOLEAN
  BY Zenon DEF ReadEof
<1>3. BytesInOrder'
  BY <1>1, Zenon DEF PipeInv, BytesInOrder
<1>4. taken = sent /\ taken \in Nat
  BY <1>1, StreamFacts DEF PipeInv, DataTypes
<1>5. len' \in [Thread -> Nat] /\ wasted' \in BOOLEAN /\ Len(stream') <= Capacity
  BY <1>1, Zenon DEF PipeInv, DataTypes, TypeOK
<1> QED
  BY <1>1, <1>2, <1>3, <1>4, <1>5, ReaderStep

(* A read of an empty pipe decides to sleep.                               *)
LEMMA ReadEmptyInv ==
  ASSUME PipeInv, NEW r \in Reader, ReadEmpty(r)
  PROVE  PipeInv'
<1>1. /\ r \in Thread /\ r \notin Asleep(readWaiter) /\ r \notin Asleep(writeWaiter)
      /\ Goto(r, "wait")
      /\ UNCHANGED <<readWaiter, writeWaiter, handle, writerCount, len, stream, sent, taken, eof, wasted>>
      /\ stream = << >>
  BY LoopingAwake, Zenon DEF ReadEmpty, Thread, eventVars, dataVars
<1>2. BytesInOrder'
  BY <1>1, Zenon DEF PipeInv, BytesInOrder
<1>3. /\ len' \in [Thread -> Nat] /\ eof' \in BOOLEAN /\ wasted' \in BOOLEAN
      /\ Len(stream') <= Capacity /\ taken' \in Nat /\ taken' <= sent
      /\ eof' => writerCount = 0 /\ taken' = sent
  BY <1>1, Zenon DEF PipeInv, DataTypes, TypeOK
<1> QED
  BY <1>1, <1>2, <1>3, ReaderStep, Zenon

(* A writer calls write().                                                 *)
LEMMA WriteCallInv ==
  ASSUME PipeInv, NEW w \in Writer, NEW n \in 1 .. MaxLen, WriteCall(w, n)
  PROVE  PipeInv'
<1>1. /\ w \in Thread /\ w \notin Asleep(readWaiter) /\ w \notin Asleep(writeWaiter)
      /\ pc[w] = "idle" /\ Goto(w, "loop") /\ writerCount' = writerCount + 1
      /\ UNCHANGED <<readWaiter, writeWaiter, handle, stream, sent, taken, eof, wasted>>
  BY OthersAwake, Zenon DEF WriteCall, Thread, eventVars, dataVars
<1>2. len' \in [Thread -> Nat]
  BY <1>1, PipeAssumption DEF WriteCall, PipeInv, DataTypes
<1>3. BytesInOrder'
  BY <1>1, Zenon DEF PipeInv, BytesInOrder
<1>4. CountMatchesHandles' /\ writerCount' \in Nat
  BY <1>1, WriterCount, Zenon
<1>5. ~eof
  <2>1. w \in Open
    BY Zenon DEF WriteCall, Open
  <2> QED
    BY <2>1, CountFacts, Zenon DEF PipeInv
<1>6. /\ eof' \in BOOLEAN /\ wasted' \in BOOLEAN
      /\ Len(stream') <= Capacity /\ sent' \in Nat /\ taken <= sent'
  BY <1>1, Zenon DEF PipeInv, DataTypes, TypeOK
<1> QED
  BY <1>1, <1>2, <1>3, <1>4, <1>5, <1>6, WriterStep, Zenon

(* The clone of a call of write() is dropped; the last one wakes a reader. *)
LEMMA DropInv ==
  ASSUME PipeInv, NEW w \in Writer, DropClone(w) \/ DropSignal(w)
  PROVE  PipeInv'
<1> DEFINE where == IF DropClone(w) /\ writerCount = 1 THEN "eof" ELSE "idle"
<1>1. /\ pc[w] \in {"drop", "eof"} /\ Goto(w, where)
      /\ where \in {"idle", "eof"}
      /\ UNCHANGED <<writeWaiter, handle, len, stream, sent, taken, eof, wasted>>
      /\ readWaiter' \in {readWaiter, Signal(readWaiter)}
      /\ \/ pc[w] = "drop" /\ writerCount' = writerCount - 1
         \/ pc[w] = "eof" /\ UNCHANGED writerCount
  BY Zenon DEF DropClone, DropSignal, eventVars, dataVars
<1> HIDE DEF where
<1>2. w \in Thread /\ w \notin Asleep(readWaiter) /\ w \notin Asleep(writeWaiter) /\ ~Looping(w)
  BY <1>1, OthersAwake, Zenon DEF Thread, Looping
<1>3. CountMatchesHandles' /\ writerCount' \in Nat
  BY <1>1, WriterCount, Zenon
<1>4. BytesInOrder'
  BY <1>1, Zenon DEF PipeInv, BytesInOrder
<1>5. eof' => writerCount' = 0 /\ taken = sent'
  <2>1. pc[w] = "drop" => w \in Busy
    BY Zenon DEF Busy
  <2> QED
    BY <1>1, <2>1, CountFacts, Zenon DEF PipeInv
<1>6. /\ eof' \in BOOLEAN /\ wasted' \in BOOLEAN /\ len' \in [Thread -> Nat]
      /\ Len(stream') <= Capacity /\ sent' \in Nat /\ taken <= sent'
  BY <1>1, Zenon DEF PipeInv, DataTypes, TypeOK
<1> QED
  BY <1>1, <1>2, <1>3, <1>4, <1>5, <1>6, WriterStep, Zenon

(* A writer that holds a clone keeps the pipe from ending.                 *)
LEMMA WriterHolds ==
  ASSUME PipeInv, NEW w \in Writer, Looping(w)
  PROVE  /\ w \in Thread /\ w \notin Asleep(readWaiter) /\ w \notin Asleep(writeWaiter)
         /\ pc[w] \notin {"idle", "eof"} /\ ~eof
<1>1. w \in Thread
  BY Zenon DEF Thread
<1>2. /\ w \notin Asleep(readWaiter) /\ w \notin Asleep(writeWaiter)
      /\ pc[w] \in {"loop", "slept"}
  BY <1>1, LoopingAwake, Zenon
<1>3. w \in Busy
  BY <1>2, Zenon DEF Busy
<1> QED
  BY <1>1, <1>2, <1>3, CountFacts, Zenon DEF PipeInv

(* A write stores what fits and wakes a reader.                            *)
LEMMA WriteBytesInv ==
  ASSUME PipeInv, NEW w \in Writer, WriteBytes(w)
  PROVE  PipeInv'
<1> DEFINE get == Least(len[w], Capacity - Len(stream))
<1>1. /\ w \in Thread /\ w \notin Asleep(readWaiter) /\ w \notin Asleep(writeWaiter)
      /\ pc[w] \notin {"idle", "eof"} /\ ~eof
      /\ Goto(w, "drop") /\ UNCHANGED <<handle, writerCount, len, taken, eof>>
      /\ readWaiter' = Signal(readWaiter)
      /\ writeWaiter' = IF Len(stream') < Capacity THEN Signal(writeWaiter) ELSE writeWaiter
  BY WriterHolds, Zenon DEF WriteBytes
<1>2. Len(stream) \in Nat /\ Len(stream) <= Capacity /\ Capacity \in Nat
  BY StreamFacts, PipeAssumption, Zenon DEF PipeInv, TypeOK
<1>3. get \in Nat /\ get <= Capacity - Len(stream)
  <2>1. len[w] \in Nat
    BY <1>1, Zenon DEF PipeInv, DataTypes
  <2> QED
    BY <1>2, <2>1 DEF Least
<1>4. stream' = stream \o [i \in 1 .. get |-> sent + i] /\ sent' = sent + get
  BY Zenon DEF WriteBytes
<1> HIDE DEF get
<1>5. /\ stream' = [i \in 1 .. (sent' - taken) |-> taken + i]
      /\ Len(stream') = Len(stream) + get
      /\ sent' \in Nat /\ taken <= sent'
  BY <1>3, <1>4, PutBytes, Zenon
<1>6. BytesInOrder'
  BY <1>1, <1>5, Zenon DEF BytesInOrder
<1>7. Len(stream') <= Capacity /\ (Len(stream') < Capacity \/ Len(stream') = Capacity)
  <2>1. Len(stream') = Len(stream) + get
    BY <1>5, Zenon
  <2> QED
    BY <1>2, <1>3, <2>1
<1>8. CountMatchesHandles' /\ writerCount' \in Nat
  BY <1>1, WriterCount, Zenon
<1>9. wasted' \in BOOLEAN
  BY Zenon DEF WriteBytes
<1>10. eof' \in BOOLEAN /\ len' \in [Thread -> Nat] /\ ~eof'
  BY <1>1, Zenon DEF PipeInv, DataTypes
<1> QED
  BY <1>1, <1>5, <1>6, <1>7, <1>8, <1>9, <1>10, WriterStep, Zenon

(* A write whose copy fails ends, and one to a full pipe decides to wait.  *)
LEMMA WriteEndsInv ==
  ASSUME PipeInv, NEW w \in Writer, WriteFault(w) \/ WriteFull(w)
  PROVE  PipeInv'
<1> DEFINE where == IF WriteFault(w) THEN "drop" ELSE "wait"
<1>1. /\ w \in Thread /\ w \notin Asleep(readWaiter) /\ w \notin Asleep(writeWaiter)
      /\ pc[w] \notin {"idle", "eof"} /\ ~eof
  BY WriterHolds, Zenon DEF WriteFault, WriteFull
<1>2. /\ Goto(w, where) /\ where \in {"drop", "wait"}
      /\ UNCHANGED <<readWaiter, writeWaiter, handle, writerCount, len, stream, sent, taken, eof>>
      /\ Len(stream) = Capacity \/ wasted' = TRUE
  BY Zenon DEF WriteFault, WriteFull, eventVars, dataVars
<1>3. wasted' \in BOOLEAN
  BY Zenon DEF WriteFault, WriteFull, dataVars, PipeInv, DataTypes
<1> HIDE DEF where
<1>4. CountMatchesHandles' /\ writerCount' \in Nat
  BY <1>1, <1>2, WriterCount, Zenon
<1>5. BytesInOrder'
  BY <1>2, Zenon DEF PipeInv, BytesInOrder
<1>6. /\ eof' \in BOOLEAN /\ len' \in [Thread -> Nat]
      /\ Len(stream') <= Capacity /\ sent' \in Nat /\ taken <= sent'
  BY <1>2, Zenon DEF PipeInv, DataTypes, TypeOK
<1> QED
  BY <1>1, <1>2, <1>3, <1>4, <1>5, <1>6, WriterStep, Zenon

(* A reader that waits: it takes the signal and goes on, or is the newest  *)
(* sleeper, and then somebody else is awake to take the bytes.             *)
LEMMA ReadWaitInv ==
  ASSUME PipeInv, NEW r \in Reader, ReadWait(r)
  PROVE  PipeInv'
<1> DEFINE SR == {q \in Reader : pc[q] = "slept"}
           where == IF readWaiter.signalled THEN "loop" ELSE "slept"
<1>1. /\ r \in Thread /\ r \notin Writer /\ pc[r] = "wait"
      /\ Goto(r, where) /\ readWaiter' = Wait(readWaiter, r)
      /\ UNCHANGED <<writeWaiter, handle, writerCount, len, stream, sent, taken, eof, wasted>>
      /\ r \notin Asleep(readWaiter) /\ r \notin Asleep(writeWaiter)
  BY OthersAwake, PipeAssumption, Zenon DEF ReadWait, Thread, dataVars
<1>2. /\ readWaiter \in EventOf(Reader) /\ EventOK(readWaiter, SR)
      /\ pc \in [Thread -> {"idle", "loop", "wait", "slept", "drop", "eof"}]
      /\ \A q \in Reader : pc[q] \notin {"drop", "eof"}
  BY Zenon DEF PipeInv, DataTypes, TypeOK
<1>3. /\ Wait(readWaiter, r) \in EventOf(Reader)
      /\ EventOK(Wait(readWaiter, r), SR \cup {r})
      /\ readWaiter.signalled => /\ EventOK(Wait(readWaiter, r), SR)
                                 /\ Asleep(Wait(readWaiter, r)) = Asleep(readWaiter)
      /\ ~readWaiter.signalled => /\ Asleep(Wait(readWaiter, r)) = Asleep(readWaiter) \cup {r}
                                  /\ ~Wait(readWaiter, r).signalled
  <2> HIDE DEF SR
  <2> QED
    BY <1>1, <1>2, WaitEffect, Zenon
<1>4. /\ pc' = [pc EXCEPT ![r] = where] /\ pc'[r] = where
      /\ \A u \in Thread : u # r => pc'[u] = pc[u]
      /\ pc' \in [Thread -> {"idle", "loop", "wait", "slept", "drop", "eof"}]
      /\ \A q \in Reader : pc'[q] \notin {"drop", "eof"}
  BY <1>1, <1>2, Zenon DEF Goto, Thread
<1>5. EventOK(readWaiter', {q \in Reader : pc'[q] = "slept"})
  <2>1. CASE readWaiter.signalled
    <3>1. SR = {q \in Reader : pc'[q] = "slept"}
      BY <1>1, <1>4, <2>1, Zenon DEF Thread
    <3> QED
      BY <1>1, <1>3, <2>1, <3>1, Zenon
  <2>2. CASE ~readWaiter.signalled
    <3>1. SR \cup {r} = {q \in Reader : pc'[q] = "slept"}
      BY <1>1, <1>4, <2>2, Zenon DEF Thread
    <3> QED
      BY <1>1, <1>3, <3>1, Zenon
  <2> QED
    BY <2>1, <2>2, Zenon
<1>6. \A w \in Writer : pc'[w] = pc[w] /\ w \in Thread /\ w # r
  BY <1>1, <1>4, Zenon DEF Thread
<1>7. EventOK(writeWaiter', {w \in Writer : pc'[w] = "slept"})
  <2>1. {w \in Writer : pc'[w] = "slept"} = {w \in Writer : pc[w] = "slept"}
    BY <1>6, Zenon
  <2> QED
    BY <1>1, <2>1, Zenon DEF PipeInv, TypeOK
<1>8. \A u \in Thread : u # r /\ Looping(u) => Looping(u)'
  BY <1>1, <1>3, <1>4, Zenon DEF Looping
<1>9. CountMatchesHandles' /\ writerCount' \in Nat
  BY <1>1, ReaderCount, Zenon
<1>10. DataTypes'
  BY <1>1, <1>3, Zenon DEF PipeInv, DataTypes
<1>11. TypeOK'
  BY <1>1, <1>4, <1>5, <1>7, Zenon DEF PipeInv, TypeOK
<1>12. BytesWake'
  <2>1. CASE readWaiter.signalled
    BY <1>4, <2>1, Zenon DEF BytesWake, Looping
  <2>2. CASE ~readWaiter.signalled
    <3>1. ~Looping(r)
      BY <1>1, Zenon DEF Looping
    <3> QED
      BY <1>1, <1>8, <2>2, <3>1, Zenon DEF PipeInv, BytesWake, Thread
  <2> QED
    BY <2>1, <2>2, Zenon
<1>13. RoomWakes'
  BY <1>1, <1>6, <1>8, Zenon DEF PipeInv, RoomWakes
<1>14. BytesInOrder' /\ (eof' => writerCount' = 0 /\ taken' = sent')
  BY <1>1, Zenon DEF PipeInv, BytesInOrder
<1> QED
  BY <1>9, <1>10, <1>11, <1>12, <1>13, <1>14, Zenon DEF PipeInv

(* An interrupted wait takes nothing with it: the reader was asleep.       *)
LEMMA ReadInterruptedInv ==
  ASSUME PipeInv, NEW r \in Reader, ReadInterrupted(r)
  PROVE  PipeInv'
<1> DEFINE SR == {q \in Reader : pc[q] = "slept"}
<1>1. /\ r \in Thread /\ r \notin Writer
      /\ pc[r] = "wait" \/ r \in Asleep(readWaiter)
      /\ Goto(r, "idle") /\ readWaiter' = Leave(readWaiter, r)
      /\ UNCHANGED <<writeWaiter, handle, writerCount, len, stream, sent, taken, eof, wasted>>
  BY PipeAssumption, Zenon DEF ReadInterrupted, Thread, dataVars
<1>2. /\ readWaiter \in EventOf(Reader) /\ EventOK(readWaiter, SR)
      /\ pc \in [Thread -> {"idle", "loop", "wait", "slept", "drop", "eof"}]
      /\ \A q \in Reader : pc[q] \notin {"drop", "eof"}
  BY Zenon DEF PipeInv, DataTypes, TypeOK
<1>3. /\ Leave(readWaiter, r) \in EventOf(Reader)
      /\ EventOK(Leave(readWaiter, r), SR \ {r})
      /\ Asleep(Leave(readWaiter, r)) = Asleep(readWaiter) \ {r}
      /\ Leave(readWaiter, r).signalled = readWaiter.signalled
  <2> HIDE DEF SR
  <2> QED
    BY <1>1, <1>2, LeaveEffect, Zenon
<1>4. /\ pc'[r] = "idle"
      /\ \A u \in Thread : u # r => pc'[u] = pc[u]
      /\ pc' \in [Thread -> {"idle", "loop", "wait", "slept", "drop", "eof"}]
      /\ \A q \in Reader : pc'[q] \notin {"drop", "eof"}
  BY <1>1, <1>2, Zenon DEF Goto, Thread
<1>5. EventOK(readWaiter', {q \in Reader : pc'[q] = "slept"})
  <2>1. SR \ {r} = {q \in Reader : pc'[q] = "slept"}
    BY <1>1, <1>4, Zenon DEF Thread
  <2> QED
    BY <1>1, <1>3, <2>1, Zenon
<1>6. \A w \in Writer : pc'[w] = pc[w] /\ w \in Thread /\ w # r
  BY <1>1, <1>4, Zenon DEF Thread
<1>7. EventOK(writeWaiter', {w \in Writer : pc'[w] = "slept"})
  <2>1. {w \in Writer : pc'[w] = "slept"} = {w \in Writer : pc[w] = "slept"}
    BY <1>6, Zenon
  <2> QED
    BY <1>1, <2>1, Zenon DEF PipeInv, TypeOK
<1>8. \A u \in Thread : u # r /\ Looping(u) => Looping(u)'
  BY <1>1, <1>3, <1>4, Zenon DEF Looping
<1>9. CountMatchesHandles' /\ writerCount' \in Nat
  BY <1>1, ReaderCount, Zenon
<1>10. DataTypes'
  BY <1>1, <1>3, Zenon DEF PipeInv, DataTypes
<1>11. TypeOK'
  BY <1>1, <1>4, <1>5, <1>7, Zenon DEF PipeInv, TypeOK
<1>12. ~Looping(r)
  BY <1>1, <1>2, Zenon DEF Looping, EventOK
<1>13. BytesWake'
  BY <1>1, <1>3, <1>8, <1>12, Zenon DEF PipeInv, BytesWake, Thread
<1>14. RoomWakes'
  BY <1>1, <1>6, <1>8, Zenon DEF PipeInv, RoomWakes
<1>15. BytesInOrder' /\ (eof' => writerCount' = 0 /\ taken' = sent')
  BY <1>1, Zenon DEF PipeInv, BytesInOrder
<1> QED
  BY <1>9, <1>10, <1>11, <1>13, <1>14, <1>15, Zenon DEF PipeInv

(* A write waits for the event, which may be signalled.                    *)
LEMMA WriteWaitInv ==
  ASSUME PipeInv, NEW w \in Writer, WriteWait(w)
  PROVE  PipeInv'
<1> DEFINE SW == {v \in Writer : pc[v] = "slept"}
           where == IF writeWaiter.signalled THEN "loop" ELSE "slept"
<1>1. /\ w \in Thread /\ w \notin Reader /\ pc[w] = "wait"
      /\ Goto(w, where) /\ writeWaiter' = Wait(writeWaiter, w)
      /\ UNCHANGED <<readWaiter, handle, writerCount, len, stream, sent, taken, eof, wasted>>
      /\ w \notin Asleep(readWaiter) /\ w \notin Asleep(writeWaiter)
  BY OthersAwake, PipeAssumption, Zenon DEF WriteWait, Thread, dataVars
<1>2. /\ writeWaiter \in EventOf(Writer) /\ EventOK(writeWaiter, SW)
      /\ pc \in [Thread -> {"idle", "loop", "wait", "slept", "drop", "eof"}]
      /\ \A q \in Reader : pc[q] \notin {"drop", "eof"}
  BY Zenon DEF PipeInv, DataTypes, TypeOK
<1>3. /\ Wait(writeWaiter, w) \in EventOf(Writer)
      /\ EventOK(Wait(writeWaiter, w), SW \cup {w})
      /\ writeWaiter.signalled => /\ EventOK(Wait(writeWaiter, w), SW)
                                  /\ Asleep(Wait(writeWaiter, w)) = Asleep(writeWaiter)
      /\ ~writeWaiter.signalled => /\ Asleep(Wait(writeWaiter, w)) = Asleep(writeWaiter) \cup {w}
                                   /\ ~Wait(writeWaiter, w).signalled
  <2> HIDE DEF SW
  <2> QED
    BY <1>1, <1>2, WaitEffect, Zenon
<1>4. /\ pc'[w] = where
      /\ \A u \in Thread : u # w => pc'[u] = pc[u]
      /\ pc' \in [Thread -> {"idle", "loop", "wait", "slept", "drop", "eof"}]
      /\ \A q \in Reader : pc'[q] \notin {"drop", "eof"}
  BY <1>1, <1>2, Zenon DEF Goto, Thread
<1>5. EventOK(writeWaiter', {v \in Writer : pc'[v] = "slept"})
  <2>1. CASE writeWaiter.signalled
    <3>1. SW = {v \in Writer : pc'[v] = "slept"}
      BY <1>1, <1>4, <2>1, Zenon DEF Thread
    <3> QED
      BY <1>1, <1>3, <2>1, <3>1, Zenon
  <2>2. CASE ~writeWaiter.signalled
    <3>1. SW \cup {w} = {v \in Writer : pc'[v] = "slept"}
      BY <1>1, <1>4, <2>2, Zenon DEF Thread
    <3> QED
      BY <1>1, <1>3, <3>1, Zenon
  <2> QED
    BY <2>1, <2>2, Zenon
<1>6. \A r \in Reader : pc'[r] = pc[r] /\ r \in Thread /\ r # w
  BY <1>1, <1>4, Zenon DEF Thread
<1>7. EventOK(readWaiter', {r \in Reader : pc'[r] = "slept"})
  <2>1. {r \in Reader : pc'[r] = "slept"} = {r \in Reader : pc[r] = "slept"}
    BY <1>6, Zenon
  <2> QED
    BY <1>1, <2>1, Zenon DEF PipeInv, TypeOK
<1>8. \A u \in Thread : u # w /\ Looping(u) => Looping(u)'
  BY <1>1, <1>3, <1>4, Zenon DEF Looping
<1>9. CountMatchesHandles' /\ writerCount' \in Nat
  <2>1. where \notin {"idle", "eof"}
    BY Zenon
  <2> HIDE DEF where
  <2> QED
    BY <1>1, <2>1, WriterCount, Zenon
<1>10. DataTypes'
  BY <1>1, <1>3, Zenon DEF PipeInv, DataTypes
<1>11. TypeOK'
  BY <1>1, <1>4, <1>5, <1>7, Zenon DEF PipeInv, TypeOK
<1>12. BytesWake'
  BY <1>1, <1>6, <1>8, Zenon DEF PipeInv, BytesWake
<1>13. RoomWakes'
  <2>1. CASE writeWaiter.signalled
    BY <1>4, <2>1, Zenon DEF RoomWakes, Looping
  <2>2. CASE ~writeWaiter.signalled
    <3>1. ~Looping(w)
      BY <1>1, Zenon DEF Looping
    <3> QED
      BY <1>1, <1>8, <2>2, <3>1, Zenon DEF PipeInv, RoomWakes, Thread
  <2> QED
    BY <2>1, <2>2, Zenon
<1>14. BytesInOrder' /\ (eof' => writerCount' = 0 /\ taken' = sent')
  BY <1>1, Zenon DEF PipeInv, BytesInOrder
<1> QED
  BY <1>9, <1>10, <1>11, <1>12, <1>13, <1>14, Zenon DEF PipeInv

(* A write that is interrupted leaves the list of the event.               *)
LEMMA WriteInterruptedInv ==
  ASSUME PipeInv, NEW w \in Writer, WriteInterrupted(w)
  PROVE  PipeInv'
<1> DEFINE SW == {v \in Writer : pc[v] = "slept"}
<1>1. /\ w \in Thread /\ w \notin Reader
      /\ pc[w] = "wait" \/ w \in Asleep(writeWaiter)
      /\ Goto(w, "drop") /\ writeWaiter' = Leave(writeWaiter, w)
      /\ UNCHANGED <<readWaiter, handle, writerCount, len, stream, sent, taken, eof, wasted>>
  BY PipeAssumption, Zenon DEF WriteInterrupted, Thread, dataVars
<1>2. /\ writeWaiter \in EventOf(Writer) /\ EventOK(writeWaiter, SW)
      /\ pc \in [Thread -> {"idle", "loop", "wait", "slept", "drop", "eof"}]
      /\ \A q \in Reader : pc[q] \notin {"drop", "eof"}
  BY Zenon DEF PipeInv, DataTypes, TypeOK
<1>3. /\ Leave(writeWaiter, w) \in EventOf(Writer)
      /\ EventOK(Leave(writeWaiter, w), SW \ {w})
      /\ Asleep(Leave(writeWaiter, w)) = Asleep(writeWaiter) \ {w}
      /\ Leave(writeWaiter, w).signalled = writeWaiter.signalled
  <2> HIDE DEF SW
  <2> QED
    BY <1>1, <1>2, LeaveEffect, Zenon
<1>4. /\ pc'[w] = "drop"
      /\ \A u \in Thread : u # w => pc'[u] = pc[u]
      /\ pc' \in [Thread -> {"idle", "loop", "wait", "slept", "drop", "eof"}]
      /\ \A q \in Reader : pc'[q] \notin {"drop", "eof"}
  BY <1>1, <1>2, Zenon DEF Goto, Thread
<1>5. EventOK(writeWaiter', {v \in Writer : pc'[v] = "slept"})
  <2>1. SW \ {w} = {v \in Writer : pc'[v] = "slept"}
    BY <1>1, <1>4, Zenon DEF Thread
  <2> QED
    BY <1>1, <1>3, <2>1, Zenon
<1>6. \A r \in Reader : pc'[r] = pc[r] /\ r \in Thread /\ r # w
  BY <1>1, <1>4, Zenon DEF Thread
<1>7. EventOK(readWaiter', {r \in Reader : pc'[r] = "slept"})
  <2>1. {r \in Reader : pc'[r] = "slept"} = {r \in Reader : pc[r] = "slept"}
    BY <1>6, Zenon
  <2> QED
    BY <1>1, <2>1, Zenon DEF PipeInv, TypeOK
<1>8. \A u \in Thread : u # w /\ Looping(u) => Looping(u)'
  BY <1>1, <1>3, <1>4, Zenon DEF Looping
<1>9. pc[w] \in {"wait", "slept"} /\ ~Looping(w)
  BY <1>1, <1>2, Zenon DEF Looping, EventOK
<1>10. CountMatchesHandles' /\ writerCount' \in Nat
  BY <1>1, <1>9, WriterCount, Zenon
<1>11. DataTypes'
  BY <1>1, <1>3, Zenon DEF PipeInv, DataTypes
<1>12. TypeOK'
  BY <1>1, <1>4, <1>5, <1>7, Zenon DEF PipeInv, TypeOK
<1>13. BytesWake'
  BY <1>1, <1>6, <1>8, Zenon DEF PipeInv, BytesWake
<1>14. RoomWakes'
  <2>1. \A v \in Writer : v \in Thread
    BY Zenon DEF Thread
  <2> QED
    BY <1>1, <1>3, <1>4, <1>8, <1>9, <2>1, Zenon DEF PipeInv, RoomWakes
<1>15. BytesInOrder' /\ (eof' => writerCount' = 0 /\ taken' = sent')
  BY <1>1, Zenon DEF PipeInv, BytesInOrder
<1> QED
  BY <1>10, <1>11, <1>12, <1>13, <1>14, <1>15, Zenon DEF PipeInv

-----------------------------------------------------------------------------
(* The invariant, and what it says.                                         *)

(* Every step of every thread keeps the invariant.                         *)
LEMMA NextPipeInv == PipeInv /\ [Next]_vars => PipeInv'
<1> SUFFICES ASSUME PipeInv, [Next]_vars PROVE PipeInv'
  BY Zenon
<1>1. CASE UNCHANGED vars
  BY <1>1, Zenon DEF vars, PipeInv, DataTypes, TypeOK, CountMatchesHandles, BytesInOrder, BytesWake,
              RoomWakes, Looping
<1>2. ASSUME NEW r \in Reader,
             \/ \E n \in 1 .. MaxLen : ReadCall(r, n)
             \/ ReadStep(r) \/ ReadInterrupted(r)
      PROVE  PipeInv'
  BY <1>2, ReadCallInv, ReadBytesInv, ReadEofInv, ReadEmptyInv, ReadWaitInv, ReadInterruptedInv, Zenon
     DEF ReadStep
<1>3. ASSUME NEW w \in Writer,
             \/ \E n \in 1 .. MaxLen : WriteCall(w, n)
             \/ WriteStep(w) \/ WriteInterrupted(w) \/ HandleStep(w)
      PROVE  PipeInv'
  BY <1>3, WriteCallInv, WriteBytesInv, WriteEndsInv, WriteWaitInv, DropInv, WriteInterruptedInv,
     HandleSteps, Zenon DEF WriteStep
<1> QED
  BY <1>1, <1>2, <1>3, Zenon DEF Next

(* The inductive invariant of the pipe.                                    *)
LEMMA PipeInvAlways == Spec => []PipeInv
BY InitPipeInv, NextPipeInv, PTL DEF Spec

(* writer_count is the number of handles and of clones in use: it is zero  *)
(* only when nobody can write any more (PipeType::new, clone and drop).    *)
THEOREM CountMatchesHandlesAlways == Spec => []CountMatchesHandles
<1>1. PipeInv => CountMatchesHandles
  BY Zenon DEF PipeInv
<1> QED
  BY <1>1, PipeInvAlways, PTL

(* read() delivers what write() put in, once and in order, and a reader    *)
(* that is told of the end of file has missed nothing.                     *)
THEOREM DeliversAlways == Spec => []Delivers
<1>1. PipeInv => Delivers
  BY Zenon DEF PipeInv, Delivers, EofIsFinal
<1> QED
  BY <1>1, PipeInvAlways, PTL

(* Nobody sleeps on bytes, and nobody on room unless a wake-up went to a   *)
(* writer whose buffer could not be read: the signals read() and write()   *)
(* pass on are enough for any number of readers and writers.               *)
THEOREM ServesAlways == Spec => []Serves
<1>1. PipeInv => Serves
  <2> SUFFICES ASSUME PipeInv PROVE Serves
    BY Zenon
  <2>1. Asleep(readWaiter) # {} => ~readWaiter.signalled
    <3>1. Asleep(readWaiter) # {} => Len(readWaiter.asleep) > 0
      BY DEF PipeInv, DataTypes, EventOf, Asleep
    <3> QED
      BY <3>1, Zenon DEF PipeInv, TypeOK, EventOK
  <2>2. Asleep(writeWaiter) # {} =>
           ~writeWaiter.signalled /\ \E w \in Writer : pc[w] = "slept"
    <3>1. Asleep(writeWaiter) # {} => Len(writeWaiter.asleep) > 0
      BY DEF PipeInv, DataTypes, EventOf, Asleep
    <3> QED
      BY <3>1, Zenon DEF PipeInv, TypeOK, EventOK
  <2> QED
    BY <2>1, <2>2, Zenon DEF PipeInv, BytesWake, RoomWakes, Serves, ReadersServed, WritersServed
<1> QED
  BY <1>1, PipeInvAlways, PTL
=============================================================================
