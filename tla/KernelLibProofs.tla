-------------------------- MODULE KernelLibProofs --------------------------
(***************************************************************************)
(* Two small structures of the kernel's library.  RemoveLock frees the     *)
(* protected data at most once and never under a holder, for every finite  *)
(* set of callers; RingBuffer implements a bounded queue for every size.   *)
(***************************************************************************)
EXTENDS KernelLib, FiniteSetTheorems, TLAPS

(* The set of reference holders is finite, so counting it makes sense.     *)
LEMMA HoldersFinite == IsFiniteSet(Holders) /\ Cardinality(Holders) \in Nat
<1>1. Holders \subseteq Caller
  BY Zenon DEF Holders
<1>2. IsFiniteSet(Holders)
  BY <1>1, CallerAssumption, FS_Subset, Zenon
<1> QED
  BY <1>2, FS_CardinalityType, Zenon

(* A reference count of zero means nobody is between acquire() and         *)
(* release().                                                              *)
LEMMA CountZero ==
  ASSUME CountMatchesHolders
  PROVE  refs = 0 <=> Holders = {}
<1>1. Cardinality(Holders) = 0 <=> Holders = {}
  BY HoldersFinite, FS_EmptySet, Zenon
<1> QED
  BY <1>1, Zenon DEF CountMatchesHolders

(* A fresh lock satisfies the invariant.                                   *)
LEMMA InitIInv == Init => IInv
<1> SUFFICES ASSUME Init PROVE IInv
  BY Zenon
<1>1. Holders = {} /\ Freeing = {}
  BY Zenon DEF Init, Holders, Freeing
<1>2. CountMatchesHolders
  BY <1>1, FS_EmptySet, Zenon DEF CountMatchesHolders, Init
<1>3. TypeOK
  BY Zenon DEF Init, TypeOK
<1>4. ~removing /\ frees = 0 /\ remover = "idle"
  BY Zenon DEF Init
<1>5. HeldDataIsLive /\ FreedAtMostOnce /\ DrainedIsFreed
  BY <1>1, <1>4 DEF HeldDataIsLive, FreedAtMostOnce, DrainedIsFreed
<1> QED
  BY <1>2, <1>3, <1>4, <1>5, Zenon DEF IInv

(* The load of acquire() changes nothing the invariant counts.             *)
LEMMA AcquireLoadStep ==
  ASSUME IInv, NEW c \in Caller, AcquireLoad(c)
  PROVE  IInv'
<1>1. Holders' = Holders /\ Freeing' = Freeing
  BY Zenon DEF IInv, TypeOK, AcquireLoad, Holders, Freeing
<1>2. TypeOK'
  BY Zenon DEF IInv, TypeOK, AcquireLoad
<1> QED
  BY <1>1, <1>2, Zenon DEF IInv, AcquireLoad, CountMatchesHolders, HeldDataIsLive,
                    FreedAtMostOnce, DrainedIsFreed

(* A successful exchange adds one holder and one to the count.             *)
LEMMA AcquireCasStep ==
  ASSUME IInv, NEW c \in Caller, AcquireCas(c)
  PROVE  IInv'
<1>1. TypeOK'
  BY DEF IInv, TypeOK, AcquireCas
<1>2. Freeing' = Freeing
  BY Zenon DEF IInv, TypeOK, AcquireCas, Freeing
<1>3. CASE pc'[c] = "held"
  <2>1. /\ ~removing /\ refs' = refs + 1
        /\ pc' = [pc EXCEPT ![c] = "held"] /\ pc[c] = "loaded"
        /\ UNCHANGED <<removing, remover, frees>>
    BY <1>3, Zenon DEF AcquireCas, IInv, TypeOK
  <2>2. Holders' = Holders \cup {c} /\ c \notin Holders
    BY <2>1, Zenon DEF Holders, IInv, TypeOK
  <2>3. Cardinality(Holders') = Cardinality(Holders) + 1
    BY <2>2, HoldersFinite, FS_AddElement, Zenon
  <2>4. CountMatchesHolders'
    BY <2>1, <2>3, Zenon DEF IInv, CountMatchesHolders
  <2>5. frees = 0 /\ Freeing = {} /\ remover = "idle"
    BY <2>1 DEF IInv, TypeOK, FreedAtMostOnce
  <2> QED
    BY <1>1, <1>2, <2>1, <2>4, <2>5, Zenon
    DEF IInv, HeldDataIsLive, FreedAtMostOnce, DrainedIsFreed
<1>4. CASE pc'[c] = "idle"
  <2>1. Holders' = Holders
    BY <1>4, Zenon DEF AcquireCas, Holders, IInv, TypeOK
  <2>2. UNCHANGED <<removing, refs, remover, frees>>
    BY <1>4, Zenon DEF AcquireCas, IInv, TypeOK
  <2> QED
    BY <1>1, <1>2, <2>1, <2>2, Zenon
    DEF IInv, CountMatchesHolders, HeldDataIsLive, FreedAtMostOnce,
        DrainedIsFreed
<1> QED
  BY <1>3, <1>4, Zenon DEF AcquireCas, IInv, TypeOK

(* The release of the last reference after removal began makes its caller  *)
(* the only one that frees; any other release frees nothing.               *)
LEMMA ReleaseStep ==
  ASSUME IInv, NEW c \in Caller, Release(c)
  PROVE  IInv'
<1>1. c \in Holders
  BY Zenon DEF Release, Holders
<1>2. refs # 0 /\ refs \in Nat
  BY <1>1, CountZero, Zenon DEF IInv, TypeOK
<1>3. TypeOK'
  BY <1>2 DEF IInv, TypeOK, Release
<1>4. Holders' = Holders \ {c}
  BY Zenon DEF IInv, TypeOK, Release, Holders
<1>5. Cardinality(Holders') = Cardinality(Holders) - 1
  BY <1>1, <1>4, HoldersFinite, FS_RemoveElement, Zenon
<1>6. CountMatchesHolders'
  BY <1>5, Zenon DEF IInv, CountMatchesHolders, Release
<1>7. frees = 0 /\ Freeing = {} /\ remover # "freeing"
  BY <1>1, Zenon DEF IInv, HeldDataIsLive
<1>8. refs' = 0 <=> Holders' = {}
  <2>1. IsFiniteSet(Holders')
    BY <1>4, HoldersFinite, FS_RemoveElement, Zenon
  <2> QED
    BY <1>6, <2>1, FS_EmptySet, Zenon DEF CountMatchesHolders
<1>9. CASE removing /\ refs = 1
  <2>1. Freeing' = {c}
    BY <1>7, <1>9, Zenon DEF Release, Freeing, IInv, TypeOK
  <2>2. Holders' = {}
    BY <1>8, <1>9 DEF Release
  <2>3. remover = "done"
    BY <1>7, <1>9, Zenon DEF IInv, TypeOK
  <2> QED
    BY <1>3, <1>6, <1>7, <1>9, <2>1, <2>2, <2>3
    DEF IInv, Release, HeldDataIsLive, FreedAtMostOnce, DrainedIsFreed
<1>10. CASE ~(removing /\ refs = 1)
  <2>1. Freeing' = {}
    BY <1>7, <1>10, Zenon DEF Release, Freeing, IInv, TypeOK
  <2>2. ~(removing /\ refs' = 0)
    BY <1>2, <1>10 DEF Release
  <2> QED
    BY <1>3, <1>6, <1>7, <2>1, <2>2, Zenon
    DEF IInv, Release, HeldDataIsLive, FreedAtMostOnce, DrainedIsFreed
<1> QED
  BY <1>9, <1>10, Zenon

(* begin_remove() frees exactly when the count it saw was zero.            *)
LEMMA BeginRemoveStep ==
  ASSUME IInv, BeginRemove
  PROVE  IInv'
<1>1. Holders' = Holders /\ Freeing' = Freeing
  BY Zenon DEF BeginRemove, Holders, Freeing
<1>2. TypeOK'
  BY Zenon DEF IInv, TypeOK, BeginRemove
<1>3. ~removing /\ frees = 0 /\ Freeing = {}
  BY DEF IInv, TypeOK, BeginRemove, FreedAtMostOnce
<1>4. refs = 0 <=> Holders = {}
  BY CountZero, Zenon DEF IInv
<1> QED
  BY <1>1, <1>2, <1>3, <1>4, Zenon
  DEF IInv, BeginRemove, CountMatchesHolders, HeldDataIsLive, FreedAtMostOnce,
      DrainedIsFreed

(* The caller that frees is the only one, and nobody holds a reference.    *)
LEMMA CallerFreeStep ==
  ASSUME IInv, NEW c \in Caller, CallerFree(c)
  PROVE  IInv'
<1>1. c \in Freeing
  BY Zenon DEF CallerFree, Freeing
<1>2. /\ Freeing = {c} /\ remover = "done" /\ removing
      /\ frees = 0 /\ Holders = {}
  BY <1>1 DEF IInv, TypeOK, FreedAtMostOnce, HeldDataIsLive
<1>3. Freeing' = {} /\ Holders' = Holders
  BY <1>2, Zenon DEF CallerFree, Freeing, Holders, IInv, TypeOK
<1>4. TypeOK'
  BY DEF IInv, TypeOK, CallerFree
<1> QED
  BY <1>2, <1>3, <1>4
  DEF IInv, CallerFree, CountMatchesHolders, HeldDataIsLive, FreedAtMostOnce,
      DrainedIsFreed

(* The remover that frees is the only one, and nobody holds a reference.   *)
LEMMA RemoverFreeStep ==
  ASSUME IInv, RemoverFree
  PROVE  IInv'
<1>1. Freeing = {} /\ frees = 0 /\ removing /\ Holders = {}
  BY DEF IInv, TypeOK, RemoverFree, FreedAtMostOnce, HeldDataIsLive
<1>2. Holders' = Holders /\ Freeing' = Freeing
  BY Zenon DEF RemoverFree, Holders, Freeing
<1>3. TypeOK'
  BY DEF IInv, TypeOK, RemoverFree
<1> QED
  BY <1>1, <1>2, <1>3
  DEF IInv, RemoverFree, CountMatchesHolders, HeldDataIsLive, FreedAtMostOnce,
      DrainedIsFreed

(* IInv is an invariant of the lock.                                       *)
THEOREM Invariance == Spec => []IInv
<1>1. IInv /\ [Next]_vars => IInv'
  <2> SUFFICES ASSUME IInv, [Next]_vars PROVE IInv'
    BY Zenon
  <2>1. CASE UNCHANGED vars
    BY <2>1, Zenon DEF vars, IInv, TypeOK, CountMatchesHolders, HeldDataIsLive,
                FreedAtMostOnce, DrainedIsFreed, Holders, Freeing
  <2>2. CASE Next
    BY <2>2, AcquireLoadStep, AcquireCasStep, ReleaseStep, BeginRemoveStep,
       CallerFreeStep, RemoverFreeStep, Zenon DEF Next
  <2> QED
    BY <2>1, <2>2, Zenon
<1> QED
  BY <1>1, InitIInv, PTL DEF Spec

(* No context is freed while an interrupt handler or a driver worker holds *)
(* a reference to it, one party frees it, once, and it does not leak: when *)
(* removal has begun and the count is zero, it has been freed or its one   *)
(* freer has been chosen (acquire, release and begin_remove of             *)
(* remove_lock.rs).                                                        *)
THEOREM RemovalSafeAlways == Spec => []RemovalSafe
<1>1. IInv => RemovalSafe
  BY Zenon DEF IInv, RemovalSafe
<1> QED
  BY <1>1, Invariance, PTL

(* The word's two parts, and the places of the callers, keep their types:  *)
(* release() never takes the count below zero.                             *)
THEOREM TypesAlways == Spec => []TypeOK
<1>1. IInv => TypeOK
  BY Zenon DEF IInv
<1> QED
  BY <1>1, Invariance, PTL

-----------------------------------------------------------------------------
(* For every capacity the ring keeps its indices in range and implements    *)
(* the bounded queue.                                                       *)

RingType == [buf : [0 .. (N - 1) -> Item], head : 0 .. (N - 1), len : 0 .. N]

(* The array index of the i-th oldest item.                                 *)
Slot(r, i) == (r.head + (i - 1)) % N

(* An index that passed the end of the array once wraps to its start.       *)
LEMMA Wrap ==
  ASSUME NEW M \in Nat \ {0}, NEW x \in Nat, x < M + M
  PROVE  x % M = IF x < M THEN x ELSE x - M
  BY SMT

(* Two indices less than the capacity apart wrap to different slots.        *)
LEMMA SlotsDiffer ==
  ASSUME NEW M \in Nat \ {0}, NEW h \in 0 .. (M - 1), NEW l \in 0 .. (M - 1),
         NEW k \in 0 .. (l - 1)
  PROVE  (IF h + k < M THEN h + k ELSE (h + k) - M)
           # (IF h + l < M THEN h + l ELSE (h + l) - M)
<1>1. /\ M \in Nat /\ h \in Nat /\ l \in Nat /\ k \in Nat
      /\ 0 <= h /\ h < M /\ l < M /\ 0 <= k /\ k < l
  OBVIOUS
<1>2. CASE h + l < M
  BY <1>1, <1>2
<1>3. CASE ~(h + l < M) /\ h + k < M
  BY <1>1, <1>3
<1>4. CASE ~(h + l < M) /\ ~(h + k < M)
  BY <1>1, <1>4
<1> QED
  BY <1>2, <1>3, <1>4, Zenon

(* The slot of an item is in the array.                                     *)
LEMMA Slots ==
  ASSUME NEW r \in RingType, NEW i \in 1 .. N
  PROVE  /\ Slot(r, i) = IF r.head + (i - 1) < N THEN r.head + (i - 1)
                         ELSE (r.head + (i - 1)) - N
         /\ Slot(r, i) \in 0 .. (N - 1)
<1>1. N \in Nat \ {0} /\ r.head \in 0 .. (N - 1)
  BY SizeAssumption, Zenon DEF RingType
<1>2. r.head + (i - 1) \in Nat /\ r.head + (i - 1) < N + N
  BY <1>1
<1> DEFINE x == r.head + (i - 1)
<1>3. Slot(r, i) = x % N
  BY Zenon DEF Slot
<1>4. N \in Nat \ {0} /\ x \in Nat /\ x < N + N
  BY <1>1, <1>2, Zenon
<1> HIDE DEF x
<1>5. x % N = IF x < N THEN x ELSE x - N
  BY <1>4, Wrap, Zenon
<1>6. (IF x < N THEN x ELSE x - N) \in 0 .. (N - 1)
  BY <1>4
<1> QED
  BY <1>3, <1>5, <1>6, Zenon DEF x

(* Contents lists the items slot by slot.                                   *)
LEMMA ContentsIs ==
  ASSUME NEW r \in RingType
  PROVE  /\ Contents(N, r) \in Seq(Item)
         /\ Len(Contents(N, r)) = r.len
         /\ Contents(N, r) = [i \in 1 .. r.len |-> r.buf[Slot(r, i)]]
         /\ \A i \in 1 .. r.len : Contents(N, r)[i] = r.buf[Slot(r, i)]
<1>1. r.len \in 0 .. N /\ N \in Nat /\ r.buf \in [0 .. (N - 1) -> Item]
  BY SizeAssumption, Zenon DEF RingType
<1>2. Contents(N, r) = [i \in 1 .. r.len |-> r.buf[Slot(r, i)]]
  BY <1>1, Zenon DEF Contents, PeekInto, Least, Slot
<1>3. \A i \in 1 .. r.len : r.buf[Slot(r, i)] \in Item
  <2> SUFFICES ASSUME NEW i \in 1 .. r.len PROVE r.buf[Slot(r, i)] \in Item
    BY Zenon
  <2>1. i \in 1 .. N
    BY <1>1
  <2>2. Slot(r, i) \in 0 .. (N - 1)
    BY <2>1, Slots, Zenon
  <2> QED
    BY <1>1, <2>2, Zenon
<1> QED
  BY <1>1, <1>2, <1>3

(* peek_into hands out the oldest items in order.                           *)
LEMMA PeekIs ==
  ASSUME NEW r \in RingType, NEW n \in Nat
  PROVE  /\ Least(r.len, n) \in 0 .. r.len
         /\ PeekInto(N, r, n) = SubSeq(Contents(N, r), 1, Least(r.len, n))
         /\ PeekInto(N, r, n) \in Seq(Item)
<1> DEFINE k == Least(r.len, n)
<1>1. r.len \in Nat /\ k \in 0 .. r.len
  BY SizeAssumption DEF RingType, Least
<1>2. PeekInto(N, r, n) = [i \in 1 .. k |-> r.buf[Slot(r, i)]]
  BY Zenon DEF PeekInto, Slot
<1> HIDE DEF k
<1>3. SubSeq(Contents(N, r), 1, k) = [i \in 1 .. k |-> Contents(N, r)[i]]
  BY <1>1, ContentsIs
<1>4. \A i \in 1 .. k : Contents(N, r)[i] = r.buf[Slot(r, i)]
  BY <1>1, ContentsIs
<1>5. PeekInto(N, r, n) = SubSeq(Contents(N, r), 1, k)
  BY <1>2, <1>3, <1>4, Zenon
<1>6. SubSeq(Contents(N, r), 1, k) \in Seq(Item)
  BY <1>1, ContentsIs
<1> QED
  BY <1>1, <1>5, <1>6, Zenon DEF k

(* push appends, or drops the item when the ring is full.                   *)
LEMMA PushIs ==
  ASSUME NEW r \in RingType, NEW x \in Item
  PROVE  /\ Push(N, r, x) \in RingType
         /\ Contents(N, Push(N, r, x)) =
              IF r.len < N THEN Append(Contents(N, r), x) ELSE Contents(N, r)
<1>1. /\ r.len \in 0 .. N /\ N \in Nat \ {0} /\ r.head \in 0 .. (N - 1)
      /\ r.buf \in [0 .. (N - 1) -> Item]
  BY SizeAssumption, Zenon DEF RingType
<1>2. CASE ~(r.len < N)
  BY <1>2, Zenon DEF Push
<1>3. CASE r.len < N
  <2> DEFINE p == Push(N, r, x)
             s == Slot(r, r.len + 1)
  <2>1. s \in 0 .. (N - 1) /\ s = (r.head + r.len) % N
    <3>1. r.len + 1 \in 1 .. N /\ (r.len + 1) - 1 = r.len
      BY <1>1, <1>3
    <3> QED
      BY <3>1, Slots, Zenon DEF Slot
  <2>2. p = [buf |-> [r.buf EXCEPT ![s] = x], head |-> r.head, len |-> r.len + 1]
    BY <1>3, <2>1, Zenon DEF Push
  <2> HIDE DEF p, s
  <2>3. /\ p.len = r.len + 1 /\ p.head = r.head /\ p.buf \in [0 .. (N - 1) -> Item]
        /\ p.buf[s] = x
        /\ \A j \in 0 .. (N - 1) : j # s => p.buf[j] = r.buf[j]
    BY <1>1, <2>1, <2>2, Zenon
  <2>4. p \in RingType
    BY <1>1, <1>3, <2>2, <2>3 DEF RingType
  <2>5. \A i \in 1 .. r.len : p.buf[Slot(p, i)] = r.buf[Slot(r, i)]
    <3> SUFFICES ASSUME NEW i \in 1 .. r.len
                 PROVE  p.buf[Slot(p, i)] = r.buf[Slot(r, i)]
      BY Zenon
    <3>1. i \in 1 .. N /\ r.len + 1 \in 1 .. N
      BY <1>1, <1>3
    <3>2. Slot(p, i) = Slot(r, i)
      BY <2>3, Zenon DEF Slot
    <3>3. /\ Slot(r, i) \in 0 .. (N - 1)
          /\ Slot(r, i) = IF r.head + (i - 1) < N THEN r.head + (i - 1)
                          ELSE (r.head + (i - 1)) - N
      BY <3>1, Slots, Zenon
    <3>4. s = IF r.head + r.len < N THEN r.head + r.len ELSE (r.head + r.len) - N
      <4>1. (r.len + 1) - 1 = r.len
        BY <1>1
      <4> QED
        BY <3>1, <4>1, Slots, Zenon DEF s
    <3>5. Slot(r, i) # s
      <4> DEFINE k == i - 1
      <4>1. k \in 0 .. (r.len - 1) /\ r.len \in 0 .. (N - 1)
        BY <1>1, <1>3
      <4>2. Slot(r, i) = IF r.head + k < N THEN r.head + k ELSE (r.head + k) - N
        BY <3>3, Zenon
      <4> HIDE DEF k
      <4>3. (IF r.head + k < N THEN r.head + k ELSE (r.head + k) - N)
              # (IF r.head + r.len < N THEN r.head + r.len ELSE (r.head + r.len) - N)
        BY <1>1, <4>1, SlotsDiffer, Zenon
      <4> QED
        BY <3>4, <4>2, <4>3, Zenon
    <3> QED
      BY <2>3, <3>2, <3>3, <3>5, Zenon
  <2>6. p.buf[Slot(p, r.len + 1)] = x
    BY <2>3, Zenon DEF Slot, s
  <2>7. Contents(N, p) = [i \in 1 .. (r.len + 1) |-> p.buf[Slot(p, i)]]
    BY <2>3, <2>4, ContentsIs, Zenon
  <2> DEFINE a == Append(Contents(N, r), x)
  <2>8. /\ DOMAIN a = 1 .. (r.len + 1) /\ a = [i \in DOMAIN a |-> a[i]]
        /\ a[r.len + 1] = x /\ \A i \in 1 .. r.len : a[i] = Contents(N, r)[i]
    <3>1. /\ a \in Seq(Item) /\ Len(a) = Len(Contents(N, r)) + 1
          /\ a[Len(Contents(N, r)) + 1] = x
          /\ \A i \in 1 .. Len(Contents(N, r)) : a[i] = Contents(N, r)[i]
      BY ContentsIs
    <3>2. Len(Contents(N, r)) = r.len /\ r.len \in Nat
      BY <1>1, ContentsIs
    <3> HIDE DEF a
    <3> QED
      BY <3>1, <3>2
  <2>9. \A i \in 1 .. (r.len + 1) : p.buf[Slot(p, i)] = a[i]
    BY <1>1, <2>5, <2>6, <2>8, ContentsIs
  <2> HIDE DEF a
  <2>10. Contents(N, p) = a
    BY <2>7, <2>8, <2>9, Zenon
  <2> QED
    BY <1>3, <2>4, <2>10, Zenon DEF p, a
<1> QED
  BY <1>2, <1>3, Zenon

(* advance drops the oldest items.                                          *)
LEMMA AdvanceIs ==
  ASSUME NEW r \in RingType, NEW n \in Nat
  PROVE  /\ Advance(N, r, n) \in RingType
         /\ Contents(N, Advance(N, r, n)) =
              SubSeq(Contents(N, r), Least(r.len, n) + 1, r.len)
<1> DEFINE k == Least(r.len, n)
           p == Advance(N, r, n)
<1>1. /\ r.len \in 0 .. N /\ N \in Nat \ {0} /\ r.head \in 0 .. (N - 1)
      /\ r.buf \in [0 .. (N - 1) -> Item] /\ k \in 0 .. r.len
  BY SizeAssumption DEF RingType, Least
<1>2. p = [buf |-> r.buf, head |-> (r.head + k) % N, len |-> r.len - k]
  BY <1>1 DEF Advance, Least
<1> HIDE DEF k, p
<1>3. p.head = IF r.head + k < N THEN r.head + k ELSE (r.head + k) - N
  <2>1. r.head + k \in Nat /\ r.head + k < N + N
    BY <1>1
  <2> QED
    BY <1>1, <1>2, <2>1, Wrap, Zenon
<1>4. p.head \in 0 .. (N - 1)
  BY <1>1, <1>3
<1>5. /\ p.buf = r.buf /\ p.len = r.len - k
      /\ p \in RingType
  <2>1. p = [buf |-> p.buf, head |-> p.head, len |-> p.len]
    BY <1>2, Zenon
  <2>2. p.buf = r.buf /\ p.len = r.len - k
    BY <1>2, Zenon
  <2>3. p.len \in 0 .. N
    BY <1>1, <2>2
  <2> QED
    BY <1>1, <1>4, <2>1, <2>2, <2>3, Zenon DEF RingType
<1>6. \A i \in 1 .. (r.len - k) : Slot(p, i) = Slot(r, k + i)
  <2> SUFFICES ASSUME NEW i \in 1 .. (r.len - k) PROVE Slot(p, i) = Slot(r, k + i)
    BY Zenon
  <2>1. i \in 1 .. N /\ k + i \in 1 .. N
    BY <1>1
  <2>2. Slot(p, i) = IF p.head + (i - 1) < N THEN p.head + (i - 1)
                     ELSE (p.head + (i - 1)) - N
    BY <1>5, <2>1, Slots, Zenon
  <2>3. Slot(r, k + i) = IF r.head + ((k + i) - 1) < N THEN r.head + ((k + i) - 1)
                         ELSE (r.head + ((k + i) - 1)) - N
    BY <2>1, Slots, Zenon
  <2>4. CASE r.head + k < N
    <3>1. p.head = r.head + k
      BY <1>3, <2>4, Zenon
    <3>2. p.head + (i - 1) = r.head + ((k + i) - 1)
      BY <1>1, <3>1
    <3> QED
      BY <2>2, <2>3, <3>2
  <2>5. CASE ~(r.head + k < N)
    <3>1. p.head = (r.head + k) - N
      BY <1>3, <2>5, Zenon
    <3>2. /\ p.head + (i - 1) = (r.head + ((k + i) - 1)) - N
          /\ p.head + (i - 1) < N
          /\ ~(r.head + ((k + i) - 1) < N)
      BY <1>1, <2>1, <2>5, <3>1
    <3> QED
      BY <2>2, <2>3, <3>2, Zenon
  <2> QED
    BY <2>4, <2>5, Zenon
<1>7. Contents(N, p) = [i \in 1 .. (r.len - k) |-> r.buf[Slot(p, i)]]
  BY <1>5, ContentsIs, Zenon
<1>8. SubSeq(Contents(N, r), k + 1, r.len) =
        [i \in 1 .. (r.len - k) |-> Contents(N, r)[k + i]]
  <2>1. (r.len - (k + 1)) + 1 = r.len - k /\ \A i \in 1 .. (r.len - k) : (i + (k + 1)) - 1 = k + i
    BY <1>1
  <2> QED
    BY <1>1, <2>1, ContentsIs
<1>9. \A i \in 1 .. (r.len - k) : Contents(N, r)[k + i] = r.buf[Slot(p, i)]
  <2> SUFFICES ASSUME NEW i \in 1 .. (r.len - k)
               PROVE  Contents(N, r)[k + i] = r.buf[Slot(p, i)]
    BY Zenon
  <2>1. k + i \in 1 .. r.len
    BY <1>1
  <2> QED
    BY <1>6, <2>1, ContentsIs, Zenon
<1>10. Contents(N, p) = SubSeq(Contents(N, r), k + 1, r.len)
  BY <1>7, <1>8, <1>9, Zenon
<1> QED
  BY <1>5, <1>10, Zenon DEF k, p

(* pop_back drops the newest item, the one peek_back shows.                 *)
LEMMA PopBackIs ==
  ASSUME NEW r \in RingType, r.len # 0
  PROVE  /\ PopBack(N, r) \in RingType
         /\ Contents(N, PopBack(N, r)) = SubSeq(Contents(N, r), 1, r.len - 1)
         /\ PeekBack(N, r) = Contents(N, r)[r.len]
         /\ PeekBack(N, r) \in Item
<1> DEFINE p == PopBack(N, r)
<1>1. /\ r.len \in 1 .. N /\ N \in Nat \ {0} /\ r.head \in 0 .. (N - 1)
      /\ r.buf \in [0 .. (N - 1) -> Item]
  BY SizeAssumption DEF RingType
<1>2. p.buf = r.buf /\ p.head = r.head /\ p.len = r.len - 1
  BY Zenon DEF PopBack, RingType
<1>3. p \in RingType
  <2>1. p.len \in 0 .. N
    BY <1>1, <1>2
  <2>2. p = [buf |-> p.buf, head |-> p.head, len |-> p.len]
    BY Zenon DEF PopBack, RingType
  <2> QED
    BY <1>1, <1>2, <2>1, <2>2, Zenon DEF RingType
<1> HIDE DEF p
<1>4. Contents(N, p) = [i \in 1 .. (r.len - 1) |-> r.buf[Slot(r, i)]]
  <2>1. \A i : Slot(p, i) = Slot(r, i)
    BY <1>2, Zenon DEF Slot
  <2> QED
    BY <1>2, <1>3, <2>1, ContentsIs
<1>5. SubSeq(Contents(N, r), 1, r.len - 1) = [i \in 1 .. (r.len - 1) |-> Contents(N, r)[i]]
  BY <1>1, ContentsIs
<1>6. \A i \in 1 .. (r.len - 1) : Contents(N, r)[i] = r.buf[Slot(r, i)]
  BY <1>1, ContentsIs
<1>7. Contents(N, p) = SubSeq(Contents(N, r), 1, r.len - 1)
  BY <1>4, <1>5, <1>6, Zenon
<1>8. PeekBack(N, r) = Contents(N, r)[r.len]
  <2>1. (r.head + r.len) - 1 = r.head + (r.len - 1)
    BY <1>1
  <2>2. PeekBack(N, r) = r.buf[Slot(r, r.len)]
    BY <2>1, Zenon DEF PeekBack, Slot
  <2> QED
    BY <1>1, <2>2, ContentsIs
<1>9. Contents(N, r)[r.len] \in Item
  BY <1>1, ContentsIs
<1> QED
  BY <1>3, <1>7, <1>8, <1>9, Zenon DEF p

-----------------------------------------------------------------------------
(* The indices stay in range.                                               *)
THEOREM RingOKAlways == RingSpec => []RingOK
<1>1. RingInit => RingOK
  BY SizeAssumption DEF RingInit, RingOK, NewRing
<1>2. RingOK /\ [RingNext]_ringVars => RingOK'
  <2> SUFFICES ASSUME RingOK, [RingNext]_ringVars PROVE RingOK'
    BY Zenon
  <2>0. ring \in RingType /\ out \in Seq(Item)
    BY Zenon DEF RingOK, RingType
  <2>1. ASSUME NEW x \in Item, DoPush(x) PROVE ring' \in RingType /\ out' \in Seq(Item)
    BY <2>0, <2>1, PushIs DEF DoPush
  <2>2. ASSUME NEW n \in 0 .. MaxAsk, DoPeek(n) \/ DoDequeue(n)
        PROVE  ring' \in RingType /\ out' \in Seq(Item)
    <3>1. n \in Nat
      BY SizeAssumption
    <3> QED
      BY <2>0, <2>2, <3>1, PeekIs, AdvanceIs, Zenon DEF DoPeek, DoDequeue
  <2>3. CASE DoPopBack
    <3>1. CASE ring.len = 0
      BY <2>0, <2>3, <3>1 DEF DoPopBack, PopBack, RingOK, RingType
    <3>2. CASE ring.len # 0
      <4>1. out' = <<PeekBack(N, ring)>> /\ ring' = PopBack(N, ring)
        BY <2>3, <3>2, Zenon DEF DoPopBack
      <4>2. PeekBack(N, ring) \in Item /\ PopBack(N, ring) \in RingType
        BY <2>0, <3>2, PopBackIs, Zenon
      <4> QED
        BY <4>1, <4>2 DEF RingOK, RingType
    <3> QED
      BY <3>1, <3>2, Zenon DEF RingOK, RingType
  <2>4. CASE UNCHANGED ringVars
    BY <2>4, Zenon DEF ringVars, RingOK
  <2> QED
    BY <2>1, <2>2, <2>3, <2>4, Zenon DEF RingNext, RingOK, RingType
<1> QED
  BY <1>1, <1>2, PTL DEF RingSpec

(* The ring implements the bounded queue, for every capacity and from every *)
(* position of head: pipes, terminals and keyboards get their bytes in the  *)
(* order they were pushed, each once.                                       *)
THEOREM RingIsQueue == RingSpec => IsQueue
<1> DEFINE C == Contents(N, ring)
<1>1. RingInit => Queue!Init
  <2> SUFFICES ASSUME RingInit PROVE C = << >> /\ out = << >>
    BY Zenon DEF Queue!Init
  <2>1. ring.len = 0 /\ out = << >>
    BY DEF RingInit, NewRing
  <2> QED
    BY <2>1 DEF Contents, PeekInto, Least
<1>2. RingOK /\ [RingNext]_ringVars => [Queue!Next]_<<C, out>>
  <2> SUFFICES ASSUME RingOK, RingNext PROVE Queue!Next
    BY Zenon DEF ringVars, Contents, PeekInto, Least
  <2>0. ring \in RingType /\ C \in Seq(Item) /\ Len(C) = ring.len
        /\ ring.len \in 0 .. N /\ N \in Nat
    BY ContentsIs, SizeAssumption, Zenon DEF RingOK, RingType
  <2>1. ASSUME NEW x \in Item, DoPush(x) PROVE Queue!Put(x)
    <3>1. C' = IF ring.len < N THEN Append(C, x) ELSE C
      BY <2>0, <2>1, PushIs, Zenon DEF DoPush
    <3> QED
      BY <2>0, <2>1, <3>1, Zenon DEF Queue!Put, DoPush
  <2>2. ASSUME NEW n \in 0 .. MaxAsk, DoPeek(n)
        PROVE  \E k \in 0 .. N : Queue!Show(k)
    <3>1. n \in Nat
      BY SizeAssumption
    <3> DEFINE k == Least(ring.len, n)
    <3>2. k \in 0 .. ring.len /\ out' = SubSeq(C, 1, k) /\ C' = C
      BY <2>0, <2>2, <3>1, PeekIs, Zenon DEF DoPeek
    <3> HIDE DEF k
    <3>3. k \in 0 .. N /\ k <= Len(C)
      BY <2>0, <3>2
    <3> QED
      BY <3>2, <3>3, Zenon DEF Queue!Show
  <2>3. ASSUME NEW n \in 0 .. MaxAsk, DoDequeue(n)
        PROVE  \E k \in 0 .. N : Queue!Take(k)
    <3>1. n \in Nat
      BY SizeAssumption
    <3> DEFINE k == Least(ring.len, n)
    <3>2. k \in 0 .. ring.len /\ out' = SubSeq(C, 1, k)
          /\ C' = SubSeq(C, k + 1, ring.len)
      BY <2>0, <2>3, <3>1, PeekIs, AdvanceIs, Zenon DEF DoDequeue
    <3> HIDE DEF k
    <3>3. k \in 0 .. N /\ k <= Len(C)
      BY <2>0, <3>2
    <3> QED
      BY <2>0, <3>2, <3>3, Zenon DEF Queue!Take
  <2>4. CASE DoPopBack
    <3>1. CASE ring.len = 0
      <4>1. C = << >>
        BY <3>1 DEF Contents, PeekInto, Least
      <4>2. C' = C /\ out' = << >>
        BY <2>4, <3>1, Zenon DEF DoPopBack, PopBack
      <4> QED
        BY <4>1, <4>2, Zenon DEF Queue!TakeBack, Queue!Next
    <3>2. CASE ring.len # 0
      <4>1. C # << >>
        BY <2>0, <3>2, Zenon
      <4>2. C' = SubSeq(C, 1, ring.len - 1) /\ out' = <<C[ring.len]>>
        BY <2>0, <2>4, <3>2, PopBackIs, Zenon DEF DoPopBack
      <4> QED
        BY <2>0, <4>1, <4>2, Zenon DEF Queue!TakeBack, Queue!Next
    <3> QED
      BY <3>1, <3>2, Zenon
  <2> QED
    BY <2>1, <2>2, <2>3, <2>4, Zenon DEF RingNext, Queue!Next
<1> QED
  BY <1>1, <1>2, RingOKAlways, PTL DEF RingSpec, IsQueue, Queue!Spec
=============================================================================
