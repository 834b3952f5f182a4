------------------------------ MODULE KernelLib -----------------------------
(***************************************************************************)
(* Two structures of the kernel's library that have nothing to do with     *)
(* each other: the removal lock and, further down, the ring buffer.        *)
(*                                                                         *)
(* The removal lock is what the drivers guard their context with           *)
(* (lib/kernel_intf/src/remove_lock.rs).  One atomic word holds a          *)
(* reference count and a REMOVING bit.  Callers (interrupt handlers and    *)
(* driver workers) take and give back references, one remover sets the     *)
(* bit, and whoever finds the count at zero with the bit set frees the     *)
(* protected data.  The word is modelled as a record; its operations are   *)
(* the atomic accesses of the code, so the load and the compare-exchange   *)
(* of acquire() are two steps.                                             *)
(***************************************************************************)
EXTENDS Naturals, FiniteSets, Sequences

CONSTANT Caller          \* the threads of control that may hold references

ASSUME CallerAssumption == IsFiniteSet(Caller)

VARIABLES
  removing,   \* the REMOVING bit of state
  refs,       \* the low bits of state
  pc,         \* where each caller is
  seen,       \* `cur` of a caller inside acquire(): the refs it loaded
  remover,    \* where the remover is
  frees       \* how many times the protected data has been dropped

vars == <<removing, refs, pc, seen, remover, frees>>

\* RemoveLock::new(): no references, not removing.
Init ==
  /\ removing = FALSE
  /\ refs = 0
  /\ pc = [c \in Caller |-> "idle"]
  /\ seen = [c \in Caller |-> 0]
  /\ remover = "idle"
  /\ frees = 0

\* acquire(): load the word; a set REMOVING bit means false is returned.
AcquireLoad(c) ==
  /\ pc[c] = "idle"
  /\ seen' = [seen EXCEPT ![c] = refs]
  /\ pc' = [pc EXCEPT ![c] = IF removing THEN "idle" ELSE "loaded"]
  /\ UNCHANGED <<removing, refs, remover, frees>>

\* Mutant: the exchange compares the count and not the REMOVING bit.
AcquireCasIgnoresBit(c) ==
  /\ pc[c] = "loaded"
  /\ refs = seen[c]
  /\ refs' = seen[c] + 1
  /\ pc' = [pc EXCEPT ![c] = "held"]
  /\ UNCHANGED <<removing, seen, remover, frees>>

\* acquire(): compare_exchange_weak(cur, cur + 1).  The compared word has the
\* bit clear, and a weak exchange may fail although the word is unchanged.
AcquireCas(c) ==
  /\ pc[c] = "loaded"
  /\ \/ /\ ~removing /\ refs = seen[c]
        /\ refs' = seen[c] + 1
        /\ pc' = [pc EXCEPT ![c] = "held"]
     \/ /\ pc' = [pc EXCEPT ![c] = "idle"]
        /\ UNCHANGED refs
  /\ UNCHANGED <<removing, seen, remover, frees>>

\* release(): fetch_sub; the caller that takes the last reference away after
\* removal began goes on to free the data.
Release(c) ==
  /\ pc[c] = "held"
  /\ refs' = refs - 1
  /\ pc' = [pc EXCEPT ![c] =
              IF removing /\ refs = 1 THEN "freeing" ELSE "idle"]
  /\ UNCHANGED <<removing, seen, remover, frees>>

\* begin_remove(): fetch_or; called exactly once, frees when nobody holds.
BeginRemove ==
  /\ remover = "idle"
  /\ removing' = TRUE
  /\ remover' = IF refs = 0 THEN "freeing" ELSE "done"
  /\ UNCHANGED <<refs, pc, seen, frees>>

\* drop(Box::from_raw(ctx)) by the caller whose release() returned true.
CallerFree(c) ==
  /\ pc[c] = "freeing"
  /\ frees' = frees + 1
  /\ pc' = [pc EXCEPT ![c] = "idle"]
  /\ UNCHANGED <<removing, refs, seen, remover>>

\* drop(Box::from_raw(ctx)) by the remover whose begin_remove() returned true.
RemoverFree ==
  /\ remover = "freeing"
  /\ frees' = frees + 1
  /\ remover' = "done"
  /\ UNCHANGED <<removing, refs, pc, seen>>

Next ==
  \/ \E c \in Caller : \/ AcquireLoad(c)
                       \/ AcquireCas(c)
                       \/ Release(c)
                       \/ CallerFree(c)
  \/ BeginRemove
  \/ RemoverFree

Spec == Init /\ [][Next]_vars

\* A holder's work is bounded (one worker routine), so that while there are
\* holders one of them comes to its release(), and both frees follow their
\* test in straight-line code.  Nobody has to call acquire() or
\* begin_remove().
Fairness ==
  /\ WF_vars(\E c \in Caller : Release(c))
  /\ WF_vars(\E c \in Caller : CallerFree(c))
  /\ WF_vars(RemoverFree)

-----------------------------------------------------------------------------
Holders == {c \in Caller : pc[c] = "held"}

Freeing == {c \in Caller : pc[c] = "freeing"}

(* The variables stay in their ranges; the count fits the low bits.        *)
TypeOK ==
  /\ removing \in BOOLEAN
  /\ refs \in Nat
  /\ pc \in [Caller -> {"idle", "loaded", "held", "freeing"}]
  /\ seen \in [Caller -> Nat]
  /\ remover \in {"idle", "freeing", "done"}
  /\ frees \in Nat

(* The count is the number of callers between a successful acquire() and   *)
(* its release(), so release()'s assertion never fails.                    *)
CountMatchesHolders == refs = Cardinality(Holders)

(* While a caller holds a reference the protected data has not been freed  *)
(* and nobody is about to free it: a driver worker may use its context.    *)
HeldDataIsLive ==
  Holders # {} => frees = 0 /\ Freeing = {} /\ remover # "freeing"

(* "solely responsible for freeing the protected data, exactly once": at   *)
(* most one party ever frees, and never before removal has begun.          *)
FreedAtMostOnce ==
  /\ frees <= 1
  /\ frees = 1 => Freeing = {} /\ remover = "done"
  /\ Freeing # {} => remover = "done" /\ \A c, d \in Freeing : c = d
  /\ (frees = 1 \/ Freeing # {} \/ remover = "freeing") => removing

(* Once removal has begun and the references are gone the data is freed or *)
(* somebody is about to free it: the context does not leak.                *)
DrainedIsFreed ==
  removing /\ refs = 0 => frees = 1 \/ Freeing # {} \/ remover = "freeing"

(* The data a driver protects outlives its users and is dropped once, by   *)
(* the last of them or by the remover, however acquire(), release() and    *)
(* begin_remove() interleave.                                              *)
RemovalSafe ==
  CountMatchesHolders /\ HeldDataIsLive /\ FreedAtMostOnce /\ DrainedIsFreed

(* The inductive invariant.                                                *)
IInv ==
  /\ TypeOK
  /\ CountMatchesHolders
  /\ HeldDataIsLive
  /\ FreedAtMostOnce
  /\ DrainedIsFreed
  /\ removing <=> remover # "idle"


-----------------------------------------------------------------------------
(***************************************************************************)
(* RingBuffer<T, N> of lib/kernel_intf/src/ds/ring_buffer.rs as operators: *)
(* a ring is a record of the array, the index of the oldest item and the   *)
(* number of items.  The pipe, the terminal, the keyboard and the input    *)
(* driver buffer their bytes and keystrokes in it.  After the operators    *)
(* comes a RingBuffer in use: any sequence of its calls, with what the     *)
(* last one handed out, and the obligation that it implements              *)
(* BoundedQueue.                                                           *)
(***************************************************************************)

Least(a, b) == IF a < b THEN a ELSE b

NewRing(N, initial) ==
    [buf |-> [i \in 0 .. (N - 1) |-> initial], head |-> 0, len |-> 0]

\* Mutant: the new slot is counted from the start of the array.
PushAtLen(N, r, item) ==
    IF r.len < N
    THEN [buf |-> [r.buf EXCEPT ![r.len] = item], head |-> r.head, len |-> r.len + 1]
    ELSE r

\* push: dropped without notice when the ring is full.
Push(N, r, item) ==
    IF r.len < N
    THEN [buf  |-> [r.buf EXCEPT ![(r.head + r.len) % N] = item],
          head |-> r.head,
          len  |-> r.len + 1]
    ELSE r

\* peek_into: the oldest n items, or all of them.
PeekInto(N, r, n) ==
    [i \in 1 .. Least(r.len, n) |-> r.buf[(r.head + (i - 1)) % N]]

Advance(N, r, n) ==
    LET k == Least(n, r.len)
    IN  [buf |-> r.buf, head |-> (r.head + k) % N, len |-> r.len - k]

PeekBack(N, r) == r.buf[((r.head + r.len) - 1) % N]

PopBack(N, r) == IF r.len = 0 THEN r ELSE [r EXCEPT !.len = @ - 1]

\* What the ring holds, oldest first.
Contents(N, r) == PeekInto(N, r, r.len)

-----------------------------------------------------------------------------

CONSTANTS N, Item, MaxAsk      \* MaxAsk: bound on the n of a call

ASSUME SizeAssumption == N \in Nat \ {0} /\ MaxAsk \in Nat

VARIABLES ring, out

ringVars == <<ring, out>>

RingInit ==
    /\ \E x \in Item : ring = NewRing(N, x)
    /\ out = << >>

DoPush(x) ==
    /\ ring' = Push(N, ring, x)
    /\ out' = << >>

DoPeek(n) ==
    /\ out' = PeekInto(N, ring, n)
    /\ UNCHANGED ring

\* dequeue_into
DoDequeue(n) ==
    /\ out' = PeekInto(N, ring, n)
    /\ ring' = Advance(N, ring, n)

\* pop_back
DoPopBack ==
    /\ out' = IF ring.len = 0 THEN << >> ELSE <<PeekBack(N, ring)>>
    /\ ring' = PopBack(N, ring)

RingNext ==
    \/ \E x \in Item : DoPush(x)
    \/ \E n \in 0 .. MaxAsk : DoPeek(n) \/ DoDequeue(n)
    \/ DoPopBack

RingSpec == RingInit /\ [][RingNext]_ringVars

-----------------------------------------------------------------------------
\* The indices stay in the array: head never reaches N, len never exceeds it.
RingOK ==
    /\ ring \in [buf : [0 .. (N - 1) -> Item], head : 0 .. (N - 1), len : 0 .. N]
    /\ out \in Seq(Item)

\* The ring implements the bounded queue: whatever the position of head, what
\* a call hands out and leaves behind is what the queue's operation does.
Queue == INSTANCE BoundedQueue WITH queue <- Contents(N, ring)

IsQueue == Queue!Spec
=============================================================================
