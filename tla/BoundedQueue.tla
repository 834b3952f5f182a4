---------------------------- MODULE BoundedQueue ----------------------------
(***************************************************************************)
(* What a RingBuffer promises: a queue of at most N items that keeps their *)
(* order, drops an item that does not fit, hands out its oldest items and  *)
(* can take back the newest one.                                           *)
(***************************************************************************)
EXTENDS Naturals, Sequences

CONSTANTS N, Item

VARIABLES queue, out

Init == queue = << >> /\ out = << >>

Put(x) ==
    /\ queue' = IF Len(queue) < N THEN Append(queue, x) ELSE queue
    /\ out' = << >>

\* The k oldest items leave the queue.
Take(k) ==
    /\ k <= Len(queue)
    /\ out' = SubSeq(queue, 1, k)
    /\ queue' = SubSeq(queue, k + 1, Len(queue))

\* The k oldest items are shown and stay.
Show(k) ==
    /\ k <= Len(queue)
    /\ out' = SubSeq(queue, 1, k)
    /\ UNCHANGED queue

TakeBack ==
    IF queue = << >>
    THEN out' = << >> /\ UNCHANGED queue
    ELSE /\ out' = <<queue[Len(queue)]>>
         /\ queue' = SubSeq(queue, 1, Len(queue) - 1)

Next ==
    \/ \E x \in Item : Put(x)
    \/ \E k \in 0 .. N : Take(k) \/ Show(k)
    \/ TakeBack

Spec == Init /\ [][Next]_<<queue, out>>
=============================================================================
