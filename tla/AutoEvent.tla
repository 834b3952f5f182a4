----------------------------- MODULE AutoEvent -----------------------------
(***************************************************************************)
(* An auto-reset KEvent as a value: whether it is signalled, and the tasks *)
(* asleep on it, oldest first.  This is what Sched shows of an event that  *)
(* is waited for by threads nobody kills at once; the components that      *)
(* block on events are built on it.  A task that is on the list of no      *)
(* event is awake.                                                         *)
(***************************************************************************)
EXTENDS Naturals, Sequences

NewEvent == [signalled |-> FALSE, asleep |-> << >>]

Asleep(e) == {e.asleep[i] : i \in DOMAIN e.asleep}

\* do_signal: wake the oldest waiter, or remember the signal.
Signal(e) ==
    IF e.asleep = << >> THEN [e EXCEPT !.signalled = TRUE]
                        ELSE [e EXCEPT !.asleep = Tail(@)]

\* do_wait: take the signal, or go to sleep.
Wait(e, t) ==
    IF e.signalled THEN [e EXCEPT !.signalled = FALSE]
                   ELSE [e EXCEPT !.asleep = Append(@, t)]

\* do_signal_on_task: a wait that is interrupted or times out.
Leave(e, t) ==
    LET q == e.asleep
        i == CHOOSE k \in DOMAIN q : q[k] = t
    IN  IF t \in Asleep(e)
        THEN [e EXCEPT !.asleep = [j \in 1 .. (Len(q) - 1) |-> IF j < i THEN q[j] ELSE q[j + 1]]]
        ELSE e

\* The events that tasks of T may wait for.
EventOf(T) == [signalled : BOOLEAN, asleep : Seq(T)]

\* Part of a type invariant: sleepers only while it is not signalled.
EventOK(e, T) ==
    /\ e.signalled \in BOOLEAN
    /\ Asleep(e) \subseteq T
    /\ Len(e.asleep) > 0 => ~e.signalled
    /\ \A i, j \in DOMAIN e.asleep : e.asleep[i] = e.asleep[j] => i = j
=============================================================================
