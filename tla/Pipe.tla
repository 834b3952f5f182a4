-------------------------------- MODULE Pipe --------------------------------
(***************************************************************************)
(* One pipe of kernel/src/pipe.rs with the threads that read and write it, *)
(* as sys_read_handler and sys_write_handler of sched/user.rs call it.     *)
(*                                                                         *)
(* A body of read() or write() that runs under the stream lock is one      *)
(* step, its signals included; the wait that follows an unlock is a step   *)
(* of its own, and so are the two halves of dropping a writer's handle.    *)
(* The stream is a queue (KernelLibProofs!RingIsQueue) of numbered bytes.  *)
(***************************************************************************)
EXTENDS AutoEvent, FiniteSetsExt, TLC

CONSTANTS
    Reader, Writer,   \* threads, one handle each
    Capacity,         \* MAX_STREAM_CAPACITY
    MaxLen,           \* bound: longest buffer of a call
    MaxSent,          \* bound: bytes written
    Faulty            \* threads whose buffer may not be accessible

ASSUME PipeAssumption ==
    /\ Reader \cap Writer = {}
    /\ IsFiniteSet(Writer)
    /\ Capacity \in Nat \ {0} /\ MaxLen \in Nat \ {0} /\ MaxSent \in Nat
    /\ Faulty \subseteq Reader \cup Writer

VARIABLES
    stream,       \* bytes in the pipe, oldest first
    readWaiter,   \* read_waiter
    writeWaiter,  \* write_waiter
    writerCount,  \* writer_count
    handle,       \* writer handles: "none", "open", "dropped" (counted off,
                  \* signal still due), "closed"
    pc,           \* where a thread is: "idle", "loop" (about to lock the
                  \* stream), "wait" (about to wait), "slept" (in the wait),
                  \* "drop", "eof" (dropping the handle of the call)
    len,          \* length of the buffer of the call
    sent,         \* bytes written so far
    taken,        \* bytes that left the stream
    eof,          \* some reader was told that the pipe has ended, and nobody
                  \* has opened it again since
    wasted        \* the last wake-up of a writer went to one whose buffer
                  \* could not be read

vars == <<stream, readWaiter, writeWaiter, writerCount, handle, pc, len, sent,
          taken, eof, wasted>>

Thread == Reader \cup Writer
dataVars  == <<stream, sent, taken, eof, wasted>>
eventVars == <<readWaiter, writeWaiter>>

Least(a, b) == IF a < b THEN a ELSE b

\* sys_create_pipe_handler: the creator has the first writer handle.
Init ==
    /\ stream = << >> /\ sent = 0 /\ taken = 0
    /\ eof = FALSE /\ wasted = FALSE
    /\ readWaiter = NewEvent /\ writeWaiter = NewEvent
    /\ \E w \in Writer : handle = [v \in Writer |-> IF v = w THEN "open" ELSE "none"]
    /\ writerCount = 1
    /\ pc = [t \in Thread |-> "idle"]
    /\ len = [t \in Thread |-> 0]

\* The thread is about to lock the stream, or has been woken to do so.
Looping(t) ==
    \/ pc[t] = "loop"
    \/ pc[t] = "slept" /\ t \notin Asleep(readWaiter) \cup Asleep(writeWaiter)

Goto(t, where) == pc' = [pc EXCEPT ![t] = where]

-----------------------------------------------------------------------------
(* Handles.                                                                 *)

\* A process inherits the handle table of its parent: PipeType::clone.
Inherit(w, v) ==
    /\ handle[w] = "open" /\ handle[v] = "none"
    /\ handle' = [handle EXCEPT ![v] = "open"]
    /\ writerCount' = writerCount + 1
    /\ UNCHANGED <<eventVars, dataVars, pc, len>>

\* open_pipe for writing, by name, while some reader keeps the pipe alive.
OpenPipe(w) ==
    /\ handle[w] = "none"
    /\ handle' = [handle EXCEPT ![w] = "open"]
    /\ writerCount' = writerCount + 1
    /\ eof' = FALSE
    /\ UNCHANGED <<eventVars, stream, sent, taken, wasted, pc, len>>

\* remove_handle, and the end of the process: PipeType::drop of the handle in
\* the table, whatever a thread of the process is doing with its clone.
CloseHandle(w) ==
    /\ handle[w] = "open"
    /\ handle' = [handle EXCEPT ![w] = IF writerCount = 1 THEN "dropped" ELSE "closed"]
    /\ writerCount' = writerCount - 1
    /\ UNCHANGED <<eventVars, dataVars, pc, len>>

CloseSignal(w) ==
    /\ handle[w] = "dropped"
    /\ readWaiter' = Signal(readWaiter)
    /\ handle' = [handle EXCEPT ![w] = "closed"]
    /\ UNCHANGED <<writeWaiter, dataVars, writerCount, pc, len>>

\* Mutant: the call borrows the handle of the table.
WriteCallBorrows(w, n) ==
    /\ pc[w] = "idle" /\ handle[w] = "open"
    /\ Goto(w, "loop")
    /\ len' = [len EXCEPT ![w] = n]
    /\ UNCHANGED <<eventVars, dataVars, handle, writerCount>>

\* sys_write_handler: get_handle clones the handle for the time of the call.
WriteCall(w, n) ==
    /\ pc[w] = "idle" /\ handle[w] = "open"
    /\ writerCount' = writerCount + 1
    /\ Goto(w, "loop")
    /\ len' = [len EXCEPT ![w] = n]
    /\ UNCHANGED <<eventVars, dataVars, handle>>

ReadCall(r, n) ==
    /\ pc[r] = "idle"
    /\ Goto(r, "loop")
    /\ len' = [len EXCEPT ![r] = n]
    /\ UNCHANGED <<eventVars, dataVars, handle, writerCount>>

\* The clone of a write call goes out of scope: PipeType::drop.
DropClone(w) ==
    /\ pc[w] = "drop"
    /\ writerCount' = writerCount - 1
    /\ Goto(w, IF writerCount = 1 THEN "eof" ELSE "idle")
    /\ UNCHANGED <<eventVars, dataVars, handle, len>>

DropSignal(w) ==
    /\ pc[w] = "eof"
    /\ readWaiter' = Signal(readWaiter)
    /\ Goto(w, "idle")
    /\ UNCHANGED <<writeWaiter, dataVars, handle, writerCount, len>>

-----------------------------------------------------------------------------
(* Pipe::read.                                                              *)

\* Mutant: a reader that leaves bytes behind does not pass the wake-up on.
ReadBytesKeepsWake(r, fault) ==
    /\ Looping(r) /\ stream # << >>
    /\ LET give == Least(len[r], Len(stream)) IN
       /\ stream' = IF fault THEN stream ELSE SubSeq(stream, give + 1, Len(stream))
       /\ taken' = IF fault THEN taken ELSE taken + give
    /\ writeWaiter' = Signal(writeWaiter)
    /\ Goto(r, "idle")
    /\ wasted' = FALSE
    /\ UNCHANGED <<readWaiter, handle, writerCount, len, sent, eof>>

\* There is data.  When the copy to the buffer fails the bytes stay, and the
\* caller is told they were read all the same.
ReadBytes(r, fault) ==
    /\ Looping(r) /\ stream # << >>
    /\ LET give == Least(len[r], Len(stream)) IN
       /\ stream' = IF fault THEN stream ELSE SubSeq(stream, give + 1, Len(stream))
       /\ taken' = IF fault THEN taken ELSE taken + give
    /\ writeWaiter' = Signal(writeWaiter)
    /\ readWaiter' = IF stream' # << >> THEN Signal(readWaiter) ELSE readWaiter
    /\ Goto(r, "idle")
    /\ wasted' = FALSE
    /\ UNCHANGED <<handle, writerCount, len, sent, eof>>

\* Mutant: the writers are counted before the stream is looked at.
ReadEofEarly(r) ==
    /\ Looping(r)
    /\ writerCount = 0
    /\ eof' = TRUE
    /\ Goto(r, "idle")
    /\ UNCHANGED <<eventVars, handle, writerCount, len, stream, sent, taken, wasted>>

\* No data and no writer left: end of file.
ReadEof(r) ==
    /\ Looping(r) /\ stream = << >>
    /\ writerCount = 0
    /\ eof' = TRUE
    /\ Goto(r, "idle")
    /\ UNCHANGED <<eventVars, handle, writerCount, len, stream, sent, taken, wasted>>

\* No data yet: the stream is unlocked before the wait.
ReadEmpty(r) ==
    /\ Looping(r) /\ stream = << >>
    /\ writerCount # 0
    /\ Goto(r, "wait")
    /\ UNCHANGED <<eventVars, handle, writerCount, len, dataVars>>

ReadWait(r) ==
    /\ pc[r] = "wait"
    /\ readWaiter' = Wait(readWaiter, r)
    /\ Goto(r, IF readWaiter.signalled THEN "loop" ELSE "slept")
    /\ UNCHANGED <<writeWaiter, handle, writerCount, len, dataVars>>

\* The wait fails: refused to a thread that is about to die, or interrupted.
ReadInterrupted(r) ==
    /\ pc[r] = "wait" \/ r \in Asleep(readWaiter)
    /\ readWaiter' = Leave(readWaiter, r)
    /\ Goto(r, "idle")
    /\ UNCHANGED <<writeWaiter, handle, writerCount, len, dataVars>>

-----------------------------------------------------------------------------
(* Pipe::write.                                                             *)

\* There is room for some of the bytes.
WriteBytes(w) ==
    /\ Looping(w) /\ Len(stream) # Capacity
    /\ LET get == Least(len[w], Capacity - Len(stream)) IN
       /\ stream' = stream \o [i \in 1 .. get |-> sent + i]
       /\ sent' = sent + get
    /\ readWaiter' = Signal(readWaiter)
    /\ writeWaiter' = IF Len(stream') < Capacity THEN Signal(writeWaiter) ELSE writeWaiter
    /\ wasted' = (wasted /\ Len(stream') = Capacity)
    /\ Goto(w, "drop")
    /\ UNCHANGED <<handle, writerCount, len, taken, eof>>

\* The buffer cannot be read: the call ends with an error, without a signal.
WriteFault(w) ==
    /\ Looping(w) /\ Len(stream) # Capacity
    /\ wasted' = TRUE
    /\ Goto(w, "drop")
    /\ UNCHANGED <<eventVars, handle, writerCount, len, stream, sent, taken, eof>>

WriteFull(w) ==
    /\ Looping(w) /\ Len(stream) = Capacity
    /\ Goto(w, "wait")
    /\ UNCHANGED <<eventVars, handle, writerCount, len, dataVars>>

WriteWait(w) ==
    /\ pc[w] = "wait"
    /\ writeWaiter' = Wait(writeWaiter, w)
    /\ Goto(w, IF writeWaiter.signalled THEN "loop" ELSE "slept")
    /\ UNCHANGED <<readWaiter, handle, writerCount, len, dataVars>>

WriteInterrupted(w) ==
    /\ pc[w] = "wait" \/ w \in Asleep(writeWaiter)
    /\ writeWaiter' = Leave(writeWaiter, w)
    /\ Goto(w, "drop")
    /\ UNCHANGED <<readWaiter, handle, writerCount, len, dataVars>>

-----------------------------------------------------------------------------
\* Bytes of the write calls under way, for the bound on all bytes written.
Pending ==
    MapThenSumSet(LAMBDA w : IF pc[w] \in {"idle", "drop", "eof"} THEN 0 ELSE len[w], Writer)

ReadStep(r) ==
    \/ ReadBytes(r, FALSE)
    \/ r \in Faulty /\ ReadBytes(r, TRUE)
    \/ ReadEof(r) \/ ReadEmpty(r) \/ ReadWait(r)

WriteStep(w) ==
    \/ WriteBytes(w)
    \/ w \in Faulty /\ WriteFault(w)
    \/ WriteFull(w) \/ WriteWait(w) \/ DropClone(w) \/ DropSignal(w)

HandleStep(w) ==
    \/ \E v \in Writer : Inherit(w, v)
    \/ OpenPipe(w)
    \/ CloseHandle(w) \/ CloseSignal(w)

Next ==
    \/ \E r \in Reader :
        \/ \E n \in 1 .. MaxLen : ReadCall(r, n)
        \/ ReadStep(r) \/ ReadInterrupted(r)
    \/ \E w \in Writer :
        \/ \E n \in 1 .. MaxLen : sent + Pending + n <= MaxSent /\ WriteCall(w, n)
        \/ WriteStep(w) \/ WriteInterrupted(w)
        \/ HandleStep(w)

Spec == Init /\ [][Next]_vars

-----------------------------------------------------------------------------
TypeOK ==
    /\ EventOK(readWaiter, {r \in Reader : pc[r] = "slept"})
    /\ EventOK(writeWaiter, {w \in Writer : pc[w] = "slept"})
    /\ Len(stream) <= Capacity
    /\ handle \in [Writer -> {"none", "open", "dropped", "closed"}]
    /\ pc \in [Thread -> {"idle", "loop", "wait", "slept", "drop", "eof"}]
    /\ \A r \in Reader : pc[r] \notin {"drop", "eof"}

\* writer_count counts the handles and the clones the calls hold: it reaches
\* zero only when nobody can write any more (PipeType new, clone and drop).
CountMatchesHandles ==
    writerCount = Cardinality({w \in Writer : handle[w] = "open"})
                  + Cardinality({w \in Writer : pc[w] \notin {"idle", "eof"}})

\* Bytes leave read() once and in the order write() put them in, also when a
\* copy to a reader's buffer fails half-way through the stream.
BytesInOrder == stream = [i \in 1 .. (sent - taken) |-> taken + i]

\* End of file is final: a reader that was told of it has missed no byte, and
\* no byte comes until the pipe is opened again, though writer_count is read without the writers' lock.
EofIsFinal == eof => taken = sent

\* A reader gets every byte, in order, before it is told the end.
Delivers == BytesInOrder /\ EofIsFinal

\* No reader sleeps on bytes: while there are some, a reader is awake to take
\* them (read() passes the wake-up on when it leaves bytes behind).
ReadersServed ==
    Asleep(readWaiter) # {} /\ stream # << >> => \E r \in Reader : Looping(r)

\* No writer sleeps on room: while there is some, a writer is awake to use it,
\* unless the wake-up went to a writer whose buffer could not be read.
WritersServed ==
    Asleep(writeWaiter) # {} /\ Len(stream) < Capacity =>
        wasted \/ \E w \in Writer : Looping(w)

\* Nobody sleeps on what is there, though both waiters are auto-reset events
\* whose wake-ups are passed on by hand (read() and write() of pipe.rs).
Serves == ReadersServed /\ WritersServed

\* While there are bytes the readers' event is signalled or a reader is awake
\* to take them; while there is room and a writer is on its way to sleep, or
\* asleep, the same holds of the writers.
BytesWake == stream # << >> => readWaiter.signalled \/ \E r \in Reader : Looping(r)
RoomWakes ==
    Len(stream) < Capacity /\ (\E w \in Writer : pc[w] \in {"wait", "slept"}) =>
        wasted \/ writeWaiter.signalled \/ \E w \in Writer : Looping(w)

\* The types of what TypeOK leaves open.
DataTypes ==
    /\ readWaiter \in EventOf(Reader) /\ writeWaiter \in EventOf(Writer)
    /\ sent \in Nat /\ taken \in Nat /\ taken <= sent
    /\ len \in [Thread -> Nat]
    /\ writerCount \in Nat
    /\ eof \in BOOLEAN /\ wasted \in BOOLEAN

\* The inductive invariant.  That the writers' count is zero at the end of
\* file, and stays so, is what makes the end final.
PipeInv ==
    /\ DataTypes /\ TypeOK
    /\ CountMatchesHandles
    /\ BytesInOrder
    /\ eof => writerCount = 0 /\ taken = sent
    /\ BytesWake
    /\ RoomWakes

\* PipeType::drop: "Wake any blocked readers so they can observe EOF".  Once
\* the last writer is gone no reader is left asleep, unless it is about to be
\* woken.
EofWakesReaders ==
    Asleep(readWaiter) # {} /\ writerCount = 0 =>
        \/ \E r \in Reader : Looping(r)
        \/ \E w \in Writer : handle[w] = "dropped" \/ pc[w] = "eof"

-----------------------------------------------------------------------------

Symm == Permutations(Reader) \cup Permutations(Writer)
=============================================================================
