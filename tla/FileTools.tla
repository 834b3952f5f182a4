------------------------------ MODULE FileTools -----------------------------
(***************************************************************************)
(* The commands that change the file system: cp, mv and rm.                *)
(*                                                                         *)
(* A command is a stack of calls, the innermost last, and takes a step for *)
(* every system call or group of calls that read only; the command may     *)
(* be killed between any two.  A system call that changes the file system, *)
(* reads or writes may fail, MaxFaults times.  A path is a sequence of     *)
(* names, the first of which is the mount.  Symbolic links and running out *)
(* of memory are left out.                                                 *)
(***************************************************************************)
EXTENDS Naturals, Sequences, FiniteSets

CONSTANTS Order,         \* all names of entries, in the order a directory lists them
          Buffer,        \* bytes a copying loop reads at a time
          MaxFaults      \* bound: system calls that fail

VARIABLES job,       \* the command that runs
          fs,        \* path -> [dir, data]
          stack,     \* calls that have not returned
          op,        \* the next operand
          status,    \* the exit status so far, or of the command
          done,      \* it has exited
          skipped,   \* a copy or a move was declined
          faults     \* system calls that have failed

vars == <<job, fs, stack, op, status, done, skipped, faults>>

Flag(f) == f \in job.flags
Parent(p) == SubSeq(p, 1, Len(p) - 1)
Base(p) == p[Len(p)]
Join(p, name) == Append(p, name)
\* is_path_prefix compares the strings.
IsPrefix(p, q) == Len(p) <= Len(q) /\ SubSeq(q, 1, Len(p)) = p

----------------------------------------------------------------------------
(* The system calls, from the kernel's fs *)

Exists(p) == p \in DOMAIN fs
IsDir(p) == Exists(p) /\ fs[p].dir
Entries(p) == SelectSeq(Order, LAMBDA n : Exists(Join(p, n)))
\* vfs.rs: "." and ".." come first; the offset counts the entries there are now.
Listed(p, offset) == IF offset < 2 THEN "dot"
                     ELSE IF offset - 2 < Len(Entries(p)) THEN Entries(p)[offset - 1] ELSE "none"

Removed(p) == [q \in DOMAIN fs \ {p} |-> fs[q]]
Added(f, p, node) == [q \in DOMAIN f \cup {p} |-> IF q = p THEN node ELSE f[q]]
CanDelete(p) == Exists(p) /\ ~(fs[p].dir /\ Entries(p) # <<>>)
CanRename(p, q) == Exists(p) /\ ~Exists(q) /\ IsDir(Parent(q)) /\ p[1] = q[1]
CanMkdir(p) == ~Exists(p) /\ IsDir(Parent(p))
Renamed(p, q) ==
   LET moved == {r \in DOMAIN fs : IsPrefix(p, r)}
       New(r) == IF r \in moved THEN q \o SubSeq(r, Len(p) + 1, Len(r)) ELSE r
   IN [r \in {New(o) : o \in DOMAIN fs} |-> fs[CHOOSE o \in DOMAIN fs : New(o) = r]]

\* A call that can succeed may still fail, and then leaves another state.
Sys(ok, can, new, left) ==
   /\ ok => can
   /\ fs' = IF ok THEN new ELSE left
   /\ IF can /\ ~ok THEN faults < MaxFaults /\ faults' = faults + 1 ELSE UNCHANGED faults

----------------------------------------------------------------------------
(* Calls and returns *)

Frame(proc, src, dest, top) ==
   [proc |-> proc, src |-> src, dest |-> dest, top |-> top, pc |-> "check", offset |-> 0,
    pos |-> 0, err |-> FALSE, fail |-> 0]

Top == stack[Len(stack)]
Under == SubSeq(stack, 1, Len(stack) - 1)
At(proc, pc) == ~done /\ stack # <<>> /\ Top.proc \in proc /\ Top.pc = pc
Goto(pc) == stack' = Append(Under, [Top EXCEPT !.pc = pc]) /\ UNCHANGED status
Or(a, b) == IF a + b > 0 THEN 1 ELSE 0

\* The result is or-ed into the caller's, or into main's.
Return(r) ==
   IF Under = <<>> THEN stack' = <<>> /\ status' = Or(status, r)
   ELSE /\ stack' = [Under EXCEPT ![Len(Under)].fail = Or(@, r)]
        /\ UNCHANGED status

Rest == UNCHANGED <<job, op, done>>

----------------------------------------------------------------------------
(* main: the last operand is the destination, or the directory for all *)

\* A command of jobs, each [cmd, flags, tree, ops]: the files it finds and its operands.
Start(jobs) ==
   /\ job \in jobs
   /\ fs = job.tree /\ stack = <<>> /\ op = 1 /\ status = 0
   /\ done = FALSE /\ skipped = FALSE /\ faults = 0

Last == job.ops[Len(job.ops)]
Sources == IF job.cmd = "rm" THEN job.ops ELSE SubSeq(job.ops, 1, Len(job.ops) - 1)
IntoDir == job.cmd # "rm" /\ Last \in DOMAIN job.tree /\ job.tree[Last].dir
DestOf(p) == IF job.cmd = "rm" THEN <<>> ELSE IF IntoDir THEN Join(Last, Base(p)) ELSE Last

Usage == job.cmd # "rm" /\ (Len(job.ops) < 2 \/ (Len(job.ops) > 2 /\ ~IntoDir))

Main ==
   /\ ~done /\ stack = <<>>
   /\ IF Usage THEN done' = TRUE /\ status' = 1 /\ UNCHANGED <<stack, op>>
      ELSE IF op > Len(Sources) THEN done' = TRUE /\ UNCHANGED <<stack, op, status>>
      ELSE /\ stack' = <<Frame(job.cmd, Sources[op], DestOf(Sources[op]), TRUE)>>
           /\ op' = op + 1 /\ UNCHANGED <<done, status>>
   /\ UNCHANGED <<job, fs, skipped, faults>>

----------------------------------------------------------------------------
(* rm.c *)

RemovePath ==
   /\ At({"rm"}, "check")
   /\ IF ~Exists(Top.src) THEN Return(IF Flag("f") THEN 0 ELSE 1)
      ELSE IF fs[Top.src].dir /\ ~Flag("r") THEN Return(1)
      ELSE Goto(IF fs[Top.src].dir THEN "list" ELSE "delete")
   /\ Rest /\ UNCHANGED <<fs, skipped, faults>>

RemoveDelete ==
   /\ At({"rm"}, "delete")
   /\ \E ok \in BOOLEAN :
        /\ Sys(ok, CanDelete(Top.src), Removed(Top.src), fs)
        /\ Return(IF ~ok /\ ~Flag("f") THEN 1 ELSE Top.fail)
   /\ Rest /\ UNCHANGED skipped

\* The loop over a directory of all three commands.  mv moves the children
\* whatever the options say.
List ==
   /\ At({"rm", "mv", "cp"}, "list")
   /\ LET name == Listed(Top.src, Top.offset)
          next == [Top EXCEPT !.offset = @ + 1]
          child == Frame(Top.proc, Join(Top.src, name),
                         IF Top.proc = "rm" THEN <<>> ELSE Join(Top.dest, name), Top.proc # "mv")
      IN CASE name = "dot" -> stack' = Append(Under, next) /\ UNCHANGED status
           [] name = "none" -> IF Top.proc = "cp" \/ (Top.proc = "mv" /\ Top.fail = 1)
                               THEN Return(Top.fail) ELSE Goto("delete")
           [] OTHER -> stack' = Under \o <<next, child>> /\ UNCHANGED status
   /\ Rest /\ UNCHANGED <<fs, skipped, faults>>

----------------------------------------------------------------------------
(* mv.c *)

\* -n keeps what is there; -i asks, and any answer comes.
Declines(yes) == Exists(Top.dest) /\ (Flag("n") \/ (Flag("i") /\ ~yes))

MovePath ==
   /\ At({"mv"}, "check")
   /\ \E yes \in BOOLEAN :
        LET bad == \/ IsPrefix(Top.src, Top.dest)
                   \/ ~Exists(Top.src)
                   \/ Exists(Top.dest) /\ fs[Top.src].dir # fs[Top.dest].dir
            declined == ~bad /\ Top.top /\ Declines(yes)
        IN /\ IF bad THEN Return(1)
              ELSE IF declined THEN Return(0)
              ELSE Goto(IF Exists(Top.dest) THEN "clear" ELSE "rename")
           /\ skipped' = (skipped \/ declined)
   /\ Rest /\ UNCHANGED <<fs, faults>>

\* rename never replaces: the destination is deleted first.
MoveClear ==
   /\ At({"mv"}, "clear")
   /\ \E ok \in BOOLEAN :
        /\ Sys(ok, CanDelete(Top.dest), Removed(Top.dest), fs)
        /\ IF ok THEN Goto("rename") ELSE Return(1)
   /\ Rest /\ UNCHANGED skipped

MoveRename ==
   /\ At({"mv"}, "rename")
   /\ \E ok \in BOOLEAN :
        /\ Sys(ok, CanRename(Top.src, Top.dest), Renamed(Top.src, Top.dest), fs)
        /\ IF ok THEN Return(0) ELSE Goto(IF fs[Top.src].dir THEN "mkdir" ELSE "open")
   /\ Rest /\ UNCHANGED skipped

MakeDir ==
   /\ At({"mv", "cp"}, "mkdir")
   /\ \E ok \in BOOLEAN :
        /\ Sys(ok, CanMkdir(Top.dest), Added(fs, Top.dest, [dir |-> TRUE, data |-> <<>>]), fs)
        /\ IF ok THEN Goto("list") ELSE Return(1)
   /\ Rest /\ UNCHANGED skipped

\* Behind the copy, or behind the children: the source is removed.
\* Mutant: mv removes the source though copying it has failed.
MoveDeleteAlways ==
   /\ At({"mv"}, "delete") \/ At({"mv"}, "closed")
   /\ \E ok \in BOOLEAN :
        Sys(ok, CanDelete(Top.src), Removed(Top.src), fs) /\ Return(IF ok THEN 0 ELSE 1)
   /\ Rest /\ UNCHANGED skipped

MoveDelete ==
   /\ At({"mv"}, "delete") \/ (At({"mv"}, "closed") /\ Top.fail = 0)
   /\ \E ok \in BOOLEAN :
        Sys(ok, CanDelete(Top.src), Removed(Top.src), fs) /\ Return(IF ok THEN 0 ELSE 1)
   /\ Rest /\ UNCHANGED skipped

CopyFailed ==
   /\ At({"mv", "cp"}, "closed") /\ (Top.proc = "cp" \/ Top.fail = 1)
   /\ Return(Top.fail)
   /\ Rest /\ UNCHANGED <<fs, skipped, faults>>

----------------------------------------------------------------------------
(* cp.c; the copying of bytes is mv's as well *)

CopyPath ==
   /\ At({"cp"}, "check")
   /\ \E yes \in BOOLEAN :
        LET isDir == IsDir(Top.src)
            bad == \/ Top.src = Top.dest
                   \/ ~Exists(Top.src)
                   \/ isDir /\ (~Flag("r") \/ IsPrefix(Top.src, Top.dest))
                   \/ Exists(Top.dest) /\ fs[Top.src].dir # fs[Top.dest].dir
            declined == ~bad /\ ~isDir /\ Declines(yes)
        IN /\ IF bad THEN Return(1)
              ELSE IF declined THEN Return(0)
              ELSE Goto(IF ~isDir THEN "open" ELSE IF Exists(Top.dest) THEN "list" ELSE "mkdir")
           /\ skipped' = (skipped \/ declined)
   /\ Rest /\ UNCHANGED <<fs, faults>>

\* fopen (dest, "w") deletes what is there and creates it anew, which is refused
\* while the same file is being read.  With -f, cp deletes it and tries again.
Opens(next) ==
   \E ok \in BOOLEAN, left \in {fs, Removed(Top.dest)} :
      /\ Sys(ok, IsDir(Parent(Top.dest)) /\ Top.dest # Top.src,
             Added(fs, Top.dest, [dir |-> FALSE, data |-> <<>>]),
             IF Top.dest = Top.src \/ ~IsDir(Parent(Top.dest)) THEN fs ELSE left)
      /\ IF ok THEN Goto("copy") ELSE next

OpenBoth ==
   /\ At({"mv", "cp"}, "open")
   /\ Opens(IF Top.proc = "cp" /\ Flag("f") THEN Goto("force") ELSE Return(1))
   /\ Rest /\ UNCHANGED skipped

ForceDelete ==
   /\ At({"cp"}, "force")
   /\ \E ok \in BOOLEAN : Sys(ok, CanDelete(Top.dest), Removed(Top.dest), fs)
   /\ Goto("again")
   /\ Rest /\ UNCHANGED skipped

ForceOpen ==
   /\ At({"cp"}, "again")
   /\ Opens(Return(1))
   /\ Rest /\ UNCHANGED skipped

Bytes(from, n) == SubSeq(fs[Top.src].data, from + 1, from + n)
Unread == Len(fs[Top.src].data) - Top.pos
Full == IF Unread < Buffer THEN Unread ELSE Buffer
Wrote(n) == fs' = [fs EXCEPT ![Top.dest].data = @ \o Bytes(Top.pos, n)]
Step(f) == stack' = Append(Under, f) /\ UNCHANGED status

\* fread, fwrite: a buffer is read and written.  A read that fails has read n
\* bytes, which are still copied; the loop ends when there are none.
CopyChunk ==
   /\ At({"mv", "cp"}, "copy")
   /\ \/ /\ Full > 0 /\ Wrote(Full) /\ UNCHANGED faults
         /\ Step([Top EXCEPT !.pos = @ + Full])
      \/ /\ Full = 0 /\ UNCHANGED <<fs, faults>>
         /\ Step([Top EXCEPT !.pc = "closed", !.fail = IF Top.err THEN 1 ELSE 0])
      \/ /\ faults < MaxFaults /\ faults' = faults + 1
         /\ \E n \in 0..Full :
              /\ Wrote(n)
              /\ Step([Top EXCEPT !.pos = @ + n, !.err = TRUE,
                                  !.pc = IF n = 0 THEN "closed" ELSE "copy",
                                  !.fail = IF n = 0 THEN 1 ELSE 0])
   /\ Rest /\ UNCHANGED skipped

\* A write that fails has written n bytes; the loop is left.
CopyShort ==
   /\ At({"mv", "cp"}, "copy") /\ faults < MaxFaults /\ Full > 0
   /\ faults' = faults + 1
   /\ \E n \in 0..(Full - 1) : Wrote(n)
   /\ Step([Top EXCEPT !.pc = "closed", !.fail = 1])
   /\ Rest /\ UNCHANGED skipped

Next == \/ Main \/ RemovePath \/ RemoveDelete \/ List
        \/ MovePath \/ MoveClear \/ MoveRename \/ MakeDir \/ MoveDelete \/ CopyFailed
        \/ CopyPath \/ OpenBoth \/ ForceDelete \/ ForceOpen \/ CopyChunk \/ CopyShort

-----------------------------------------------------------------------------
(***************************************************************************)
(* Two mounts A and B, a file and a directory of two files, and what may   *)
(* be in the way of a copy or a move.                                      *)
(***************************************************************************)

Dir == [dir |-> TRUE, data |-> <<>>]
File(d) == [dir |-> FALSE, data |-> d]

Below(p, t) == [q \in {p \o r : r \in DOMAIN t} |-> t[SubSeq(q, Len(p) + 1, Len(q))]]
Merge(a, b) == [q \in DOMAIN a \cup DOMAIN b |-> IF q \in DOMAIN a THEN a[q] ELSE b[q]]
Single(p, n) == [q \in {p} |-> n]
Folder == [q \in {<<>>, <<"x">>, <<"y">>} |-> IF q = <<>> THEN Dir ELSE IF q = <<"x">> THEN File(<<1>>) ELSE File(<<2, 3>>)]

Plain == Merge(Merge(Single(<<"A">>, Dir), Single(<<"B">>, Dir)),
               Merge(Single(<<"A", "x">>, File(<<1, 2, 3>>)), Below(<<"A", "d">>, Folder)))
Nested == Merge(Plain, Merge(Single(<<"A", "e">>, Dir), Below(<<"A", "e", "d">>, Folder)))
InTheWay == {Plain, Nested,
             Merge(Plain, Single(<<"B", "x">>, File(<<9>>))), Merge(Plain, Single(<<"A", "y">>, File(<<>>))),
             Merge(Plain, Single(<<"B", "d">>, Dir)), Merge(Plain, Below(<<"B", "d">>, Folder)),
             Merge(Plain, Single(<<"B", "d">>, File(<<9>>)))}

OpsOf == { << <<"A", "x">>, <<"B", "x">> >>, << <<"A", "x">>, <<"A", "y">> >>,
           << <<"A", "d">>, <<"B", "e">> >>, << <<"A", "d">>, <<"A", "y">> >>,
           << <<"A", "d">>, <<"B">> >>, << <<"A", "x">>, <<"A", "d">>, <<"B">> >>,
           << <<"A", "e">>, <<"B">> >>, << <<"A", "d">>, <<"A", "d", "e">> >>,
           << <<"A", "x">>, <<"A", "x">> >>, << <<"A", "x">> >> }

McJobs ==
   {[cmd |-> c, flags |-> f, tree |-> t, ops |-> o] :
       c \in {"mv"}, f \in {{}, {"n"}, {"i"}}, t \in InTheWay, o \in OpsOf}
   \cup {[cmd |-> c, flags |-> f, tree |-> t, ops |-> o] :
       c \in {"cp"}, f \in {{}, {"r"}, {"r", "f"}, {"r", "n"}, {"r", "i"}}, t \in InTheWay, o \in OpsOf}
   \cup {[cmd |-> "rm", flags |-> f, tree |-> t, ops |-> o] :
       f \in SUBSET {"r", "f"}, t \in {Plain, Nested},
       o \in {<< <<"A", "x">>, <<"A", "d">> >>, << <<"A", "e">> >>, << <<"A", "y">> >>}}

Init == Start(McJobs)

----------------------------------------------------------------------------
Under1(p) == {q \in DOMAIN job.tree : IsPrefix(p, q)}
Image(p, q) == DestOf(p) \o SubSeq(q, Len(p) + 1, Len(q))
Has(p, node) == p \in DOMAIN fs /\ fs[p] = node

\* mv and cp lose no file, whichever system call fails and wherever they are
\* killed: a file that was below a source is whole, for cp where it was, for mv
\* there or at the destination.
NothingLost ==
   job.cmd # "rm" /\ ~Usage =>
      \A i \in DOMAIN Sources : \A q \in Under1(Sources[i]) :
         ~job.tree[q].dir =>
            Has(q, job.tree[q]) \/ (job.cmd = "mv" /\ Has(Image(Sources[i], q), job.tree[q]))

\* A command that exits with 0, and was not told to skip or to force, has done
\* all of it: the copy is complete, the source of a move is gone, and so is
\* what rm was given.
ZeroMeansDone ==
   done /\ status = 0 /\ ~skipped /\ ~(job.cmd = "rm" /\ Flag("f")) =>
      \A i \in DOMAIN Sources : \A q \in Under1(Sources[i]) :
         /\ job.cmd # "rm" => Has(Image(Sources[i], q), job.tree[q])
         /\ job.cmd # "cp" => q \notin DOMAIN fs
=============================================================================
