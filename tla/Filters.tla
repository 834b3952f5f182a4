------------------------------- MODULE Filters ------------------------------
(***************************************************************************)
(* The commands that read streams: cat, head, tail and wc, over the        *)
(* buffered input of libc/stdio.c.                                         *)
(*                                                                         *)
(* A read returns any number of bytes up to the buffer's size, or fails,   *)
(* so every way a stream can be cut into reads happens.  A byte is one of  *)
(* a letter, a blank and a newline.  What is printed is a sequence of      *)
(* numbers: bytes, and above them the marks for a line number, a header    *)
(* and the columns of wc.  Options are records: getopt_long is CmdLine's.  *)
(* Writes to the standard output succeed, and memory is never exhausted.   *)
(***************************************************************************)
EXTENDS Naturals, Sequences, FiniteSets

CONSTANTS BUFSIZ,        \* the size of a stream's buffer
          Radix,         \* count_digits counts in tens
          MaxErrors      \* bound: reads that fail

LETTER == 1
BLANK == 2
NL == 3
DOLLAR == 4
Number(k) == 100 + k            \* "%6lld\t"
Header(i) == 200 + i            \* "==> name <=="
Row(i) == 300 + i               \* the name behind the counts; 0: total
Width(w) == 400 + w             \* the width of a column

VARIABLES prog,      \* the command and what its operands hold
          at,        \* the operand being read
          pc,        \* "open", "read" or "exit"
          file,      \* the stream being read: [rest, buf, error]
          stdin,     \* the standard input: [rest, buf, error]
          cs,        \* the locals of the command's loops
          out,       \* what has been printed
          fail,      \* the exit status
          errors     \* reads that have failed

vars == <<prog, at, pc, file, stdin, cs, out, fail, errors>>

Stream(data) == [rest |-> data, buf |-> <<>>, error |-> FALSE]

\* No operand means the standard input, without a header.
Operands == IF prog.operands = <<>> THEN <<[kind |-> "stdin", data |-> <<>>]>> ELSE prog.operands

----------------------------------------------------------------------------
(* The loops of the commands: one character, one line, the end of input *)

Cap == prog.count

\* Nothing wanted: the stream is not read at all.
NoRead == Cap = 0 /\ ~prog.signed /\ prog.cmd \in {"head", "tail"}

\* What the loops start with.  cat's counters run through all operands.
Locals == [line |-> <<>>, slots |-> [i \in 0..(Cap - 1) |-> <<>>], first |-> 0, filled |-> 0,
           n |-> 0, word |-> FALSE, len |-> 0, count |-> <<0, 0, 0, 0, 0>>,
           lineno |-> cs.lineno, blank |-> cs.blank, rows |-> cs.rows, done |-> NoRead]

\* The lines kept back: a ring of Cap slots.
Put(s, item) ==
   IF s.filled = Cap
   THEN [s EXCEPT !.slots[s.first] = item, !.first = (@ + 1) % Cap]
   ELSE [s EXCEPT !.slots[(s.first + s.filled) % Cap] = item, !.filled = @ + 1]

\* tail_last_bytes: the slot behind the newest byte is written next.
RingByte(s, c) ==
   [s EXCEPT !.slots[s.first] = c, !.first = (@ + 1) % Cap,
             !.filled = IF @ < Cap THEN @ + 1 ELSE @]

Queued(s) == LET from == IF s.filled < Cap THEN 0 ELSE s.first
             IN [i \in 1..s.filled |-> s.slots[(from + i - 1) % Cap]]

RECURSIVE Joined(_)
Joined(items) == IF items = <<>> THEN <<>> ELSE Head(items) \o Joined(Tail(items))

\* cat: number, text, end mark and newline of one line.
CatLine(s, text, nl) ==
   LET blank == text = <<>>
       skip == "s" \in prog.flags /\ blank /\ s.blank
       number == IF "b" \in prog.flags THEN ~blank ELSE "n" \in prog.flags
   IN IF skip THEN [s |-> s, out |-> <<>>]
      ELSE [s |-> [s EXCEPT !.blank = blank, !.lineno = IF number THEN @ + 1 ELSE @],
            out |-> (IF number THEN <<Number(s.lineno)>> ELSE <<>>) \o text
                      \o (IF "E" \in prog.flags THEN <<DOLLAR>> ELSE <<>>) \o nl]

\* head -n -K and tail -n K keep the last K lines; head prints what leaves.
PendingLine(s, text, nl) ==
   [s |-> Put(s, text \o nl),
    out |-> IF prog.cmd = "head" /\ s.filled = Cap THEN s.slots[s.first] ELSE <<>>]

\* wc: the counts of lines, words, characters, bytes and the longest line.
WcChar(s, c) ==
   [s EXCEPT !.word = c = LETTER,
             !.len = IF c = NL THEN 0 ELSE @ + 1,
             !.count = <<@[1] + (IF c = NL THEN 1 ELSE 0),
                         @[2] + (IF c = LETTER /\ ~s.word THEN 1 ELSE 0),
                         @[3] + 1, @[4] + 1, IF c = NL /\ s.len > @[5] THEN s.len ELSE @[5]>>]

ByLine == prog.cmd = "cat" \/ (~prog.bytes /\ Cap > 0 /\ ((prog.cmd = "head" /\ prog.signed)
                                                            \/ (prog.cmd = "tail" /\ ~prog.signed)))

\* read_line: a line is handed on without its newline.
ReadLine(s, nl) ==
   LET t == [s EXCEPT !.line = <<>>]
   IN IF prog.cmd = "cat" THEN CatLine(t, s.line, nl) ELSE PendingLine(t, s.line, nl)

\* head_first_lines, head_first_bytes: stop behind the last one wanted.
HeadFirst(s, c) ==
   LET n == IF prog.bytes \/ c = NL THEN s.n + 1 ELSE s.n
   IN [s |-> [s EXCEPT !.n = n, !.done = n = Cap], out |-> <<c>>]

HeadButLast(s, c) ==
   IF Cap = 0 THEN [s |-> s, out |-> <<c>>]
   ELSE [s |-> Put(s, c), out |-> IF s.filled = Cap THEN <<s.slots[s.first]>> ELSE <<>>]

\* tail_from_line, tail_from_byte: n counts what is complete.
TailFrom(s, c) ==
   [s |-> IF prog.bytes \/ c = NL THEN [s EXCEPT !.n = @ + 1] ELSE s,
    out |-> IF s.n + 1 >= Cap THEN <<c>> ELSE <<>>]

OnChar(s, c) ==
   CASE ByLine -> IF c = NL THEN ReadLine(s, <<NL>>)
                  ELSE [s |-> [s EXCEPT !.line = Append(@, c)], out |-> <<>>]
     [] prog.cmd = "wc" -> [s |-> WcChar(s, c), out |-> <<>>]
     [] prog.cmd = "head" /\ ~ByLine ->
           IF prog.signed THEN HeadButLast(s, c) ELSE HeadFirst(s, c)
     [] prog.cmd = "tail" /\ ~ByLine ->
           IF prog.signed THEN TailFrom(s, c) ELSE [s |-> RingByte(s, c), out |-> <<>>]

\* What is printed when the loop has ended.
AtEnd(s) ==
   CASE prog.cmd = "tail" /\ ~prog.signed /\ Cap > 0 ->
           IF prog.bytes THEN Queued(s) ELSE Joined(Queued(s))
     [] OTHER -> <<>>

----------------------------------------------------------------------------
(* wc prints when everything has been counted *)

RECURSIVE count_digits(_)
count_digits(v) == IF v < Radix THEN 1 ELSE 1 + count_digits(v \div Radix)

\* The columns asked for, in the order of print_row.
Letters == <<"l", "w", "m", "c", "L">>
Selected == SelectSeq(<<1, 2, 3, 4, 5>>, LAMBDA i : Letters[i] \in prog.flags)
Columns(row) == [i \in DOMAIN Selected |-> row.count[Selected[i]]]

Total(rows) ==
   LET Plus(a, b) == [i \in 1..5 |-> IF i < 5 THEN a[i] + b[i]
                                     ELSE IF a[5] < b[5] THEN b[5] ELSE a[5]]
       Sum[i \in 0..Len(rows)] == IF i = 0 THEN <<0, 0, 0, 0, 0>> ELSE Plus(Sum[i - 1], rows[i].count)
   IN [name |-> 0, count |-> Sum[Len(rows)]]


Table(rows) ==
   LET shown == IF Len(rows) > 1 THEN Append(rows, Total(rows)) ELSE rows
       values == {1} \cup UNION {{Columns(shown[i])[j] : j \in DOMAIN Columns(shown[i])}
                                   : i \in DOMAIN shown}
       widest == CHOOSE v \in values : \A u \in values : u <= v
   IN <<Width(count_digits(widest))>>
        \o Joined([i \in DOMAIN shown |-> Append(Columns(shown[i]), Row(shown[i].name))])

----------------------------------------------------------------------------
(* The operands one after the other *)

\* A command of programs, each [cmd, bytes, count, signed, headers, flags, operands, stdin].
Start(programs) ==
   /\ prog \in programs
   /\ at = 1 /\ pc = "open" /\ out = <<>> /\ fail = FALSE /\ errors = 0
   /\ stdin = Stream(prog.stdin) /\ file = Stream(<<>>)
   /\ cs = [lineno |-> 1, blank |-> FALSE, rows |-> <<>>]

Operand == Operands[at]

\* A directory or a missing file is reported and skipped.
Skip ==
   /\ pc = "open" /\ at <= Len(Operands) /\ Operand.kind \in {"dir", "missing"}
   /\ at' = at + 1 /\ fail' = TRUE
   /\ UNCHANGED <<prog, pc, file, stdin, cs, out, errors>>

PrintHeader ==
   /\ prog.cmd \in {"head", "tail"} /\ prog.operands # <<>>
   /\ "v" \in prog.flags \/ (Len(prog.operands) > 1 /\ "q" \notin prog.flags)

\* The first header has no empty line before it.
Open ==
   /\ pc = "open" /\ at <= Len(Operands) /\ Operand.kind \in {"file", "stdin"}
   /\ pc' = "read"
   /\ file' = IF Operand.kind = "stdin" THEN stdin ELSE Stream(Operand.data)
   /\ cs' = Locals
   /\ out' = IF ~PrintHeader THEN out
             ELSE out \o (IF \A i \in 1..(at - 1) : Operands[i].kind \in {"dir", "missing"}
                          THEN <<>> ELSE <<NL>>) \o <<Header(at)>>
   /\ UNCHANGED <<prog, at, stdin, fail, errors>>

\* fgetc out of the buffer.
Take ==
   /\ pc = "read" /\ ~cs.done /\ file.buf # <<>>
   /\ LET r == OnChar(cs, Head(file.buf)) IN cs' = r.s /\ out' = out \o r.out
   /\ file' = [file EXCEPT !.buf = Tail(@)]
   /\ UNCHANGED <<prog, at, pc, stdin, fail, errors>>

\* refill: a read of up to BUFSIZ bytes.
Refill ==
   /\ pc = "read" /\ ~cs.done /\ file.buf = <<>> /\ file.rest # <<>>
   /\ \E n \in 1..Len(file.rest) :
         /\ n <= BUFSIZ
         /\ file' = [file EXCEPT !.buf = SubSeq(file.rest, 1, n),
                                 !.rest = SubSeq(file.rest, n + 1, Len(file.rest))]
   /\ UNCHANGED <<prog, at, pc, stdin, cs, out, fail, errors>>

\* fgetc returns EOF.  A line without a newline is still a line, and read_line
\* is called once more behind it.
EndOfInput(f) ==
   /\ file' = f
   /\ IF ByLine /\ cs.line # <<>>
      THEN LET r == ReadLine(cs, <<>>) IN cs' = r.s /\ out' = out \o r.out
      ELSE cs' = [cs EXCEPT !.done = TRUE] /\ out' = out
   /\ UNCHANGED <<prog, at, pc, stdin, fail>>

Eof ==
   /\ pc = "read" /\ ~cs.done /\ file.buf = <<>> /\ file.rest = <<>>
   /\ EndOfInput(file) /\ UNCHANGED errors

ReadError ==
   /\ pc = "read" /\ ~cs.done /\ file.buf = <<>> /\ errors < MaxErrors
   /\ errors' = errors + 1
   /\ EndOfInput([file EXCEPT !.error = TRUE])

\* The stream's error is the command's.  wc keeps the counts for the table.
Close ==
   /\ pc = "read" /\ cs.done
   /\ pc' = "open" /\ at' = at + 1
   /\ fail' = (fail \/ file.error)
   /\ stdin' = IF Operand.kind = "stdin" THEN file ELSE stdin
   /\ out' = out \o AtEnd(cs)
   /\ cs' = [cs EXCEPT !.rows = IF prog.cmd # "wc" THEN @ ELSE
                Append(@, [name |-> IF prog.operands = <<>> THEN 9 ELSE at,
                           count |-> [cs.count EXCEPT ![5] = IF cs.len > @ THEN cs.len ELSE @]])]
   /\ UNCHANGED <<prog, file, errors>>

Exit ==
   /\ pc = "open" /\ at > Len(Operands)
   /\ pc' = "exit"
   /\ out' = IF prog.cmd = "wc" THEN Table(cs.rows) ELSE out
   /\ UNCHANGED <<prog, at, file, stdin, cs, fail, errors>>

Next == Skip \/ Open \/ Take \/ Refill \/ Eof \/ ReadError \/ Close \/ Exit

-----------------------------------------------------------------------------
(***************************************************************************)
(* What cat, head, tail and wc print, stated on whole files, and the       *)
(* commands that are tried.                                                *)
(***************************************************************************)

CONSTANTS MaxLong, MaxShort      \* bounds: bytes of an only operand, and of one of two

Texts(n) == UNION {[1..k -> {LETTER, BLANK, NL}] : k \in 0..n}
Operand1(t) == [kind |-> "file", data |-> t]
Stdin == [kind |-> "stdin", data |-> <<>>]
Missing == [kind |-> "missing", data |-> <<>>]
Folder == [kind |-> "dir", data |-> <<>>]

Command(cmd, bytes, count, signed, flags) ==
   [cmd |-> cmd, bytes |-> bytes, count |-> count, signed |-> signed, flags |-> flags]

Commands ==
   {Command(c, b, k, s, {}) : c \in {"head", "tail"}, b \in BOOLEAN, k \in 0..2, s \in BOOLEAN}
   \cup {Command("cat", FALSE, 0, FALSE, f) : f \in SUBSET {"n", "s"} \cup {{"b", "s"}, {"b", "n", "E"}}}
   \cup {Command("wc", FALSE, 0, FALSE, f) : f \in {{"l", "w", "c"}, {"m", "L"}}}

Called(c, operands, input) ==
   [cmd |-> c.cmd, bytes |-> c.bytes, count |-> c.count, signed |-> c.signed, flags |-> c.flags,
    operands |-> operands, stdin |-> input]

\* One stream; two files; the standard input twice, or next to what cannot be
\* opened, with the headers asked for or refused.
McPrograms ==
   {Called(c, <<>>, t) : c \in Commands, t \in Texts(MaxLong)}
   \cup {Called(c, <<Operand1(t), Operand1(u)>>, <<>>) : c \in Commands, t \in Texts(MaxShort), u \in Texts(MaxShort)}
   \cup {Called(c, ops, t) : c \in Commands, t \in Texts(MaxShort),
            ops \in {<<Stdin, Stdin>>, <<Missing, Stdin>>, <<Stdin, Folder, Operand1(<<LETTER>>)>>}}
   \cup {Called(Command(c, FALSE, 1, FALSE, f), ops, t) : c \in {"head", "tail"}, f \in {{"v"}, {"q"}},
            t \in Texts(MaxShort), ops \in {<<Stdin>>, <<Stdin, Stdin>>}}

Init == Start(McPrograms)

----------------------------------------------------------------------------
(* The meaning of the commands *)

\* The lines of a text, each with its newline if it has one.
LinesOf(t) ==
   LET cut == {0} \cup {i \in DOMAIN t : t[i] = NL} \cup {Len(t)}
       start(i) == CHOOSE c \in cut : c < i /\ \A d \in cut : d < i => d <= c
       ends == SelectSeq([i \in 1..Len(t) |-> i], LAMBDA i : i \in cut)
   IN [k \in DOMAIN ends |-> SubSeq(t, start(ends[k]) + 1, ends[k])]

Units(t) == IF prog.bytes THEN [i \in DOMAIN t |-> <<t[i]>>] ELSE LinesOf(t)
First(s, k) == Joined(SubSeq(s, 1, IF k < Len(s) THEN k ELSE Len(s)))
Behind(s, k) == Joined(SubSeq(s, k + 1, Len(s)))
Less(a, b) == IF a < b THEN 0 ELSE a - b

HeadOf(t) == First(Units(t), IF prog.signed THEN Less(Len(Units(t)), prog.count) ELSE prog.count)
TailOf(t) == Behind(Units(t), IF prog.signed THEN Less(prog.count, 1)
                              ELSE Less(Len(Units(t)), prog.count))

\* What the i-th operand yields.  head leaves the rest of what it has buffered,
\* so the second "-" is only predicted when the first has read everything.
TextOf(i) == CASE Operands[i].kind = "file" -> Operands[i].data
               [] Operands[i].kind = "stdin" /\ \A j \in 1..(i - 1) : Operands[j].kind # "stdin" ->
                     prog.stdin
               [] OTHER -> <<>>
Readable(i) == Operands[i].kind \in {"file", "stdin"}
ReadsAll == prog.cmd = "cat" \/ prog.cmd = "wc" \/ (prog.cmd = "tail" /\ (prog.signed \/ prog.count > 0))
               \/ (prog.cmd = "head" /\ prog.signed)

\* head and tail: the parts of the operands, under their headers.
Parts ==
   LET shown == SelectSeq([i \in DOMAIN Operands |-> i], LAMBDA i : Readable(i))
       part(i) == IF prog.cmd = "head" THEN HeadOf(TextOf(i)) ELSE TailOf(TextOf(i))
   IN Joined([k \in DOMAIN shown |->
                (IF PrintHeader THEN (IF k = 1 THEN <<>> ELSE <<NL>>) \o <<Header(shown[k])>> ELSE <<>>)
                  \o part(shown[k])])

\* cat: of the lines of all operands, the blank ones behind a blank one are
\* left out; the others are numbered in their order.
CatOf ==
   LET all == Joined([i \in DOMAIN Operands |-> LinesOf(TextOf(i))])
       isBlank(l) == l = <<NL>>
       kept == SelectSeq([i \in DOMAIN all |-> i],
                         LAMBDA i : ~("s" \in prog.flags /\ isBlank(all[i])
                                        /\ i > 1 /\ isBlank(all[i - 1])))
       counted(i) == IF "b" \in prog.flags THEN ~isBlank(all[i]) ELSE "n" \in prog.flags
       number(k) == Cardinality({j \in 1..k : counted(kept[j])})
       text(l) == IF l[Len(l)] = NL THEN SubSeq(l, 1, Len(l) - 1) ELSE l
   IN Joined([k \in DOMAIN kept |->
                (IF counted(kept[k]) THEN <<Number(number(k))>> ELSE <<>>) \o text(all[kept[k]])
                  \o (IF "E" \in prog.flags THEN <<DOLLAR>> ELSE <<>>)
                  \o (IF all[kept[k]][Len(all[kept[k]])] = NL THEN <<NL>> ELSE <<>>)])

\* wc: counts of a text, the total, and the least width that holds them all.
CountsOf(t) ==
   LET lens == {0} \cup {Cardinality({j \in DOMAIN LinesOf(t)[k] : LinesOf(t)[k][j] # NL})
                           : k \in DOMAIN LinesOf(t)}
   IN << Cardinality({i \in DOMAIN t : t[i] = NL}),
         Cardinality({i \in DOMAIN t : t[i] = LETTER /\ (i = 1 \/ t[i - 1] # LETTER)}),
         Len(t), Len(t), CHOOSE m \in lens : \A l \in lens : l <= m >>

WcOf ==
   LET shown == SelectSeq([i \in DOMAIN Operands |-> i], LAMBDA i : Readable(i))
       row(k) == [name |-> IF prog.operands = <<>> THEN 9 ELSE shown[k], count |-> CountsOf(TextOf(shown[k]))]
       rows == [k \in DOMAIN shown |-> row(k)]
       printed == rows \o (IF Len(rows) > 1 THEN <<Total(rows)>> ELSE <<>>)
       fits(w) == \A k \in DOMAIN printed : \A j \in DOMAIN Columns(printed[k]) :
                     Columns(printed[k])[j] < Radix^w
       width == CHOOSE w \in 1..9 : fits(w) /\ \A v \in 1..(w - 1) : ~fits(v)
   IN <<Width(width)>> \o Joined([k \in DOMAIN printed |->
                                    Append(Columns(printed[k]), Row(printed[k].name))])

\* However its input is cut into reads, a command prints what its options ask
\* for: the first or last lines or bytes, all lines numbered and squeezed, or
\* the counts in columns that hold every number.
OutputAsAsked ==
   pc = "exit" /\ errors = 0 /\ (ReadsAll \/ prog.operands # <<Stdin, Stdin>>) =>
      out = CASE prog.cmd = "cat" -> CatOf
              [] prog.cmd = "wc" -> WcOf
              [] OTHER -> Parts

\* A command fails exactly when an operand could not be opened or read.
StatusTellsFailure ==
   pc = "exit" => (fail <=> errors > 0 \/ \E i \in DOMAIN Operands : ~Readable(i))
=============================================================================
