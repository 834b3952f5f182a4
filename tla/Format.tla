------------------------------- MODULE Format -------------------------------
(***************************************************************************)
(* The C library's formatted output and input: vsnprintf of libc/stdio.c,  *)
(* vformat_scan of libc/scanf.c and the conversions of libc/stdlib.c.      *)
(*                                                                         *)
(* A format is a sequence of directives: a literal character, white space  *)
(* or a conversion [conv, zero, left, width, size].  A text is a sequence  *)
(* of character codes.  An int has IntBits bits and a long LongBits; %%    *)
(* and an unknown directive print as literals.                             *)
(***************************************************************************)
EXTENDS Integers, Sequences, SequencesExt, TLC

CONSTANTS IntBits, LongBits, TokSize, StrSize, PrintSize  \* 32, 64, char tok[64], char tmp[256], char buf[512]

MINUS == 45
PLUS == 43
SP == 32
ZERO == 48
Xs == {88, 120}
IsSpace(c) == c \in {9, 10, 11, 12, 13, 32}
Digit(d, upper) == IF d < 10 THEN ZERO + d ELSE (IF upper THEN 55 ELSE 87) + d
DigitVal(c) == CASE c \in 48..57 -> c - 48
                 [] c \in 97..122 -> c - 87
                 [] c \in 65..90 -> c - 55
                 [] OTHER -> 99

Signed(v, bits) == LET m == v % 2^bits IN IF m >= 2^(bits - 1) THEN m - 2^bits ELSE m
Unsigned(v, bits) == v % 2^bits

----------------------------------------------------------------------------
(* stdio.c *)

Pad(c, n) == [i \in 1..(IF n > 0 THEN n ELSE 0) |-> c]

RECURSIVE Digits(_, _, _)
Digits(v, base, upper) ==
   IF v < base THEN <<Digit(v, upper)>>
   ELSE Append(Digits(v \div base, base, upper), Digit(v % base, upper))

\* Mutant: zeroes fill a field on the left as well.
out_uint_filled(v, base, upper, width, zero, left) ==
   LET t == Digits(v, base, upper)
   IN IF left THEN t \o Pad(ZERO, width - Len(t))
      ELSE Pad(IF zero THEN ZERO ELSE SP, width - Len(t)) \o t

\* A field on the left is filled with blanks whatever the flags say.
out_uint(v, base, upper, width, zero, left) ==
   LET t == Digits(v, base, upper)
   IN IF left THEN t \o Pad(SP, width - Len(t))
      ELSE Pad(IF zero THEN ZERO ELSE SP, width - Len(t)) \o t

\* The sign comes first, and what fills the field behind it.
out_int(v, width, zero, left) ==
   IF v < 0 THEN <<MINUS>> \o out_uint(-v, 10, FALSE, IF width > 0 THEN width - 1 ELSE 0, zero, left)
   ELSE out_uint(v, 10, FALSE, width, zero, left)

out_str(s, width, left) ==
   IF left THEN s \o Pad(SP, width - Len(s)) ELSE Pad(SP, width - Len(s)) \o s

Bits(d) == IF d.size \in {"l", "ll", "z"} THEN LongBits ELSE IntBits

\* One directive with its argument.
Printed(d, arg) ==
   LET zero == d.zero /\ ~d.left
   IN CASE d.conv = "lit" -> <<d.char>>
        [] d.conv = "d" -> out_int(Signed(arg, Bits(d)), d.width, zero, d.left)
        [] d.conv = "u" -> out_uint(Unsigned(arg, Bits(d)), 10, FALSE, d.width, zero, d.left)
        [] d.conv \in {"x", "X"} ->
              out_uint(Unsigned(arg, Bits(d)), 16, d.conv = "X", d.width, zero, d.left)
        [] d.conv = "p" -> <<ZERO, 120>> \o out_uint(arg, 16, FALSE, LongBits \div 4, TRUE, FALSE)
        [] d.conv = "c" -> <<arg>>
        [] d.conv = "s" -> out_str(arg, d.width, d.left)

\* What vsnprintf returns is the length of the whole text; what it stores is
\* cut to size - 1 characters and a NUL.
vsnprintf(size, fmt, args) ==
   LET text == FlattenSeq([i \in DOMAIN fmt |-> Printed(fmt[i], args[i])])
       kept == IF Len(text) < size THEN Len(text) ELSE size - 1
   IN [ret |-> Len(text), buf |-> IF size = 0 THEN <<>> ELSE Append(SubSeq(text, 1, kept), 0)]

----------------------------------------------------------------------------
(* stdlib.c *)

\* parse_ull: [val, neg]; digits are taken as long as the base has them.
parse_ull(s, base0) ==
   LET RECURSIVE Skip(_), Take(_, _, _)
       Skip(t) == IF t # <<>> /\ IsSpace(t[1]) THEN Skip(Tail(t)) ELSE t
       Take(t, base, v) == IF t # <<>> /\ DigitVal(t[1]) < base
                           THEN Take(Tail(t), base, (v * base + DigitVal(t[1])) % 2^LongBits) ELSE v
       a == Skip(s)
       neg == a # <<>> /\ a[1] = MINUS
       b == IF a # <<>> /\ a[1] \in {MINUS, PLUS} THEN Tail(a) ELSE a
       hex == Len(b) >= 2 /\ b[1] = ZERO /\ b[2] \in Xs
       base == IF base0 # 0 THEN base0
               ELSE IF hex THEN 16 ELSE IF b # <<>> /\ b[1] = ZERO THEN 8 ELSE 10
   IN [neg |-> neg, val |-> Take(IF base = 16 /\ hex THEN SubSeq(b, 3, Len(b)) ELSE b, base, 0)]

strtol(s, base) == LET r == parse_ull(s, base) IN Signed(IF r.neg THEN -r.val ELSE r.val, LongBits)
strtoul(s, base) == LET r == parse_ull(s, base) IN Unsigned(IF r.neg THEN -r.val ELSE r.val, LongBits)
atoi(s) == Signed(strtol(s, 10), IntBits)
atol(s) == strtol(s, 10)

\* itoa and ltoa: a sign only in base 10; ultoa has none.
ToText(n, bits, base) ==
   IF n < 0 /\ base = 10 THEN <<MINUS>> \o Digits(-n, base, FALSE)
   ELSE Digits(Unsigned(n, bits), base, FALSE)
itoa(n, base) == ToText(n, IntBits, base)
ltoa(n, base) == ToText(n, LongBits, base)
ultoa(n, base) == Digits(n, base, FALSE)

----------------------------------------------------------------------------
(* scanf.c: a source is the text that is left *)

matches_digit(conv, c) ==
   CASE conv = "x" -> DigitVal(c) < 16
     [] conv = "i" -> DigitVal(c) < 36
     [] OTHER -> c \in 48..57

RECURSIVE SkipSpace(_)
SkipSpace(t) == IF t # <<>> /\ IsSpace(t[1]) THEN SkipSpace(Tail(t)) ELSE t

\* The token of a number: sign, prefix and digits, cut to the field's width.
Token(conv, width, t0) ==
   LET at(t, S) == t # <<>> /\ t[1] \in S
       sign == IF at(t0, {PLUS, MINUS}) THEN 1 ELSE 0
       t1 == SubSeq(t0, sign + 1, Len(t0))
       zero == IF conv \in {"x", "i"} /\ at(t1, {ZERO}) THEN 1 ELSE 0
       t2 == SubSeq(t1, zero + 1, Len(t1))
       pre == sign + zero + (IF zero = 1 /\ at(t2, Xs) THEN 1 ELSE 0)
       max == IF width > 0 /\ width < TokSize - 1 THEN width ELSE TokSize - 1
       RECURSIVE Go(_)
       Go(n) == IF n < max /\ n < Len(t0) /\ matches_digit(conv, t0[n + 1]) THEN Go(n + 1) ELSE n
   IN SubSeq(t0, 1, IF pre < max THEN Go(pre) ELSE pre)

Base(conv) == CASE conv = "x" -> 16 [] conv = "o" -> 8 [] conv = "i" -> 0 [] OTHER -> 10

StoreBits(d) == CASE d.size = "hh" -> IntBits \div 4
                  [] d.size = "h" -> IntBits \div 2
                  [] d.size \in {"l", "ll"} -> LongBits
                  [] OTHER -> IntBits

Number(d, tok) ==
   IF d.conv \in {"d", "i"} THEN Signed(strtol(tok, Base(d.conv)), StoreBits(d))
   ELSE Unsigned(strtoul(tok, Base(d.conv)), StoreBits(d))

Word(width, t) ==
   LET max == IF width > 0 /\ width < StrSize - 1 THEN width ELSE StrSize - 1
       RECURSIVE Go(_)
       Go(n) == IF n < max /\ n < Len(t) /\ ~IsSpace(t[n + 1]) THEN Go(n + 1) ELSE n
   IN SubSeq(t, 1, Go(0))

\* The values assigned and what is returned: -1 (EOF) when the text ends before
\* anything was read from it.
vformat_scan(text, fmt) ==
   LET RECURSIVE Go(_, _, _, _)
       Go(t, i, got, any) ==
          LET d == fmt[i]
              u == SkipSpace(t)
              w == IF d.width > 0 THEN d.width ELSE 1
              tok == Token(d.conv, d.width, u)
              word == Word(d.width, u)
              stop == [ret |-> Len(got), vals |-> got]
              end == IF any \/ got # <<>> THEN stop ELSE [ret |-> -1, vals |-> <<>>]
              next(v, rest, n) == Go(SubSeq(rest, n + 1, Len(rest)), i + 1,
                                     IF d.suppress THEN got ELSE Append(got, v), TRUE)
          IN IF i > Len(fmt) THEN stop
             ELSE CASE d.conv = "space" -> Go(u, i + 1, got, any \/ u # t)
                    [] d.conv = "lit" -> IF t = <<>> THEN end
                                         ELSE IF t[1] # d.char THEN stop
                                         ELSE Go(Tail(t), i + 1, got, TRUE)
                    [] d.conv = "c" -> IF Len(t) < w
                                       THEN IF any \/ t # <<>> \/ got # <<>> THEN stop ELSE end
                                       ELSE next(IF w = 1 THEN t[1] ELSE SubSeq(t, 1, w), t, w)
                    [] OTHER -> IF u = <<>> THEN end
                                ELSE IF d.conv = "s" THEN next(word, u, Len(word))
                                ELSE IF tok \in {<<>>, <<PLUS>>, <<MINUS>>} THEN stop
                                ELSE next(Number(d, tok), u, Len(tok))
   IN Go(text, 1, <<>>, FALSE)

-----------------------------------------------------------------------------
(***************************************************************************)
(* Two values printed into a buffer and read back.                         *)
(***************************************************************************)

VARIABLES job,   \* the directives, the values and the size of the buffer
          out,   \* what vsnprintf left
          back   \* what vsscanf read
vars == <<job, out, back>>

Dir(conv, zero, left, width, size) ==
   [conv |-> conv, zero |-> zero, left |-> left, width |-> width, size |-> size,
    char |-> 0, suppress |-> FALSE]
Lit(c) == [Dir("lit", FALSE, FALSE, 0, "") EXCEPT !.char = c]

Ints(bits) == {-2^(bits - 1), -10, -1, 0, 7, 10, 2^(bits - 1) - 1}
Words == {<<97>>, <<45, 102, 57>>}

\* A right-justified negative number filled with blanks has its sign before
\* them, and no scan reads that.
Values(d) == CASE d.conv = "d" -> {v \in Ints(Bits(d)) : v >= 0 \/ d.zero \/ d.left \/ d.width = 0}
               [] d.conv = "s" -> Words
               [] d.conv = "c" -> {97, 48}
               [] OTHER -> {Unsigned(v, IF d.conv = "p" THEN LongBits ELSE Bits(d)) : v \in Ints(LongBits)}

Numbers == {Dir(c, z, l, w, s) : c \in {"d", "u", "x", "X"}, z \in BOOLEAN, l \in BOOLEAN,
                                 w \in {0, 6}, s \in {"", "l"}}
Texts == {Dir("s", FALSE, TRUE, 4, ""), Dir("s", FALSE, FALSE, 4, ""),
          Dir("c", FALSE, FALSE, 0, ""), Dir("p", FALSE, FALSE, 0, "l")}
Firsts == {Dir("d", TRUE, FALSE, 4, "l"), Dir("x", FALSE, TRUE, 5, ""), Dir("s", FALSE, TRUE, 4, "")}

\* The directive that reads what d prints: %X and %p are read by %x, which
\* takes digits of both cases, and blanks stand before or after a field.
Scan(d) == [d EXCEPT !.width = 0, !.conv = IF @ \in {"X", "p"} THEN "x" ELSE @,
                     !.size = IF d.conv = "p" THEN "l" ELSE @]
Space == [Lit(SP) EXCEPT !.conv = "space"]

\* A word ends at a blank only.
Formats == {<<a, Lit(s), b>> : a \in Firsts, b \in Numbers \cup Texts, s \in {58, SP}}
Sound(f) == f[1].conv = "s" => f[2].char = SP
ScanFormat(f) == <<Scan(f[1]), Space, IF f[2].char = SP THEN Space ELSE f[2], Scan(f[3])>>

Init == /\ \E f \in {g \in Formats : Sound(g)}, n \in {1, 6, 32} :
              \E a \in Values(f[1]), b \in Values(f[3]) :
                 job = [fmt |-> f, args |-> <<a, 0, b>>, size |-> n]
        /\ out = [ret |-> -1, buf |-> <<>>]
        /\ back = [ret |-> -1, vals |-> <<>>]

Output == /\ out.ret = -1
          /\ out' = vsnprintf(job.size, job.fmt, job.args)
          /\ UNCHANGED <<job, back>>

Input == /\ out.ret >= 0 /\ back.ret = -1
         /\ out.ret < job.size
         /\ back' = vformat_scan(SubSeq(out.buf, 1, out.ret), ScanFormat(job.fmt))
         /\ UNCHANGED <<job, out>>

Next == Output \/ Input
Spec == Init /\ [][Next]_vars

\* What printf writes, scanf reads back: the values come back whole, a buffer
\* that is too small holds the beginning of the same text and a NUL, and the
\* length returned is that of the whole text.  A number turned into text
\* by itoa, ltoa or ultoa is the one atoi, atol or strtoul reads.
RoundTrip ==
   /\ back.ret # -1 => back.ret = 2 /\ back.vals = <<job.args[1], job.args[3]>>
   /\ LET v == job.args[3]
          d == job.fmt[3]
      IN CASE d.conv = "d" /\ d.size = "" -> atoi(itoa(v, 10)) = v
           [] d.conv = "d" /\ d.size = "l" -> atol(ltoa(v, 10)) = v
           [] d.conv = "u" -> strtoul(ultoa(v, 16), 16) = v
           [] OTHER -> TRUE
   /\ out.ret # -1 =>
        LET full == vsnprintf(64, job.fmt, job.args)
            n == Len(out.buf) - 1
        IN /\ full.ret = out.ret
           /\ Len(out.buf) <= job.size /\ out.buf[n + 1] = 0
           /\ n = out.ret \/ n = job.size - 1
           /\ SubSeq(out.buf, 1, n) = SubSeq(full.buf, 1, n)
=============================================================================
