------------------------------ MODULE AmlValue ------------------------------
(***************************************************************************)
(* The data operations of the AML interpreter: conversions between         *)
(* integers, strings and buffers (exconvrt.c, utstrtoul64.c, utstrsuppt.c, *)
(* uthex.c), arithmetic and comparisons (exmisc.c, utmath.c, the one-,     *)
(* two-, three- and six-operand opcodes) and concatenation (exconcat.c).   *)
(* A value is [type, val]: a number below 2^64 for an integer, a sequence  *)
(* of byte values for a string (its terminator left out) or a buffer.      *)
(* UINT64 is WordBytes wide and an AML integer IntegerBytes wide: 8 and    *)
(* 4 or 8 in the program, smaller here.                                    *)
(***************************************************************************)
EXTENDS Integers, Sequences, SequencesExt, Bitwise, Binding

CONSTANTS WordBytes,       \* sizeof (UINT64)
          IntegerBytes     \* AcpiGbl_IntegerByteWidth

ASSUME WidthAssumption ==
    /\ IntegerBytes \in Nat \ {0}
    /\ WordBytes \in Nat
    /\ IntegerBytes <= WordBytes

Num(n) == [type |-> "INTEGER", val |-> n]
Text(s) == [type |-> "STRING", val |-> s]
Data(b) == [type |-> "BUFFER", val |-> b]
Fail(status) == [type |-> "ERROR", val |-> status]

Failed(v) == v.type = "ERROR"

WordBits == 8 * WordBytes
IntegerBits == 8 * IntegerBytes
WordMax == 2 ^ WordBits - 1
IntegerMax == 2 ^ IntegerBits - 1

(***************************************************************************)
(* utmath.c.  A product is formed a byte at a time so that TLC's integers  *)
(* hold the partial products.                                              *)
(***************************************************************************)
ShortMultiply(a, b) ==
    LET Low == (a * (b % 256)) % (WordMax + 1)
        High == (((a % 256) * ((b \div 256) % 256)) % (WordMax + 1)) * 256
    IN IF WordBytes = 1 THEN Low ELSE (Low + High) % (WordMax + 1)

ShortShiftLeft(a, n) == ShortMultiply(a % 2 ^ (WordBits - n), 2 ^ n)
ShortShiftRight(a, n) == a \div 2 ^ n

\* AcpiUtDivide: quotient and remainder, or the divide-by-zero status.
Divide(a, b) ==
    IF b = 0 THEN [status |-> "DIVIDE_BY_ZERO", quotient |-> 0, remainder |-> 0]
             ELSE [status |-> "OK", quotient |-> a \div b, remainder |-> a % b]

\* AcpiExTruncateFor32bitTable
TruncateFor32bitTable(v) ==
    IF v.type = "INTEGER" THEN Num(v.val % (IntegerMax + 1)) ELSE v

\* acpi_memcpy of an integer's low bytes.
IntegerBytesOf(n, count) == [i \in 1..count |-> (n \div 2 ^ (8 * (i - 1))) % 256]

(***************************************************************************)
(* Characters and strings to numbers.                                      *)
(***************************************************************************)
ZERO == 48
SPACE == 32
COMMA == 44
LOWER_X == 120

IsDigit(c) == c \in 48..57
IsHexDigit(c) == IsDigit(c) \/ c \in 65..70 \/ c \in 97..102
IsSpace(c) == c = SPACE \/ c \in 9..13

\* AcpiUtAsciiCharToHex and AcpiUtHexToAsciiChar
AsciiCharToHex(c) == IF c <= 57 THEN c - 48 ELSE IF c <= 70 THEN c - 55 ELSE c - 87

HexToAsciiChar(n, position) ==
    LET d == (n \div 2 ^ position) % 16 IN IF d < 10 THEN ZERO + d ELSE 55 + d

\* The C string in a string object's bytes: they stop at the first NUL.
CString(s) ==
    IF \E i \in DOMAIN s : s[i] = 0
    THEN SubSeq(s, 1, (CHOOSE i \in DOMAIN s : s[i] = 0 /\ \A j \in 1..(i - 1) : s[j] # 0) - 1)
    ELSE s

RECURSIVE DropWhile(_, _)
DropWhile(s, chars) ==
    IF s # <<>> /\ Head(s) \in chars THEN DropWhile(Tail(s), chars) ELSE s

RemoveWhitespace(s) == DropWhile(s, {SPACE} \cup 9..13)
RemoveLeadingZeros(s) == DropWhile(s, {ZERO})

DetectHexPrefix(s) == Len(s) >= 2 /\ s[1] = ZERO /\ s[2] \in {LOWER_X, 88}
RemoveHexPrefix(s) == IF DetectHexPrefix(s) THEN SubSeq(s, 3, Len(s)) ELSE s
DetectOctalPrefix(s) == s # <<>> /\ s[1] = ZERO

(***************************************************************************)
(* AcpiUtInsertDigit: -1 stands for an overflow, of the word or of an      *)
(* integer of limit bits.                                                  *)
(***************************************************************************)
InsertDigit(acc, base, c, limit) ==
    LET product == acc * base
        sum == product + AsciiCharToHex(c)
    IN IF acc > WordMax \div base \/ product > 2 ^ limit - 1
          \/ sum > WordMax \/ sum > 2 ^ limit - 1
       THEN -1 ELSE sum

(***************************************************************************)
(* AcpiUtConvertOctalString, ...DecimalString and ...HexString: digits up  *)
(* to the first character that is none, or that would overflow; the value  *)
(* so far is returned in every case.                                       *)
(***************************************************************************)
ConvertDigits(s, base, limit) ==
    LET Valid(c) == CASE base = 8 -> c \in 48..55
                      [] base = 10 -> IsDigit(c)
                      [] base = 16 -> IsHexDigit(c)
        RECURSIVE From(_, _)
        From(i, acc) ==
            IF i > Len(s) THEN [status |-> "OK", value |-> acc]
            ELSE IF ~Valid(s[i]) THEN [status |-> "BAD_CONSTANT", value |-> acc]
            ELSE LET next == InsertDigit(acc, base, s[i], limit)
                 IN IF next = -1 THEN [status |-> "OVERFLOW", value |-> acc]
                    ELSE From(i + 1, next)
    IN From(1, 0)

\* AcpiUtStrtoul64: the width of integers is the word's for its duration.
Strtoul64(s) ==
    LET text == RemoveWhitespace(s)
        base == IF DetectHexPrefix(text) THEN 16 ELSE IF DetectOctalPrefix(text) THEN 8 ELSE 10
        digits == RemoveLeadingZeros(RemoveHexPrefix(text))
    IN ConvertDigits(digits, base, WordBits)

\* AcpiUtImplicitStrtoul64
ImplicitStrtoul64(s) ==
    ConvertDigits(RemoveLeadingZeros(RemoveHexPrefix(RemoveWhitespace(s))), 16, IntegerBits).value

\* AcpiUtExplicitStrtoul64
ExplicitStrtoul64(s) ==
    LET text == RemoveWhitespace(s)
    IN ConvertDigits(RemoveLeadingZeros(RemoveHexPrefix(text)),
                     IF DetectHexPrefix(text) THEN 16 ELSE 10, IntegerBits).value

(***************************************************************************)
(* exconvrt.c                                                              *)
(***************************************************************************)
RECURSIVE LittleEndianValue(_)
LittleEndianValue(bytes) ==
    IF bytes = <<>> THEN 0 ELSE Head(bytes) + 256 * LittleEndianValue(Tail(bytes))

ConvertToInteger(v, implicit) ==
    CASE v.type = "INTEGER" -> v
      [] v.type = "STRING" ->
            TruncateFor32bitTable(Num(IF implicit THEN ImplicitStrtoul64(CString(v.val))
                                                  ELSE ExplicitStrtoul64(CString(v.val))))
      [] v.type = "BUFFER" /\ v.val = <<>> -> Fail("BUFFER_LIMIT")
      [] v.type = "BUFFER" /\ v.val # <<>> ->
            TruncateFor32bitTable(Num(LittleEndianValue(
                SubSeq(v.val, 1, IF Len(v.val) > IntegerBytes THEN IntegerBytes ELSE Len(v.val)))))
      [] OTHER -> Fail("TYPE")

ConvertToBuffer(v) ==
    CASE v.type = "BUFFER" -> v
      [] v.type = "INTEGER" -> Data(IntegerBytesOf(v.val, IntegerBytes))
      [] v.type = "STRING" -> Data(Append(v.val, 0))
      [] OTHER -> Fail("TYPE")

\* ACPI_MAX8/32/64_DECIMAL_DIGITS: the digits of the largest number of that width.
DecimalDigits(bytes) == CHOOSE d \in 1..20 : 10 ^ (d - 1) <= 2 ^ (8 * bytes) - 1
                                             /\ 10 ^ d > 2 ^ (8 * bytes) - 1

\* The suffix that is left when leading zeros are suppressed.
Suppressed(digits, leadingZeros) ==
    IF leadingZeros THEN digits ELSE DropWhile(digits, {ZERO})

(***************************************************************************)
(* AcpiExConvertToAscii: the digits of a number of dataWidth bytes in base *)
(* 10 or 16; "0" when all of them were suppressed.                         *)
(***************************************************************************)

ConvertToAscii(n, base, dataWidth, leadingZeros) ==
    LET d == DecimalDigits(dataWidth)
        digits == IF base = 10
                  THEN [i \in 1..d |-> ZERO + ((n \div 10 ^ (d - i)) % 10)]
                  ELSE [i \in 1..(2 * dataWidth) |-> HexToAsciiChar(n, 4 * (2 * dataWidth - i))]
        kept == Suppressed(digits, leadingZeros)
    IN IF kept = <<>> THEN <<ZERO>> ELSE kept

HexPrefix == <<ZERO, LOWER_X>>

(***************************************************************************)
(* AcpiExConvertToString: kind is DECIMAL, HEX (explicit) or IMPLICIT.     *)
(* StringAllocation is the length it allocates the string object with.     *)
(***************************************************************************)
StringAllocation(v, kind) ==
    IF v.type = "INTEGER"
    THEN CASE kind = "DECIMAL" -> DecimalDigits(WordBytes)
           [] kind = "HEX" -> 2 * IntegerBytes + 2
           [] kind = "IMPLICIT" -> 2 * IntegerBytes
    ELSE LET Digits(b) == IF b >= 100 THEN 4 ELSE IF b >= 10 THEN 3 ELSE 2
             length == IF kind = "DECIMAL" THEN FoldLeft(LAMBDA n, b : n + Digits(b), 0, v.val)
                                           ELSE 5 * Len(v.val)
         IN IF length > 0 THEN length - 1 ELSE 0

\* One buffer element's characters, with the separator that follows it.
ElementText(b, kind) ==
    LET separator == IF kind = "IMPLICIT" THEN SPACE ELSE COMMA
    IN IF kind = "DECIMAL" THEN Append(ConvertToAscii(b, 10, 1, FALSE), separator)
       ELSE Append(HexPrefix \o ConvertToAscii(b, 16, 1, TRUE), separator)

\* What is written to the new object's memory before the terminator: the
\* terminator overwrites a buffer's last separator.
StringText(v, kind) ==
    IF v.type = "INTEGER"
    THEN CASE kind = "DECIMAL" -> ConvertToAscii(v.val, 10, IntegerBytes, FALSE)
           [] kind = "HEX" -> HexPrefix \o ConvertToAscii(v.val, 16, IntegerBytes, FALSE)
           [] kind = "IMPLICIT" -> ConvertToAscii(v.val, 16, IntegerBytes, TRUE)
    ELSE With(FlattenSeq([i \in DOMAIN v.val |-> ElementText(v.val[i], kind)]), LAMBDA all :
            IF all = <<>> THEN all ELSE Front(all))

\* A buffer's string keeps the allocated length, an integer's is set to the text's.
ConvertToString(v, kind) ==
    CASE v.type = "STRING" -> v
      [] v.type = "INTEGER" -> Text(StringText(v, kind))
      [] v.type = "BUFFER" ->
            With(StringText(v, kind), LAMBDA text :
            With(StringAllocation(v, kind), LAMBDA length :
               Text(IF Len(text) >= length THEN SubSeq(text, 1, length)
                   ELSE text \o [i \in 1..(length - Len(text)) |-> 0])))
      [] OTHER -> Fail("TYPE")

(***************************************************************************)
(* AcpiExConvertToTargetType: what a store to an object of type dest puts  *)
(* there, argument being the runtime type of the operator's target.        *)
(***************************************************************************)
ConvertToTargetType(dest, v, argument) ==
    LET Result(r) == IF Failed(r) /\ r.val = "TYPE" THEN v ELSE r
    IN CASE argument \in {"SIMPLE_TARGET", "FIXED_TARGET", "INTEGER_REF",
                          "REFERENCE"} -> v
         [] argument \in {"TARGETREF", "STORE_TARGET"} ->
              (CASE dest \in {"INTEGER", "BUFFER_FIELD"} -> Result(ConvertToInteger(v, TRUE))
                 [] dest = "STRING" -> Result(ConvertToString(v, "IMPLICIT"))
                 [] dest = "BUFFER" -> Result(ConvertToBuffer(v))
                 [] OTHER -> Fail("INTERNAL"))
         [] OTHER -> Fail("INTERNAL")

(***************************************************************************)
(* exmisc.c and the opcodes that need no target.                           *)
(***************************************************************************)
Complement(n) == WordMax - n

\* AcpiExDoMathOp
DoMathOp(opcode, a, b) ==
    CASE opcode = "Add" -> (a + b) % (WordMax + 1)
      [] opcode = "Subtract" -> (a - b) % (WordMax + 1)
      [] opcode = "Multiply" -> ShortMultiply(a, b)
      [] opcode = "And" -> a & b
      [] opcode = "NAnd" -> Complement(a & b)
      [] opcode = "Or" -> a | b
      [] opcode = "NOr" -> Complement(a | b)
      [] opcode = "XOr" -> a ^^ b
      [] opcode = "ShiftLeft" -> IF b >= IntegerBits THEN 0 ELSE ShortShiftLeft(a, b)
      [] opcode = "ShiftRight" -> IF b >= IntegerBits THEN 0 ELSE ShortShiftRight(a, b)
      [] OTHER -> 0

\* AcpiExDoLogicalNumericOp
DoLogicalNumericOp(opcode, a, b) ==
    CASE opcode = "LAnd" -> a # 0 /\ b # 0
      [] opcode = "LOr" -> a # 0 \/ b # 0

\* acpi_memcmp over the shorter length: -1, 0 or 1.
MemCompare(s, t) ==
    LET n == IF Len(s) > Len(t) THEN Len(t) ELSE Len(s)
        differ == {i \in 1..n : s[i] # t[i]}
    IN IF differ = {} THEN 0
       ELSE LET i == CHOOSE i \in differ : \A j \in differ : i <= j
            IN IF s[i] > t[i] THEN 1 ELSE -1

LogicalLess(a, b) == MemCompare(a, b) < 0 \/ (MemCompare(a, b) = 0 /\ Len(a) < Len(b))
LogicalGreater(a, b) == MemCompare(a, b) > 0 \/ (MemCompare(a, b) = 0 /\ Len(a) > Len(b))

\* AcpiExDoLogicalOp: the second operand is converted to the first's type.
DoLogicalOp(opcode, v1, v2) ==
    With(CASE v1.type = "INTEGER" -> ConvertToInteger(v2, TRUE)
           [] v1.type = "STRING" -> ConvertToString(v2, "IMPLICIT")
           [] v1.type = "BUFFER" -> ConvertToBuffer(v2)
           [] OTHER -> Fail("INTERNAL"), LAMBDA v :
       IF Failed(v) THEN [status |-> v.val, result |-> FALSE]
       ELSE [status |-> "OK",
             result |-> IF v1.type = "INTEGER"
                        THEN CASE opcode = "LEqual" -> v1.val = v.val
                               [] opcode = "LGreater" -> v1.val > v.val
                               [] opcode = "LLess" -> v1.val < v.val
                        ELSE CASE opcode = "LEqual" -> v1.val = v.val
                               [] opcode = "LGreater" -> LogicalGreater(v1.val, v.val)
                               [] opcode = "LLess" -> LogicalLess(v1.val, v.val)])

Truth(b) == Num(IF b THEN WordMax ELSE 0)

\* FindSetLeftBit and FindSetRightBit (AcpiExOpcode_1A_1T_1R)
FindSetLeftBit(n) ==
    IF n = 0 THEN 0 ELSE CHOOSE k \in 1..WordBits : n \div 2 ^ (k - 1) = 1

FindSetRightBit(n) ==
    IF n = 0 THEN 0
    ELSE LET shifts == CHOOSE k \in 1..WordBits :
                         /\ n % 2 ^ (WordBits - k) = 0
                         /\ \A j \in 1..(k - 1) : n % 2 ^ (WordBits - j) # 0
         IN (WordBits + 1) - shifts

\* FromBCD and ToBCD: a digit above 9, or one digit too many, is an overflow.
FromBCD(n) ==
    LET digits == [i \in 1..(2 * IntegerBytes) |-> (n \div 16 ^ (i - 1)) % 16]
    IN IF \E i \in DOMAIN digits : digits[i] > 9 THEN Fail("NUMERIC_OVERFLOW")
       ELSE Num(FoldRight(LAMBDA d, acc : d + 10 * acc, digits, 0))

ToBCD(n) ==
    IF n \div 10 ^ (2 * IntegerBytes) > 0 THEN Fail("NUMERIC_OVERFLOW")
    ELSE Num(FoldRight(LAMBDA d, acc : d + 16 * acc,
                       [i \in 1..(2 * IntegerBytes) |-> (n \div 10 ^ (i - 1)) % 10], 0))

\* ToString (AcpiExOpcode_2A_1T_1R): up to the length, the end or the first NUL.
ToStringOp(buffer, length) ==
    Text(CString(SubSeq(buffer, 1, IF length > Len(buffer) THEN Len(buffer) ELSE length)))

(***************************************************************************)
(* Mid (AcpiExOpcode_3A_1T_1R).  Index + Length is a sum of words.         *)
(***************************************************************************)
Mid(v, index, length) ==
    LET size == Len(v.val)
        taken == IF index >= size THEN 0
                 ELSE IF (index + length) % (WordMax + 1) > size THEN size - index
                 ELSE length
    IN [v EXCEPT !.val = SubSeq(v.val, index + 1, index + taken)]

(***************************************************************************)
(* exconcat.c                                                              *)
(***************************************************************************)
\* acpi_strcpy and acpi_strcat into an object allocated with both lengths.
JoinedStrings(s, t) ==
    LET text == CString(s) \o CString(t)
    IN text \o [i \in 1..(Len(s) + Len(t) - Len(text)) |-> 0]

DoConcatenate(v1, v2) ==
    With(CASE v1.type = "INTEGER" -> ConvertToInteger(v2, TRUE)
           [] v1.type = "BUFFER" -> ConvertToBuffer(v2)
           [] v1.type = "STRING" -> ConvertToString(v2, "IMPLICIT"), LAMBDA v :
       CASE Failed(v) -> v
         [] ~Failed(v) /\ v1.type = "INTEGER" ->
              Data(IntegerBytesOf(v1.val, IntegerBytes) \o IntegerBytesOf(v.val, IntegerBytes))
         [] ~Failed(v) /\ v1.type = "STRING" -> Text(JoinedStrings(v1.val, v.val))
         [] ~Failed(v) /\ v1.type = "BUFFER" -> Data(v1.val \o v.val))

(***************************************************************************)
(* exoparg6.c: AcpiExDoMatch and the search of the Match operator, over a  *)
(* sequence of values ("NULL" elements are skipped).  A pair of operators  *)
(* above MGT is refused, as is a start past the end.                       *)
(***************************************************************************)
MatchOperators == <<"MTR", "MEQ", "MLE", "MLT", "MGE", "MGT">>

\* The comparison of the value with the element that decides each operator;
\* MLE and MGE ask for its negation.
MatchTest == [MEQ |-> "LEqual", MLE |-> "LLess", MLT |-> "LGreater", MGE |-> "LGreater", MGT |-> "LLess"]

\* Mutant: the operands are compared in the order the table names them.
DoMatchSwapped(op, element, v) ==
    op = "MTR" \/ With(DoLogicalOp(MatchTest[op], element, v), LAMBDA r :
                      IF op \in {"MLE", "MGE"} THEN r.status = "OK" /\ ~r.result ELSE r.result)

DoMatch(op, element, v) ==
    op = "MTR" \/ With(DoLogicalOp(MatchTest[op], v, element), LAMBDA r :
                      IF op \in {"MLE", "MGE"} THEN r.status = "OK" /\ ~r.result ELSE r.result)

MatchOp(elements, op1, v1, op2, v2, start) ==
    IF op1 > 5 \/ op2 > 5 THEN Fail("OPERAND_VALUE")
    ELSE IF start >= Len(elements) THEN Fail("PACKAGE_LIMIT")
    ELSE With({i \in (start + 1)..Len(elements) :
                 /\ elements[i].type # "NULL"
                 /\ \A k \in 1..2 : DoMatch(MatchOperators[<<op1, op2>>[k] + 1], elements[i], <<v1, v2>>[k])},
              LAMBDA hits : Num(IF hits = {} THEN WordMax
                                ELSE (CHOOSE i \in hits : \A j \in hits : i <= j) - 1))

(***************************************************************************)
(* exutils.c: the decimal digits of a number (AcpiExIntegerToString), and  *)
(* the string for a compressed EISA id given as its four bytes.            *)
(***************************************************************************)
RECURSIVE DigitsNeeded(_, _)
DigitsNeeded(n, base) == IF n < base THEN 1 ELSE 1 + DigitsNeeded(n \div base, base)

IntegerToString(n) ==
    LET d == DigitsNeeded(n, 10)
    IN [i \in 1..d |-> ZERO + ((n \div 10 ^ (d - i)) % 10)]

=============================================================================
