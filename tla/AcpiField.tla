------------------------------ MODULE AcpiField -----------------------------
(***************************************************************************)
(* Field units of the ACPI interpreter: how a field list becomes field     *)
(* objects (dsfield.c, exprep.c, dsopcode.c) and how the bits of a field   *)
(* are moved to and from a region or a buffer in datums of the field's     *)
(* access width (exfldio.c, exfield.c, exserial.c).                        *)
(*                                                                         *)
(* A number, a buffer and a piece of memory are the set of the positions   *)
(* of their one bits, at their real widths.  Memory is `mem', the bytes of *)
(* a plain region or buffer, and a device with ports: byte 0 selects one   *)
(* of `cell', which the bytes after it show.                               *)
(***************************************************************************)
EXTENDS Integers, FiniteSets, SequencesExt, FiniteSetsExt, Binding

CONSTANTS
    FieldDecl,      \* Field, BankField and IndexField declarations of the AML
    BufferDecl,     \* CreateField and its kin
    FieldSource,    \* [bits, len]: what is stored: an integer or a buffer
    PlainImage,     \* what memory holds at the start
    BufferBytes,    \* length of the buffer that buffer fields are made in
    IntegerByteWidth,   \* AcpiGbl_IntegerByteWidth: 4 or 8
    MaxFieldNames,  \* bound: no declaration once this many names have an object
    MaxFieldOps     \* bound: loads and stores in a behaviour

ASSUME FieldAssumption ==
    /\ IntegerByteWidth \in {4, 8}
    /\ MaxFieldOps \in Nat /\ MaxFieldNames \in Nat /\ BufferBytes \in Nat

VARIABLES
    fobj,       \* the field object of each name that has one
    dev,        \* [mem, sel, cell]: memory and the device
    want,       \* dev as it has to be: the bits each store is defined to change
    moved,      \* the last load or store: [op, ok, name, val]
    fieldOps    \* loads and stores so far

fieldVars == <<fobj, dev, want, moved, fieldOps>>

-----------------------------------------------------------------------------
(* Bits *)

UINT64 == 0..63
Shl(v, n) == {b + n : b \in v} \cap UINT64
Shr(v, n) == {b - n : b \in {c \in v : c >= n}}
LowBits(n) == 0..(n - 1)
BytesAt(v, off, n) == Shr(v, 8 * off) \cap LowBits(8 * n)
PutBytes(v, off, n, d) ==
    (v \ (8 * off)..(8 * (off + n) - 1)) \cup {8 * off + b : b \in d \cap LowBits(8 * n)}
NumberOf(v) == MapThenSumSet(LAMBDA b : 2^b, v)
BitsOf(n) == {b \in 0..7 : (n \div 2^b) % 2 = 1}
CeilDiv(a, b) == (a + b - 1) \div b
MinOf(a, b) == IF a < b THEN a ELSE b

-----------------------------------------------------------------------------
(* What a region handler or the buffer's memory does: n bytes at offset o  *)

SelectedIndex(d) == (NumberOf(d.sel) % Len(d.cell)) + 1
Selected(d) == d.cell[SelectedIndex(d)]

Fetch(d, where, o, n) ==
    IF where = "plain" THEN BytesAt(d.mem, o, n)
    ELSE BytesAt(d.sel \cup {8 + b : b \in Selected(d)}, o, n)

FieldStore(d, where, o, n, v) ==
    IF where = "plain" THEN [d EXCEPT !.mem = PutBytes(@, o, n, v)]
    ELSE LET all == PutBytes(d.sel \cup {8 + b : b \in Selected(d)}, o, n, v)
         IN  [d EXCEPT !.sel = all \cap LowBits(8), !.cell[SelectedIndex(d)] = Shr(all, 8)]

IoResult(ok, d, v) == [ok |-> ok, dev |-> d, val |-> v]
ReadOp == "read"
WriteOp == "write"

\* AcpiExSetupRegion: the datum lies in the region.
SetupRegion(f, off) == f.base + off + f.width <= f.length

\* AcpiExAccessRegion.
RegionIo(d, f, off, v, op) ==
    IF ~SetupRegion(f, off) THEN IoResult(FALSE, d, {})
    ELSE IF op = ReadOp
         THEN IoResult(TRUE, d, Fetch(d, f.where, f.base + off, f.width))
         ELSE IoResult(TRUE, FieldStore(d, f.where, f.base + off, f.width, v), {})

\* A datum of a bank or an index field needs the registers, which are fields.
RECURSIVE FieldDatumIo(_, _, _, _, _)

\* AcpiExWriteWithUpdateRule: bits of the datum outside the field.
WriteWithUpdateRule(d, f, mask, v, off) ==
    LET outside == UINT64 \ mask
        cur == FieldDatumIo(d, f, off, {}, ReadOp)
    IN  CASE mask = UINT64 -> FieldDatumIo(d, f, off, v, WriteOp)
          [] mask # UINT64 /\ f.rule = "ones" -> FieldDatumIo(d, f, off, v \cup outside, WriteOp)
          [] mask # UINT64 /\ f.rule = "zeros" -> FieldDatumIo(d, f, off, v \cap mask, WriteOp)
          [] mask # UINT64 /\ f.rule = "preserve" /\ outside \cap LowBits(8 * f.width) = {} ->
                FieldDatumIo(d, f, off, v, WriteOp)
          [] OTHER -> IF cur.ok
                      THEN FieldDatumIo(cur.dev, f, off, v \cup (cur.val \cap outside), WriteOp)
                      ELSE cur

\* The width an access of more than eight bytes is cut down to.
Narrowed(f) == [f EXCEPT !.width = MinOf(@, 8)]

\* AcpiExExtractFromField: the field's bits, for a caller's buffer of n bytes.
\* The loop carries the merged datum, the buffer and the offset into it.
ExtractFromField(d, f0, n) ==
    LET bits0 == 8 * f0.width
        direct == FieldDatumIo(d, f0, 0, {}, ReadOp)
        f == Narrowed(f0)
        a == 8 * f.width
        datums == CeilDiv(f.len, a)
        fieldDatums == CeilDiv(f.len + f.start, a)
        first == FieldDatumIo(d, f, 0, {}, ReadOp)
        Copy(acc) == PutBytes(acc.buf, acc.off, MinOf(f.width, n - acc.off), acc.merged)
        Next1(acc, i) ==
            LET raw == FieldDatumIo(acc.dev, f, i * f.width, {}, ReadOp)
                merged == acc.merged \cup
                          (IF a - f.start < 64 THEN Shl(raw.val, a - f.start) ELSE {})
            IN  CASE ~acc.ok -> acc
                  [] acc.ok /\ ~raw.ok -> [acc EXCEPT !.ok = FALSE, !.dev = raw.dev]
                  [] acc.ok /\ raw.ok /\ i = datums ->
                        [acc EXCEPT !.merged = merged, !.dev = raw.dev]
                  [] OTHER -> [ok |-> TRUE, dev |-> raw.dev,
                               buf |-> Copy([acc EXCEPT !.merged = merged]),
                               off |-> acc.off + f.width, merged |-> Shr(raw.val, f.start)]
    IN
    With(FoldLeft(Next1, [ok |-> first.ok, dev |-> first.dev, buf |-> {}, off |-> 0,
                          merged |-> Shr(first.val, f.start)],
                  [i \in 1..(fieldDatums - 1) |-> i]), LAMBDA loop :
    LET tail == f.len % a
        last == IF tail = 0 THEN loop.merged ELSE loop.merged \cap LowBits(tail)
    IN  IF n < CeilDiv(f0.len, 8) THEN IoResult(FALSE, d, {})
        ELSE IF f0.start = 0 /\ f0.len = bits0
             THEN [direct EXCEPT !.val = IF n >= 8 THEN @ ELSE @ \cap LowBits(8 * n)]
             ELSE IoResult(loop.ok, loop.dev,
                           IF loop.ok THEN Copy([loop EXCEPT !.merged = last]) ELSE {}))

\* The bits of the field in its last datum.
TailMask(f, a, mask) ==
    LET tail == (f.len + f.start) % a
    IN  IF tail = 0 THEN mask ELSE mask \cap LowBits(tail)

\* AcpiExInsertIntoField: stores a buffer of n bytes, filled up with zeros when
\* it is shorter than the field.
InsertIntoField(d, f0, src, n0) ==
    LET n == IF n0 < CeilDiv(f0.len, 8) THEN CeilDiv(f0.len, 8) ELSE n0
        f == Narrowed(f0)
        a == 8 * f.width
        datums == CeilDiv(f.len, a)
        fieldDatums == CeilDiv(f.len + f.start, a)
        Load(raw, off) == PutBytes(raw, 0, MinOf(f.width, n - off), Shr(src, 8 * off))
        raw0 == Load({}, 0)
        Next1(acc, i) ==
            With(WriteWithUpdateRule(acc.dev, f, acc.mask, acc.merged \cap acc.mask,
                                     (i - 1) * f.width), LAMBDA w :
            LET spill == IF a - f.start < 64 THEN Shr(acc.raw, a - f.start) ELSE {}
                raw == Load(acc.raw, acc.off + f.width)
            IN  CASE ~acc.ok -> acc
                  [] acc.ok /\ ~w.ok -> [acc EXCEPT !.ok = FALSE, !.dev = w.dev]
                  [] acc.ok /\ w.ok /\ i = datums ->
                        [acc EXCEPT !.dev = w.dev, !.merged = spill, !.mask = LowBits(a)]
                  [] OTHER -> [ok |-> TRUE, dev |-> w.dev, raw |-> raw, off |-> acc.off + f.width,
                               merged |-> spill \cup Shl(raw, f.start), mask |-> LowBits(a)])
    IN
    With(FoldLeft(Next1, [ok |-> TRUE, dev |-> d, raw |-> raw0, off |-> 0,
                          merged |-> Shl(raw0, f.start),
                          mask |-> LowBits(a) \ LowBits(f.start)],
                  [i \in 1..(fieldDatums - 1) |-> i]), LAMBDA loop :
    With(TailMask(f, a, loop.mask), LAMBDA mask :
        IF ~loop.ok THEN IoResult(FALSE, loop.dev, {})
        ELSE WriteWithUpdateRule(loop.dev, f, mask, loop.merged \cap mask,
                                 (fieldDatums - 1) * f.width)))

\* AcpiExRegisterOverflow
RegisterOverflow(reg, value) == reg.len < 64 /\ value >= 2^reg.len

\* The write to a bank or index register that an access of a datum starts with.
\* Mutant: the register is taken to hold the value already.
SelectRegisterCached(d, f, value) == IoResult(TRUE, d, {})
SelectRegister(d, f, value) ==
    IF RegisterOverflow(f.select, f.value) THEN IoResult(FALSE, d, {})
    ELSE InsertIntoField(d, f.select, BitsOf(value), 4)

\* AcpiExFieldDatumIo: a bank field selects its bank first, an index field
\* writes the datum's index to one register and moves the datum through another.
FieldDatumIo(d, f, off, v, op) ==
    With(SelectRegister(d, f, f.value), LAMBDA bank :
    With(SelectRegister(d, f, off + f.value), LAMBDA index :
        CASE f.kind = "buffer" /\ op = ReadOp ->
                IoResult(TRUE, d, Fetch(d, f.where, f.base + off, f.width))
          [] f.kind = "buffer" /\ op = WriteOp ->
                IoResult(TRUE, FieldStore(d, f.where, f.base + off, f.width, v), {})
          [] f.kind = "region" -> RegionIo(d, f, off, v, op)
          [] f.kind = "bank" -> IF bank.ok THEN RegionIo(bank.dev, f, off, v, op) ELSE bank
          [] f.kind = "index" ->
                CASE ~index.ok -> index
                  [] index.ok /\ op = ReadOp -> ExtractFromField(index.dev, f.data, 8)
                  [] index.ok /\ op = WriteOp -> InsertIntoField(index.dev, f.data, v, 8)))

-----------------------------------------------------------------------------
(* Field objects *)

AccessWidth == [any |-> 1, byte |-> 1, word |-> 2, dword |-> 4, qword |-> 8, buffer |-> 1]

\* AcpiExDecodeFieldAccess and AcpiExPrepCommonFieldObject.
PrepCommonFieldObject(kind, access, rule, pos, len) ==
    LET width == AccessWidth[access]
        align == IF kind = "buffer" THEN 1 ELSE width
        base == ((pos \div 8) \div align) * align
    IN  [kind |-> kind, pos |-> pos, len |-> len, rule |-> rule, width |-> width,
         base |-> base, start |-> pos - 8 * base]

\* An Embedded Controller field wider than a byte is moved in one access.
EcWidth(info, width, len) ==
    IF info.kind = "region" /\ info.space = "EC" /\ len > 8 /\ CeilDiv(len, 8) < 256
    THEN CeilDiv(len, 8) ELSE width

\* AcpiExPrepFieldValue.  The declaration names the registers of a bank or an
\* index field; an index field's value is the index of its first datum.
PrepFieldValue(info, pos, len) ==
    LET f == PrepCommonFieldObject(info.kind, info.access, info.rule, pos, len)
    IN  [f EXCEPT !.width = EcWidth(info, @, len)] @@
        [where |-> info.where, length |-> info.length, select |-> info.select,
         data |-> info.data, buffer |-> FALSE,
         value |-> IF info.kind = "index" THEN ((pos \div 8) \div f.width) * f.width
                   ELSE info.value]

\* AcpiDsInitFieldObjects, AcpiDsGetFieldNames and AcpiDsEvalBankFieldOperands:
\* one element of a field list.  A name that has an object keeps it.
GetFieldName(acc, e) ==
    CASE ~acc.ok -> acc
      [] acc.ok /\ e.op = "reserved" -> [acc EXCEPT !.pos = @ + e.size]
      [] acc.ok /\ e.op = "access" -> [acc EXCEPT !.info.access = e.access]
      [] acc.ok /\ e.op = "named" /\ acc.info.access \notin DOMAIN AccessWidth ->
            [acc EXCEPT !.ok = FALSE]
      [] OTHER -> [acc EXCEPT !.objs = @ @@ (e.name :> PrepFieldValue(acc.info, acc.pos, e.size)),
                              !.pos = @ + e.size]

\* Declarations touch no memory: those of a behaviour come first.
Declaring == fieldOps = 0 /\ Cardinality(DOMAIN fobj) < MaxFieldNames

\* AcpiDsCreateField, AcpiDsCreateBankField and AcpiDsCreateIndexField.
CreateField(info) ==
    /\ Declaring
    /\ fobj' = FoldLeft(GetFieldName, [ok |-> TRUE, pos |-> 0, info |-> info, objs |-> fobj],
                        info.list).objs
    /\ UNCHANGED <<dev, want, moved, fieldOps>>

\* AcpiDsInitBufferField: bit position, size and access of each operator.
BufferFieldBits(op, offset, length) ==
    CASE op = "CreateField" -> <<offset, length, "byte">>
      [] op = "CreateBitField" -> <<offset, 1, "byte">>
      [] op = "CreateByteField" -> <<8 * offset, 8, "byte">>
      [] op = "CreateWordField" -> <<8 * offset, 16, "word">>
      [] op = "CreateDWordField" -> <<8 * offset, 32, "dword">>
      [] op = "CreateQWordField" -> <<8 * offset, 64, "qword">>

\* The rest of AcpiDsInitBufferField: the object, if the field lies in the
\* buffer.
InBuffer(at) == at[2] # 0 /\ at[1] + at[2] <= 8 * BufferBytes
InitBufferField(op, at) ==
    PrepCommonFieldObject("buffer", at[3], "preserve", at[1], at[2]) @@
    [where |-> "plain", length |-> BufferBytes, select |-> {}, data |-> {},
     buffer |-> op = "CreateField", value |-> 0]

\* AcpiDsCreateBufferField, AcpiDsEvalBufferFieldOperands: a field that does not
\* lie in the buffer is refused.
CreateBufferField(b) ==
    LET at == BufferFieldBits(b.op, b.offset, b.length)
    IN  /\ Declaring /\ b.name \notin DOMAIN fobj /\ InBuffer(at)
        /\ fobj' = fobj @@ (b.name :> InitBufferField(b.op, at))
        /\ UNCHANGED <<dev, want, moved, fieldOps>>

-----------------------------------------------------------------------------
(* What a load and a store are defined to do, bit by bit.  The datums of a *)
(* field are the naturally aligned accesses that cover it, lowest first;   *)
(* the first one that is not inside the region ends the operation.         *)

Datum(f, i) == (8 * (f.base + f.width * i))..(8 * (f.base + f.width * (i + 1)) - 1)
Datums(f) == 0..(CeilDiv(f.start + f.len, 8 * f.width) - 1)
FieldInside(f, i) == f.kind \in {"buffer", "index"} \/ \A b \in Datum(f, i) : b < 8 * f.length
FieldBits(f) == f.pos..(f.pos + f.len - 1)
Fits(f) == \A i \in Datums(f) : FieldInside(f, i)

\* The bits a field addresses: positions in memory, in the ports, or in the
\* cells one after the other.
Space(d, f) ==
    CASE f.kind = "index" ->
            UNION {{8 * (i - 1) + b : b \in d.cell[i] \cap LowBits(8)} : i \in 1..Len(d.cell)}
      [] f.kind = "bank" -> d.sel \cup {8 + b : b \in d.cell[f.value + 1]}
      [] OTHER -> IF f.where = "plain" THEN d.mem ELSE d.sel \cup {8 + b : b \in Selected(d)}

ReadValue(d, f) == Shr(Space(d, f) \cap FieldBits(f), f.pos)

\* The new value of the bits in a field's datums.
WrittenBits(d, f, src) ==
    LET bits == UNION {Datum(f, i) : i \in {j \in Datums(f) : FieldInside(f, j)}}
    IN  (Space(d, f) \ bits)
        \cup {b \in bits \cap FieldBits(f) : b - f.pos \in src.bits /\ b - f.pos < 8 * src.len}
        \cup {b \in bits \ FieldBits(f) :
                CASE f.rule = "ones" -> TRUE [] f.rule = "zeros" -> FALSE
                  [] f.rule = "preserve" -> b \in Space(d, f)}

Written(d, f, src) ==
    With(WrittenBits(d, f, src), LAMBDA new :
        CASE f.kind = "index" ->
                [d EXCEPT !.cell = [i \in 1..Len(@) |->
                    (@[i] \ LowBits(8)) \cup BytesAt(new, i - 1, 1)]]
          [] f.kind = "bank" -> [d EXCEPT !.cell[f.value + 1] = Shr(new, 8)]
          [] f.where = "plain" -> [d EXCEPT !.mem = new]
          [] OTHER -> [d EXCEPT !.sel = new \cap LowBits(8),
                                !.cell[SelectedIndex(d)] = Shr(new, 8)])

\* An access through a register may leave any value in it.
Reselected(w, f, d) ==
    IF f.kind \in {"bank", "index"}
    THEN [w EXCEPT !.sel = (@ \ FieldBits(f.select)) \cup (d.sel \cap FieldBits(f.select))]
    ELSE w

-----------------------------------------------------------------------------
(* Loads and stores *)

\* AcpiExReadDataFromField: an integer when the field fits in one.
ReadLength(f) ==
    IF CeilDiv(f.len, 8) > IntegerByteWidth \/ f.buffer THEN CeilDiv(f.len, 8)
    ELSE IntegerByteWidth

ReadField(n) ==
    LET f == fobj[n]
    IN
    With(ExtractFromField(dev, f, ReadLength(f)), LAMBDA r :
    LET direct == f.start = 0 /\ f.len = 8 * f.width
    IN  /\ fieldOps < MaxFieldOps /\ fieldOps' = fieldOps + 1
        /\ dev' = r.dev
        /\ want' = Reselected(want, f, r.dev)
        /\ fobj' = IF direct THEN fobj ELSE [fobj EXCEPT ![n] = Narrowed(f)]
        /\ moved' = [op |-> "load", ok |-> r.ok, name |-> n, val |-> r.val])

\* AcpiExWriteDataToField
WriteField(n, src) ==
    LET f == fobj[n]
    IN
    With(InsertIntoField(dev, f, src.bits, src.len), LAMBDA r :
        /\ fieldOps < MaxFieldOps /\ fieldOps' = fieldOps + 1
        /\ dev' = r.dev
        /\ want' = Reselected(Written(want, Narrowed(f), src), f, r.dev)
        /\ fobj' = [fobj EXCEPT ![n] = Narrowed(f)]
        /\ moved' = [op |-> "store", ok |-> r.ok, name |-> n, val |-> {}])

FieldInit ==
    /\ fobj = << >>
    /\ dev \in PlainImage /\ want = dev
    /\ moved = [op |-> "none", ok |-> TRUE, name |-> "", val |-> {}]
    /\ fieldOps = 0

FieldNext ==
    \/ \E info \in FieldDecl : CreateField(info)
    \/ \E b \in BufferDecl : CreateBufferField(b)
    \/ \E n \in DOMAIN fobj : ReadField(n)
    \/ \E n \in DOMAIN fobj, src \in FieldSource : WriteField(n, src)

-----------------------------------------------------------------------------
(* Properties *)

\* A store changes the bits of its field to the source's, the other bits of the
\* datums it covers as the update rule says, and nothing else: not the fields
\* beside it, not another bank and not the cells of another index, whatever the
\* access width, the offset in the first datum and the length of the source.
\* A store that runs over the end of its region has written the datums before it
\* (AcpiExInsertIntoField, AcpiExWriteWithUpdateRule).
StoresExactBits == dev = want

\* A load returns the bits of its field and zeros above them, and it fails only
\* when a datum of the field is not inside the region
\* (AcpiExExtractFromField, AcpiExReadDataFromField).
LoadsExactBits ==
    moved.op = "load" =>
        LET f == fobj[moved.name]
        IN  /\ moved.ok <=> Fits(f)
            /\ moved.ok => moved.val = ReadValue(dev, f)

-----------------------------------------------------------------------------
(* Field lists that mix widths, gaps and accesses, over memory whose length  *)
(* is and is not a multiple of the access, and a device with ports.          *)

Named(n, size) == [op |-> "named", name |-> n, size |-> size]
Gap(size) == [op |-> "reserved", size |-> size]
Switch(a) == [op |-> "access", access |-> a]

Mixed == <<Named("a", 3), Gap(2), Named("b", 9), Named("c", 33), Switch("word"),
           Named("d", 20), Switch("byte"), Named("e", 66)>>
Aligned == <<Named("a", 8), Named("b", 16), Gap(8), Named("c", 32), Named("d", 64)>>
EcList == <<Named("a", 8), Named("b", 24), Named("c", 12), Gap(4), Named("d", 72)>>

Plain(list, access, rule, length, space) ==
    [kind |-> "region", access |-> access, rule |-> rule, where |-> "plain", space |-> space,
     length |-> length, select |-> {}, data |-> {}, value |-> 0, list |-> list]

Ports == [Plain(<<Named("s", 2)>>, "byte", "preserve", 3, "io")
            EXCEPT !.where = "ports"]
Register(pos, len) == PrepFieldValue(Ports, pos, len)

Bank(n, v) == [Ports EXCEPT !.kind = "bank", !.select = Register(0, 2), !.value = v,
                         !.list = <<Gap(11), Named(n, 13)>>]
Indexed == [Ports EXCEPT !.kind = "index", !.select = Register(0, 2), !.data = Register(8, 8),
                         !.list = <<Gap(4), Named("x", 14)>>]

MCFieldDecl ==
    {Plain(Mixed, a, "preserve", l, "memory") : a \in {"byte", "qword"}, l \in {17, 24}}
    \cup {Plain(Mixed, a, r, 24, "memory") : a \in {"word", "qword"}, r \in {"ones", "zeros"}}
    \cup {Plain(Aligned, a, "preserve", 16, "memory") : a \in {"any", "qword"}}
    \cup {Plain(EcList, "byte", "preserve", 16, "EC"), Ports, Bank("u", 1), Bank("w", 3), Indexed}
MCBufferDecl ==
    {[name |-> "p", op |-> "CreateField", offset |-> 5, length |-> 17],
     [name |-> "p", op |-> "CreateBitField", offset |-> 31, length |-> 0],
     [name |-> "p", op |-> "CreateWordField", offset |-> 3, length |-> 0],
     [name |-> "p", op |-> "CreateQWordField", offset |-> 1, length |-> 0],
     [name |-> "p", op |-> "CreateDWordField", offset |-> 13, length |-> 0],
     [name |-> "p", op |-> "CreateByteField", offset |-> 15, length |-> 0]}
MCFieldSource ==
    {[bits |-> {0, 2, 7}, len |-> 1], [bits |-> 0..63, len |-> 8],
     [bits |-> {3 * k : k \in 0..31}, len |-> 12]}
MCPlainImage ==
    {[mem |-> m, sel |-> {1, 7}, cell |-> <<{}, {0, 9}, 0..15, {3, 4, 12}>>] :
        m \in {{5 * k : k \in 0..38}}}
=============================================================================
