-------------------------------- MODULE MCAml -------------------------------
(***************************************************************************)
(* One instance of each part of ACPICA that interprets byte code or a      *)
(* byte encoding: the execution of methods, the conversions of values, the *)
(* load of a table, the access to fields and the resource templates.  They *)
(* share no state here: a behaviour belongs to one part, the others are    *)
(* idle.                                                                   *)
(***************************************************************************)
EXTENDS AmlExec, AmlLoad, AcpiField, AcpiResource, AmlValue, FiniteSets, Binding

-----------------------------------------------------------------------------
(***************************************************************************)
(* The interpreter's conversions and comparisons against reference         *)
(* definitions, over bounded inputs: every integer of the narrow width and *)
(* the boundary ones of the word, buffers and strings of boundary bytes,   *)
(* and searches of short packages.                                         *)
(***************************************************************************)

VARIABLE sample

BoundaryByte == {0, 9, 10, 48, 99, 100, 255}
ShortBuffer == UNION {[1..n -> BoundaryByte] : n \in 0..3}
ByteString == UNION {[1..n -> {0, 1, 255}] : n \in 0..3}
MatchValues == <<Num(1), Num(5), Text(<<53>>), Num(0), Data(<<5>>)>>

Samples ==
    [kind : {"number"}, n : 0..IntegerMax]
    \cup [kind : {"buffer"}, b : ShortBuffer]
    \cup [kind : {"pair"}, s : ByteString, t : ByteString]
    \cup [kind : {"match"}, e1 : DOMAIN MatchValues, e2 : DOMAIN MatchValues, op1 : 0..5, op2 : {0, 3, 4},
          v : 1..3, start : {0, 1}]

SampleInit == sample \in Samples

\* The number the digits s denote in base.
RECURSIVE Denotes(_, _)
Denotes(s, base) == IF s = <<>> THEN 0 ELSE AsciiCharToHex(Last(s)) + base * Denotes(Front(s), base)

(***************************************************************************)
(* Conversions lose nothing: the text of an integer denotes it and         *)
(* converts back to it, as do its bytes and its decimal coding; and no     *)
(* conversion writes past the object it allocated (exconvrt.c).            *)
(***************************************************************************)
ConversionsExact ==
    /\ sample.kind = "number" =>
         LET v == Num(sample.n)
         IN /\ Denotes(ConvertToString(v, "DECIMAL").val, 10) = sample.n
            /\ ConvertToInteger(ConvertToString(v, "DECIMAL"), FALSE) = v
            /\ ConvertToInteger(ConvertToString(v, "HEX"), FALSE) = v
            /\ ConvertToInteger(ConvertToString(v, "IMPLICIT"), TRUE) = v
            /\ ConvertToInteger(ConvertToBuffer(v), TRUE) = v
            /\ IntegerToString(sample.n) = ConvertToString(v, "DECIMAL").val
            /\ IF sample.n < 10 ^ (2 * IntegerBytes) THEN FromBCD(ToBCD(sample.n).val) = v
               ELSE Failed(ToBCD(sample.n))
            /\ \A k \in {"DECIMAL", "HEX", "IMPLICIT"} : Len(StringText(v, k)) <= StringAllocation(v, k)
    /\ sample.kind = "buffer" =>
         LET v == Data(sample.b)
         IN
         With(ConvertToInteger(v, TRUE), LAMBDA read :
            /\ \A k \in {"DECIMAL", "HEX", "IMPLICIT"} :
                 Len(StringText(v, k)) <= StringAllocation(v, k)
            /\ (sample.b # <<>>) => read.val = ConvertToInteger(Data(SubSeq(sample.b, 1,
                                      IF Len(sample.b) < IntegerBytes THEN Len(sample.b)
                                                                      ELSE IntegerBytes)), TRUE).val
            /\ (sample.b # <<>>) => read.val <= IntegerMax)

\* The order of byte strings: by the first byte that differs, a prefix first.
Precedes(s, t) ==
    \E i \in 1..Len(t) :
        /\ i <= Len(s) + 1
        /\ \A j \in 1..(i - 1) : s[j] = t[j]
        /\ i <= Len(s) => s[i] < t[i]

\* Whether an element of a package stands in relation op to v.
Stands(op, element, v) ==
    LET e == IF element.type = v.type THEN element.val
             ELSE IF v.type = "INTEGER" THEN 5
             ELSE IF element.type = "INTEGER" THEN <<48, 48 + element.val>>
             ELSE <<48, 120, 48, 53>>
        Less(a, b) == IF v.type = "INTEGER" THEN a < b ELSE Precedes(a, b)
    IN CASE op = 0 -> TRUE
         [] op = 1 -> e = v.val
         [] op = 2 -> ~Less(v.val, e)
         [] op = 3 -> Less(e, v.val)
         [] op = 4 -> ~Less(e, v.val)
         [] op = 5 -> Less(v.val, e)

(***************************************************************************)
(* LLess, LEqual and LGreater are the lexicographic order on strings and   *)
(* on buffers (AcpiExDoLogicalOp), and Match finds the first element that  *)
(* stands in both relations to its operands (exoparg6.c).                  *)
(***************************************************************************)
ComparisonsOrdered ==
    /\ sample.kind = "pair" =>
         \A a \in {<<Text(sample.s), Text(sample.t)>>, <<Data(sample.s), Data(sample.t)>>} :
             /\ DoLogicalOp("LLess", a[1], a[2]).result = Precedes(sample.s, sample.t)
             /\ DoLogicalOp("LGreater", a[1], a[2]).result = Precedes(sample.t, sample.s)
             /\ DoLogicalOp("LEqual", a[1], a[2]).result = (sample.s = sample.t)
    /\ sample.kind = "match" =>
         LET elements == <<MatchValues[sample.e1], MatchValues[sample.e2]>>
             v == MatchValues[sample.v]
         IN
         With({i \in 1..2 : /\ i > sample.start
                            /\ Stands(sample.op1, elements[i], v)
                            /\ Stands(sample.op2, elements[i], Num(1))}, LAMBDA hits :
         LET found == MatchOp(elements, sample.op1, v, sample.op2, Num(1), sample.start)
         IN found = Num(IF 1 \in hits THEN 0 ELSE IF 2 \in hits THEN 1 ELSE WordMax))

-----------------------------------------------------------------------------
(* The lookup and the callbacks of a walk: those of a table at module      *)
(* level (AmlLoad), those of a method otherwise (AmlExec).                 *)

McLookup(w, path) == IF w.module THEN PathLookup(w, path) ELSE NamesLookup(w, path)
McDescending(w) == IF w.module THEN ExecBegin(w) ELSE ExecBeginOp(w)
McAscending(w) == IF w.module THEN ExecEnd(w) ELSE ExecEndOp(w)

-----------------------------------------------------------------------------

VARIABLE part

IdleExec == heap = 0 /\ nodes = 0 /\ thread = 0 /\ place = 0 /\ passed = 0 /\ outcome = 0 /\ program = 0
IdleValue == sample = 0
IdleLoad == load = 0 /\ choice = 0
IdleField == fobj = 0 /\ dev = 0 /\ want = 0 /\ moved = 0 /\ fieldOps = 0
IdleResource == template = 0 /\ list = 0 /\ prt = 0

amlVars == <<part, vars, sample, load, choice, fieldVars, rsVars>>

AmlInit ==
    \/ part = "exec" /\ Init /\ IdleValue /\ IdleLoad /\ IdleField /\ IdleResource
    \/ part = "value" /\ SampleInit /\ aml = 0 /\ IdleExec /\ IdleLoad /\ IdleField /\ IdleResource
    \/ part = "load" /\ LoadInit /\ IdleExec /\ IdleValue /\ IdleField /\ IdleResource
    \/ part = "field" /\ FieldInit /\ aml = 0 /\ IdleExec /\ IdleValue /\ IdleLoad /\ IdleResource
    \/ part = "resource" /\ ResourceInit /\ aml = 0 /\ IdleExec /\ IdleValue /\ IdleLoad /\ IdleField

AmlNext ==
    \/ part = "exec" /\ Next /\ UNCHANGED <<part, sample, load, choice, fieldVars, rsVars>>
    \/ part = "load" /\ LoadNext
       /\ UNCHANGED <<part, sample, heap, nodes, thread, place, passed, outcome, program, fieldVars, rsVars>>
    \/ part = "field" /\ FieldNext /\ UNCHANGED <<part, vars, sample, load, choice, rsVars>>
    \/ part = "resource" /\ ResourceNext /\ UNCHANGED <<part, vars, sample, load, choice, fieldVars>>

AmlSpec == AmlInit /\ [][AmlNext]_amlVars

----------------------------------------------------------------------------
(* Properties *)

(***************************************************************************)
(* A method evaluated by the parse loop and the dispatcher computes what   *)
(* its syntax means (ExecutesMeaning), every object has at least as many   *)
(* references as pointers (CountsCover), and a method that succeeds leaves *)
(* nothing unowned (NothingLeaked): psloop.c, dswexec.c, utdelete.c.       *)
(***************************************************************************)
MethodsSound == part = "exec" => ExecutesMeaning /\ CountsCover /\ NothingLeaked

(***************************************************************************)
(* The conversions between integers, strings and buffers lose nothing and  *)
(* stay in the object allocated (ConversionsExact), and the comparisons    *)
(* and Match agree with the order of the values (ComparisonsOrdered):      *)
(* exconvrt.c, exmisc.c, exoparg6.c.                                       *)
(***************************************************************************)
ValuesSound == part = "value" => ConversionsExact /\ ComparisonsOrdered


(***************************************************************************)
(* A store to a field changes the bits of that field and no others, a load *)
(* returns the bits of the field, whatever the access width, the region,   *)
(* the bank or the index register (exfldio.c).                             *)
(***************************************************************************)
FieldsExact == part = "field" => StoresExactBits /\ LoadsExactBits

(***************************************************************************)
(* What the resource converter writes fits the size its length pass        *)
(* allocated, in both directions and for routing tables (rscalc.c,         *)
(* rscreate.c).                                                            *)
(***************************************************************************)
ConversionFits == part = "resource" => ListFits /\ TemplateFits /\ RoutingTableFits

=============================================================================
