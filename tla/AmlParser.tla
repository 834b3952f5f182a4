------------------------------ MODULE AmlParser -----------------------------
(***************************************************************************)
(* The AML parser: from byte code to parse tree, one opcode at a time.     *)
(*                                                                         *)
(* A walk state is a record w.  The parser owns these fields of it:        *)
(*   pc, end, pkgEnd   ParserState.Aml, AmlEnd, PkgEnd (positions in aml)  *)
(*   at                WalkState->Aml, where the current opcode starts     *)
(*   op                the op in hand (NoOp: none)                         *)
(*   opcode, info      WalkState->Opcode, and the opcode OpInfo describes  *)
(*   argTypes, argCount   arguments still to be parsed; ones to descend to *)
(*   arg               the ops the last AcpiPsGetNextArg returned          *)
(*   scopes            the parse scopes, innermost first                   *)
(*   ctl, lastWhile    the control states, innermost first; AmlLastWhile   *)
(*   callNode, returnUsed   MethodCallNode, ReturnUsed, for a call         *)
(*   pass, module      PassNumber; ACPI_PARSE_MODULE_LEVEL                 *)
(*   status            the status the last operation returned              *)
(* Every operation maps a walk state to the one it leaves behind.  An op   *)
(* is [op, start, args, val, node, target, inStack, data]; the op in hand  *)
(* is linked into its parent when it is completed, which is when the       *)
(* parser decides whether the parent keeps it, sees a return value in its  *)
(* place, or forgets it.  The namespace lookup and the two callbacks of a  *)
(* walk are constants: what they do is defined in AmlLoad, for a table,    *)
(* and in AmlExec, for a method.                                           *)
(***************************************************************************)
EXTENDS Integers, Sequences, Binding

CONSTANTS
    Lookup(_, _),            \* AcpiNsLookup of a path in a walk, or NoNode
    DescendingCallback(_),   \* WalkState->DescendingCallback
    AscendingCallback(_)     \* WalkState->AscendingCallback

\* The callback of the walk, for the op in hand.
Descend(w) == With(w, DescendingCallback)
Ascend(w) == With(w, AscendingCallback)

-----------------------------------------------------------------------------
(***************************************************************************)
(* The opcode tables of the AML interpreter.  Every opcode has its         *)
(* encoding, the arguments the parser looks for behind it, the operands    *)
(* the interpreter wants, and the class, type and flags that select its    *)
(* handlers.  An encoding above 255 is two bytes, the first of them the    *)
(* extended-opcode prefix.  The flag that only the compiler and the        *)
(* disassembler read (AML_CONSTANT) is left out.                           *)
(***************************************************************************)

\* A table given as pairs of a set of names and what they have in common.
ByName(pairs) ==
   [n \in UNION {p[1] : p \in pairs} |-> (CHOOSE p \in pairs : n \in p[1])[2]]

\* amlcode.h: the encodings.  LNotEqual, LLessEqual and LGreaterEqual are
\* placeholders of the index table: in byte code they are two opcodes.
AmlOpcode ==
   [ Zero |-> \H00, One |-> \H01, Ones |-> \HFF, Alias |-> \H06, Name |-> \H08, ByteConst
     |-> \H0A, WordConst |-> \H0B, DwordConst |-> \H0C, String |-> \H0D, Scope |-> \H10,
     Buffer |-> \H11, Package |-> \H12,
     VarPackage |-> \H13, Method |-> \H14, Local0 |-> \H60, Local1 |-> \H61,
     Local2 |-> \H62, Local3 |-> \H63, Local4 |-> \H64, Local5 |-> \H65, Local6 |-> \H66,
     Local7 |-> \H67, Arg0 |-> \H68, Arg1 |-> \H69, Arg2 |-> \H6A, Arg3 |-> \H6B, Arg4 |->
     \H6C, Arg5 |-> \H6D, Arg6 |-> \H6E, Store |-> \H70, RefOf |-> \H71, Add |-> \H72,
     Subtract |-> \H74, Multiply |-> \H77, ShiftLeft |-> \H79, ShiftRight |-> \H7A, And |->
     \H7B, NAnd |-> \H7C, Or |-> \H7D, NOr |-> \H7E, XOr |-> \H7F, Concatenate |-> \H73,
     Increment |-> \H75, Decrement |-> \H76, Divide |-> \H78, Not |-> \H80, FindSetLeftBit
     |-> \H81, FindSetRightBit |-> \H82, DerefOf |-> \H83, Notify |-> \H86, SizeOf |-> \H87,
     Index |-> \H88, Match |-> \H89, CreateDWordField |-> \H8A, CreateWordField |-> \H8B,
     CreateByteField |-> \H8C, CreateBitField |-> \H8D, CreateQWordField |-> \H8F,
     ObjectType |-> \H8E, LAnd |-> \H90, LOr |-> \H91, LNot |-> \H92, LEqual |-> \H93,
     LGreater |-> \H94, LLess |-> \H95, If |-> \HA0, While |-> \HA2, Else |-> \HA1, Noop |->
     \HA3, Break |-> \HA5, BreakPoint |-> \HCC, Return |-> \HA4, Mutex |-> \H5B01, Event |->
     \H5B02, CondRefOf |-> \H5B12, CreateField |-> \H5B13, Load |-> \H5B20, Stall |->
     \H5B21, Sleep |-> \H5B22, Acquire |-> \H5B23, Signal |-> \H5B24, Reset |-> \H5B26, Wait
     |-> \H5B25, Release |-> \H5B27, FromBCD |-> \H5B28, ToBCD |-> \H5B29, Unload |->
     \H5B2A, Revision |-> \H5B30, Debug |-> \H5B31, Fatal |-> \H5B32, OperationRegion |->
     \H5B80, Field |-> \H5B81, Device |-> \H5B82, Processor |-> \H5B83, PowerResource |->
     \H5B84, ThermalZone |-> \H5B85, IndexField |-> \H5B86, BankField |-> \H5B87, LNotEqual
     |-> \HA6, LLessEqual |-> \HA7, LGreaterEqual |-> \HA8, NamePath |-> \H2D, MethodCall
     |-> \H35, ByteList |-> \H33, ReservedField |-> \H31, AccessField |-> \H32, StaticString
     |-> \H34, ExtAccessField |-> \H39, NamedField |-> \H30, ReturnValue |-> \H36,
     QwordConst |-> \H0E, ConcatenateResTemplate |-> \H84, Mod |-> \H85, ToBuffer |-> \H96,
     ToDecimalString |-> \H97, ToHexString |-> \H98, ToInteger |-> \H99, ToString |-> \H9C,
     CopyObject |-> \H9D, Mid |-> \H9E, Continue |-> \H9F, LoadTable |-> \H5B1F,
     DataTableRegion |-> \H5B88, EvalSubTree |-> \H37, Timer |-> \H5B33, ConnectField |->
     \H38, External |-> \H15, Comment |-> \HA9 ]

\* The opcodes the parser can be given, without the three forms above that
\* have no encoding at all.
AmlOp == DOMAIN AmlOpcode

\* psopinfo.c: the first byte, or the byte behind the extended prefix, leads
\* to the table entry.  A byte with no entry may start a name.
AcpiGbl_OpIndex == [c \in {AmlOpcode[n] : n \in AmlOp} |->
                      CHOOSE n \in AmlOp : AmlOpcode[n] = c]

\* acopcode.h: the arguments of each opcode, in the byte code's order.
ARGP == ByName(
   { <<{"Zero", "One", "Ones", "Local0", "Local1", "Local2", "Local3", "Local4", "Local5",
         "Local6", "Local7", "Arg0", "Arg1", "Arg2", "Arg3", "Arg4", "Arg5", "Arg6", "Noop",
         "Break", "BreakPoint", "Revision", "Debug", "ReturnValue", "Unknown", "AsciiOnly",
         "PrefixOnly", "Continue", "Timer"}, <<>>>>,
     <<{"Alias"}, <<"NAMESTRING", "NAME">>>>,
     <<{"Name"}, <<"NAME", "DATAOBJ">>>>,
     <<{"ByteConst"}, <<"BYTEDATA">>>>,
     <<{"WordConst"}, <<"WORDDATA">>>>,
     <<{"DwordConst"}, <<"DWORDDATA">>>>,
     <<{"String"}, <<"CHARLIST">>>>,
     <<{"Scope", "EvalSubTree"}, <<"PKGLENGTH", "NAME", "TERMLIST">>>>,
     <<{"Buffer"}, <<"PKGLENGTH", "TERMARG", "BYTELIST">>>>,
     <<{"Package"}, <<"PKGLENGTH", "BYTEDATA", "DATAOBJLIST">>>>,
     <<{"VarPackage"}, <<"PKGLENGTH", "TERMARG", "DATAOBJLIST">>>>,
     <<{"Method"}, <<"PKGLENGTH", "NAME", "BYTEDATA", "TERMLIST">>>>,
     <<{"Store"}, <<"TERMARG", "SUPERNAME">>>>,
     <<{"RefOf", "ObjectType"}, <<"SIMPLENAME">>>>,
     <<{"Add", "Subtract", "Multiply", "ShiftLeft", "ShiftRight", "And", "NAnd", "Or",
         "NOr", "XOr", "Concatenate", "Index", "ConcatenateResTemplate", "Mod", "ToString"},
         <<"TERMARG", "TERMARG", "TARGET">>>>,
     <<{"Increment", "Decrement", "DerefOf", "SizeOf", "Signal", "Reset", "Release",
         "Unload"}, <<"SUPERNAME">>>>,
     <<{"Divide"}, <<"TERMARG", "TERMARG", "TARGET", "TARGET">>>>,
     <<{"Not", "FindSetLeftBit", "FindSetRightBit", "FromBCD", "ToBCD", "ToBuffer",
         "ToDecimalString", "ToHexString", "ToInteger"}, <<"TERMARG", "TARGET">>>>,
     <<{"Notify", "Wait"}, <<"SUPERNAME", "TERMARG">>>>,
     <<{"Match"}, <<"TERMARG", "BYTEDATA", "TERMARG", "BYTEDATA", "TERMARG", "TERMARG">>>>,
     <<{"CreateDWordField", "CreateWordField", "CreateByteField", "CreateBitField",
         "CreateQWordField"}, <<"TERMARG", "TERMARG", "NAME">>>>,
     <<{"LAnd", "LOr", "LEqual", "LGreater", "LLess", "LNotEqual", "LLessEqual",
         "LGreaterEqual"}, <<"TERMARG", "TERMARG">>>>,
     <<{"LNot", "Return", "Stall", "Sleep"}, <<"TERMARG">>>>,
     <<{"If", "While"}, <<"PKGLENGTH", "TERMARG", "TERMLIST">>>>,
     <<{"Else"}, <<"PKGLENGTH", "TERMLIST">>>>,
     <<{"Mutex"}, <<"NAME", "BYTEDATA">>>>,
     <<{"Event"}, <<"NAME">>>>,
     <<{"CondRefOf"}, <<"SIMPLENAME", "TARGET">>>>,
     <<{"CreateField"}, <<"TERMARG", "TERMARG", "TERMARG", "NAME">>>>,
     <<{"Load"}, <<"NAMESTRING", "SUPERNAME">>>>,
     <<{"Acquire"}, <<"SUPERNAME", "WORDDATA">>>>,
     <<{"Fatal"}, <<"BYTEDATA", "DWORDDATA", "TERMARG">>>>,
     <<{"OperationRegion"}, <<"NAME", "BYTEDATA", "TERMARG", "TERMARG">>>>,
     <<{"Field"}, <<"PKGLENGTH", "NAMESTRING", "BYTEDATA", "FIELDLIST">>>>,
     <<{"Device", "ThermalZone"}, <<"PKGLENGTH", "NAME", "OBJLIST">>>>,
     <<{"Processor"}, <<"PKGLENGTH", "NAME", "BYTEDATA", "DWORDDATA", "BYTEDATA",
         "OBJLIST">>>>,
     <<{"PowerResource"}, <<"PKGLENGTH", "NAME", "BYTEDATA", "WORDDATA", "OBJLIST">>>>,
     <<{"IndexField"}, <<"PKGLENGTH", "NAMESTRING", "NAMESTRING", "BYTEDATA",
         "FIELDLIST">>>>,
     <<{"BankField"}, <<"PKGLENGTH", "NAMESTRING", "NAMESTRING", "TERMARG", "BYTEDATA",
         "FIELDLIST">>>>,
     <<{"NamePath", "MethodCall", "ByteList", "ReservedField", "AccessField",
         "StaticString", "ExtAccessField", "NamedField", "ConnectField"},
         <<"NAMESTRING">>>>,
     <<{"QwordConst"}, <<"QWORDDATA">>>>,
     <<{"CopyObject"}, <<"TERMARG", "SIMPLENAME">>>>,
     <<{"Mid"}, <<"TERMARG", "TERMARG", "TERMARG", "TARGET">>>>,
     <<{"LoadTable"}, <<"TERMARG", "TERMARG", "TERMARG", "TERMARG", "TERMARG",
         "TERMARG">>>>,
     <<{"DataTableRegion"}, <<"NAME", "TERMARG", "TERMARG", "TERMARG">>>>,
     <<{"External"}, <<"NAME", "BYTEDATA", "BYTEDATA">>>>,
     <<{"Comment"}, <<"BYTEDATA", "COMMENT">>>> })

INVALID == <<"INVALID">>

\* acopcode.h: the operand types the interpreter resolves to.
ARGI == ByName(
   { <<{"Zero", "One", "Ones", "Local0", "Local1", "Local2", "Local3", "Local4", "Local5",
         "Local6", "Local7", "Arg0", "Arg1", "Arg2", "Arg3", "Arg4", "Arg5", "Arg6", "Noop",
         "Break", "BreakPoint", "Revision", "Debug", "ReturnValue", "Unknown", "AsciiOnly",
         "PrefixOnly", "Timer"}, <<>>>>,
     <<{"Alias", "Name", "ByteConst", "WordConst", "DwordConst", "String", "Scope",
         "Method", "If", "While", "Else", "Return", "Mutex", "Event", "Field", "Device",
         "Processor", "PowerResource", "ThermalZone", "IndexField", "LNotEqual",
         "LLessEqual", "LGreaterEqual", "NamePath", "MethodCall", "ByteList",
         "ReservedField", "AccessField", "StaticString", "ExtAccessField", "NamedField",
         "QwordConst", "Continue", "EvalSubTree", "ConnectField", "Comment"}, INVALID>>,
     <<{"Buffer", "Package", "VarPackage", "LNot", "Stall", "Sleep", "BankField"}, <<"INTEGER">>>>,
     <<{"Store"}, <<"DATAREFOBJ", "STORE_TARGET">>>>,
     <<{"RefOf"}, <<"OBJECT_REF">>>>,
     <<{"Add", "Subtract", "Multiply", "ShiftLeft", "ShiftRight", "And", "NAnd", "Or",
         "NOr", "XOr", "Mod"}, <<"INTEGER", "INTEGER", "TARGETREF">>>>,
     <<{"Concatenate"}, <<"ANYTYPE", "ANYTYPE", "TARGETREF">>>>,
     <<{"Increment", "Decrement"}, <<"TARGETREF">>>>,
     <<{"Divide"}, <<"INTEGER", "INTEGER", "TARGETREF", "TARGETREF">>>>,
     <<{"Not", "FindSetLeftBit", "FindSetRightBit"}, <<"INTEGER", "TARGETREF">>>>,
     <<{"DerefOf"}, <<"REF_OR_STRING">>>>,
     <<{"Notify"}, <<"DEVICE_REF", "INTEGER">>>>,
     <<{"SizeOf"}, <<"DATAOBJECT">>>>,
     <<{"Index"}, <<"COMPLEXOBJ", "INTEGER", "TARGETREF">>>>,
     <<{"Match"}, <<"PACKAGE", "INTEGER", "COMPUTEDATA", "INTEGER", "COMPUTEDATA",
         "INTEGER">>>>,
     <<{"CreateDWordField", "CreateWordField", "CreateByteField", "CreateBitField",
         "CreateQWordField"}, <<"BUFFER", "INTEGER", "REFERENCE">>>>,
     <<{"ObjectType"}, <<"ANYTYPE">>>>,
     <<{"LAnd", "LOr", "OperationRegion"}, <<"INTEGER", "INTEGER">>>>,
     <<{"LEqual", "LGreater", "LLess"}, <<"COMPUTEDATA", "COMPUTEDATA">>>>,
     <<{"CondRefOf"}, <<"OBJECT_REF", "TARGETREF">>>>,
     <<{"CreateField"}, <<"BUFFER", "INTEGER", "INTEGER", "REFERENCE">>>>,
     <<{"Load"}, <<"REGION_OR_BUFFER", "TARGETREF">>>>,
     <<{"Acquire"}, <<"MUTEX", "INTEGER">>>>,
     <<{"Signal", "Reset"}, <<"EVENT">>>>,
     <<{"Wait"}, <<"EVENT", "INTEGER">>>>,
     <<{"Release"}, <<"MUTEX">>>>,
     <<{"FromBCD", "ToBCD"}, <<"INTEGER", "FIXED_TARGET">>>>,
     <<{"Unload"}, <<"DDBHANDLE">>>>,
     <<{"Fatal"}, <<"INTEGER", "INTEGER", "INTEGER">>>>,
     <<{"ConcatenateResTemplate"}, <<"BUFFER", "BUFFER", "TARGETREF">>>>,
     <<{"ToBuffer", "ToDecimalString", "ToHexString", "ToInteger"}, <<"COMPUTEDATA",
         "FIXED_TARGET">>>>,
     <<{"ToString"}, <<"BUFFER", "INTEGER", "FIXED_TARGET">>>>,
     <<{"CopyObject"}, <<"ANYTYPE", "SIMPLE_TARGET">>>>,
     <<{"Mid"}, <<"BUFFER_OR_STRING", "INTEGER", "INTEGER", "TARGETREF">>>>,
     <<{"LoadTable"}, <<"STRING", "STRING", "STRING", "STRING", "STRING", "ANYTYPE">>>>,
     <<{"DataTableRegion"}, <<"STRING", "STRING", "STRING">>>>,
     <<{"External"}, <<"STRING", "INTEGER", "INTEGER">>>> })

\* psopcode.c: class and type.
OpClassType == ByName(
   { <<{"Zero", "One", "Ones", "Revision", "Debug"}, <<"ARGUMENT", "CONSTANT">>>>,
     <<{"Alias", "Mutex", "Event", "Processor", "PowerResource", "External"},
         <<"NAMED_OBJECT", "NAMED_SIMPLE">>>>,
     <<{"Name", "Method", "OperationRegion", "DataTableRegion"}, <<"NAMED_OBJECT",
         "NAMED_COMPLEX">>>>,
     <<{"ByteConst", "WordConst", "DwordConst", "String", "NamePath", "ByteList",
         "QwordConst", "Comment"}, <<"ARGUMENT", "LITERAL">>>>,
     <<{"Scope", "Device", "ThermalZone", "EvalSubTree"}, <<"NAMED_OBJECT",
         "NAMED_NO_OBJ">>>>,
     <<{"Buffer", "Package", "VarPackage"}, <<"CREATE", "CREATE_OBJECT">>>>,
     <<{"Local0", "Local1", "Local2", "Local3", "Local4", "Local5", "Local6", "Local7"},
         <<"ARGUMENT", "LOCAL_VARIABLE">>>>,
     <<{"Arg0", "Arg1", "Arg2", "Arg3", "Arg4", "Arg5", "Arg6"}, <<"ARGUMENT",
         "METHOD_ARGUMENT">>>>,
     <<{"Store", "Not", "FindSetLeftBit", "FindSetRightBit", "CondRefOf", "Load", "FromBCD",
         "ToBCD", "ToBuffer", "ToDecimalString", "ToHexString", "ToInteger", "CopyObject"},
         <<"EXECUTE", "1A_1T_1R">>>>,
     <<{"RefOf", "Increment", "Decrement", "DerefOf", "SizeOf", "ObjectType", "LNot"},
         <<"EXECUTE", "1A_0T_1R">>>>,
     <<{"Add", "Subtract", "Multiply", "ShiftLeft", "ShiftRight", "And", "NAnd", "Or",
         "NOr", "XOr", "Concatenate", "Index", "ConcatenateResTemplate", "Mod", "ToString"},
         <<"EXECUTE", "2A_1T_1R">>>>,
     <<{"Divide"}, <<"EXECUTE", "2A_2T_1R">>>>,
     <<{"Notify"}, <<"EXECUTE", "2A_0T_0R">>>>,
     <<{"Match", "LoadTable"}, <<"EXECUTE", "6A_0T_1R">>>>,
     <<{"CreateDWordField", "CreateWordField", "CreateByteField", "CreateBitField",
         "CreateQWordField", "CreateField"}, <<"CREATE", "CREATE_FIELD">>>>,
     <<{"LAnd", "LOr", "LEqual", "LGreater", "LLess", "Acquire", "Wait"}, <<"EXECUTE",
         "2A_0T_1R">>>>,
     <<{"If", "While", "Else", "Noop", "Break", "BreakPoint", "Return", "Continue"},
         <<"CONTROL", "CONTROL">>>>,
     <<{"Stall", "Sleep", "Signal", "Reset", "Release", "Unload"}, <<"EXECUTE",
         "1A_0T_0R">>>>,
     <<{"Fatal"}, <<"EXECUTE", "3A_0T_0R">>>>,
     <<{"Field", "IndexField", "BankField"}, <<"NAMED_OBJECT", "NAMED_FIELD">>>>,
     <<{"LNotEqual", "LLessEqual", "LGreaterEqual", "ReservedField", "AccessField",
         "StaticString", "ExtAccessField", "NamedField", "ConnectField"}, <<"INTERNAL",
         "BOGUS">>>>,
     <<{"MethodCall"}, <<"METHOD_CALL", "METHOD_CALL">>>>,
     <<{"ReturnValue"}, <<"RETURN_VALUE", "RETURN">>>>,
     <<{"Unknown"}, <<"UNKNOWN", "BOGUS">>>>,
     <<{"AsciiOnly"}, <<"ASCII", "BOGUS">>>>,
     <<{"PrefixOnly"}, <<"PREFIX", "BOGUS">>>>,
     <<{"Mid"}, <<"EXECUTE", "3A_1T_1R">>>>,
     <<{"Timer"}, <<"EXECUTE", "0A_0T_1R">>>> })

OpClass(n) == OpClassType[n][1]
OpType(n)  == OpClassType[n][2]

\* psopcode.c: the type of the object an opcode defines or denotes.
OpObjectTypes == ByName(
   { <<{"Zero", "One", "Ones", "ByteConst", "WordConst", "DwordConst", "Revision",
         "QwordConst"}, "INTEGER">>,
     <<{"Alias"}, "LOCAL_ALIAS">>,
     <<{"String", "Comment"}, "STRING">>,
     <<{"Scope"}, "LOCAL_SCOPE">>,
     <<{"Buffer"}, "BUFFER">>,
     <<{"Package", "VarPackage"}, "PACKAGE">>,
     <<{"Method", "MethodCall"}, "METHOD">>,
     <<{"Local0", "Local1", "Local2", "Local3", "Local4", "Local5", "Local6", "Local7",
         "Arg0", "Arg1", "Arg2", "Arg3", "Arg4", "Arg5", "Arg6", "Debug", "NamePath"},
         "LOCAL_REFERENCE">>,
     <<{"CreateDWordField", "CreateWordField", "CreateByteField", "CreateBitField",
         "CreateQWordField", "CreateField"}, "BUFFER_FIELD">>,
     <<{"Mutex"}, "MUTEX">>,
     <<{"Event"}, "EVENT">>,
     <<{"OperationRegion", "DataTableRegion"}, "REGION">>,
     <<{"Device"}, "DEVICE">>,
     <<{"Processor"}, "PROCESSOR">>,
     <<{"PowerResource"}, "POWER">>,
     <<{"ThermalZone"}, "THERMAL">>,
     <<{"BankField"}, "LOCAL_BANK_FIELD">>,
     <<{"Unknown"}, "INVALID">> })

OpObjectType(n) == IF n \in DOMAIN OpObjectTypes THEN OpObjectTypes[n] ELSE "ANY"

----------------------------------------------------------------------------
(* Flags (amlcode.h, psopcode.c) *)

NAMED == {"Alias", "DataTableRegion", "Device", "Event", "External", "Method",
          "Mutex", "Name", "NamedField", "OperationRegion", "PowerResource",
          "Processor", "Scope", "ThermalZone"}

CREATE == {n \in AmlOp : OpType(n) = "CREATE_FIELD"}

MATH == {"Add", "And", "Multiply", "NAnd", "NOr", "Or", "ShiftLeft",
         "ShiftRight", "Subtract", "XOr"}

NO_OPERAND_RESOLVE == {"ObjectType", "SizeOf", "Timer"}

\* The AML_FLAGS_EXEC_xA_yT_zR sets: arguments, targets, return value.
ExecHas(n) ==
   [args |-> OpType(n) # "0A_0T_1R",
    target |-> OpType(n) \in {"1A_1T_1R", "2A_1T_1R", "2A_2T_1R", "3A_1T_1R"},
    retval |-> OpType(n) \notin {"1A_0T_0R", "2A_0T_0R", "3A_0T_0R"}]

HasRetval(n) == n = "ReturnValue" \/ (OpClass(n) = "EXECUTE" /\ ExecHas(n).retval)

HasArgs(n) ==
   \/ OpClass(n) = "EXECUTE" /\ ExecHas(n).args
   \/ OpClass(n) \in {"CREATE", "NAMED_OBJECT", "METHOD_CALL", "RETURN_VALUE"}
         /\ n # "Event"
   \/ n \in {"If", "Else", "While", "Return", "ConnectField"}

HasTarget(n) == OpClass(n) = "EXECUTE" /\ ExecHas(n).target

\* Every executable opcode is parsed with as many arguments as it resolves
\* operands for, its targets last, and no list exceeds the six entries that
\* fit a 32-bit argument word.
OpTableAssumption ==
   /\ \A n \in AmlOp : Len(ARGP[n]) <= 6 /\ Len(ARGI[n]) <= 6
   /\ \A n \in AmlOp : OpClass(n) = "EXECUTE" =>
         /\ Len(ARGP[n]) = Len(ARGI[n])
         /\ HasTarget(n) => ARGP[n][Len(ARGP[n])] \in {"TARGET", "SUPERNAME", "SIMPLENAME"}
   /\ \A n \in AmlOp : HasArgs(n) => Len(ARGP[n]) > 0 \/ n = "ReturnValue"

ASSUME OpTableSound == OpTableAssumption

-----------------------------------------------------------------------------

VARIABLE aml    \* the byte code (1-based; a position is an AML address)

VAR_ARGS == -1        \* ACPI_VAR_ARGS, the largest UINT32
NAMESEG_SIZE == 4
EXTENDED_PREFIX == 91
ROOT_PREFIX == 92
PARENT_PREFIX == 94
DUAL_NAME_PREFIX == 46
MULTI_NAME_PREFIX == 47

NoOp == [op |-> "None"]
NoNode == 0

AllocOp(opcode, start) ==
   [op |-> opcode, start |-> start, args |-> <<>>, val |-> <<>>, node |-> NoNode,
    target |-> FALSE, inStack |-> FALSE, data |-> <<0, 0>>]

IsNone(op) == op.op = "None"

\* The status codes that steer the parser; every other one but "OK" is an error.
CtrlCodes == {"TRANSFER", "TERMINATE", "PENDING", "TRUE", "FALSE", "END", "BREAK",
              "CONTINUE", "SKIP", "PARSE_CONTINUE", "PARSE_PENDING"}

IsError(s) == s # "OK" /\ s \notin CtrlCodes

Ret(w, s) == [w EXCEPT !.status = s]

----------------------------------------------------------------------------
(* psargs.c: what is read from the byte code *)

Bytes(at, n) == SubSeq(aml, at, at + n - 1)

LittleEndian(at, n) ==
   LET v[i \in 0..n] == IF i = 0 THEN 0 ELSE 256 * v[i - 1] + aml[at + n - i] IN v[n]

\* The length's first byte gives the number of bytes that follow it, and four
\* or six low bits.
PackageLength(at) ==
   LET count == aml[at] \div 64
   IN IF count = 0 THEN aml[at] % 64
      ELSE (aml[at] % 16) + 16 * LittleEndian(at + 1, count)

GetNextPackageLength(w) ==
   [val |-> PackageLength(w.pc), pc |-> w.pc + (aml[w.pc] \div 64) + 1]

\* The package length counts its own bytes.
PackageEnd(at) == at + PackageLength(at)

IsLeadingChar(c) == c = 95 \/ c \in 65..90

RECURSIVE SkipPrefixes(_)
SkipPrefixes(at) ==
   IF aml[at] \in {ROOT_PREFIX, PARENT_PREFIX} THEN SkipPrefixes(at + 1) ELSE at

\* A name string is kept as its bytes.  The null name is the empty path.
GetNextNamestring(w) ==
   LET end == SkipPrefixes(w.pc)
       stop == CASE aml[end] = 0 -> end + 1
                 [] aml[end] = DUAL_NAME_PREFIX -> end + 1 + 2 * NAMESEG_SIZE
                 [] aml[end] = MULTI_NAME_PREFIX -> end + 2 + aml[end + 1] * NAMESEG_SIZE
                 [] OTHER -> end + NAMESEG_SIZE
   IN [val |-> IF end = w.pc /\ aml[end] = 0 THEN <<>> ELSE Bytes(w.pc, stop - w.pc),
       pc |-> stop]

PeekOpcode(w) ==
   IF aml[w.pc] = EXTENDED_PREFIX THEN 256 * EXTENDED_PREFIX + aml[w.pc + 1]
   ELSE aml[w.pc]

OpcodeSize(code) == IF code > 255 THEN 2 ELSE 1

\* psopinfo.c: a byte with no opcode may begin a name; the rest is unknown.
OpcodeInfo(code) ==
   IF code \in DOMAIN AcpiGbl_OpIndex THEN AcpiGbl_OpIndex[code]
   ELSE IF IsLeadingChar(code) \/ code \in {ROOT_PREFIX, PARENT_PREFIX,
                                            DUAL_NAME_PREFIX, MULTI_NAME_PREFIX}
        THEN "NamePath" ELSE "Unknown"

StartsName(code) == code = 0 \/ IsLeadingChar(code) \/ code \in {ROOT_PREFIX, PARENT_PREFIX}

CurrentArg(w) == IF w.argTypes = <<>> THEN "NONE" ELSE Head(w.argTypes)

RECURSIVE StringEnd(_)
StringEnd(at) == IF aml[at] = 0 THEN at ELSE StringEnd(at + 1)

DataSize == [BYTEDATA |-> 1, WORDDATA |-> 2, DWORDDATA |-> 4, QWORDDATA |-> 8]
DataOp == [BYTEDATA |-> "ByteConst", WORDDATA |-> "WordConst",
           DWORDDATA |-> "DwordConst", QWORDDATA |-> "QwordConst"]

\* The op of a simple argument and the position behind it.
GetNextSimpleArg(w, type, op) ==
   IF type \in DOMAIN DataSize
   THEN [op |-> [op EXCEPT !.op = DataOp[type], !.val = LittleEndian(w.pc, DataSize[type])],
         pc |-> w.pc + DataSize[type]]
   ELSE IF type = "CHARLIST"
   THEN LET end == StringEnd(w.pc)
        IN [op |-> [op EXCEPT !.op = "String", !.val = Bytes(w.pc, end - w.pc)],
            pc |-> end + 1]
   ELSE With(GetNextNamestring(w), LAMBDA n :
           [op |-> [op EXCEPT !.op = "NamePath", !.val = n.val], pc |-> n.pc])

\* A name that denotes a method becomes a call of it, with the name as first
\* argument.  Where a target or a super name is wanted the call is parsed as an
\* op of its own: the parser backs up and descends.  A name that is not found
\* is an error in execution only, and not below CondRefOf or a package.
GetNextNamepath(w, op, possibleCall) ==
   With(GetNextNamestring(w), LAMBDA n :
   With([op EXCEPT !.op = "NamePath", !.val = n.val], LAMBDA named :
   With(Lookup(w, n.val), LAMBDA node :
   With(possibleCall /\ node # NoNode /\ w.nodes[node].type = "METHOD", LAMBDA call :
   LET back  == CurrentArg(w) \in {"SUPERNAME", "TARGET"}
       nameOp == [AllocOp("NamePath", w.pc) EXCEPT !.val = n.val, !.node = node]
       missing == /\ node = NoNode
                  /\ w.pass = 3
                  /\ w.op.op # "CondRefOf"
                  /\ w.scopes[1].op.op \notin {"Package", "VarPackage"}
   IN IF n.val = <<>> THEN [Ret(w, "OK") EXCEPT !.pc = n.pc, !.arg = <<named>>]
      ELSE IF call /\ back
      THEN [Ret(w, "OK") EXCEPT !.argCount = 1,
                                !.arg = <<[op EXCEPT !.op = "MethodCall"]>>]
      ELSE IF call
      THEN [Ret(w, "OK") EXCEPT
              !.pc = n.pc, !.argCount = w.params[node],
              !.arg = <<[op EXCEPT !.op = "MethodCall", !.args = <<nameOp>>]>>]
      ELSE [Ret(w, IF missing THEN "NOT_FOUND" ELSE "OK") EXCEPT
              !.pc = n.pc, !.arg = <<named>>]))))

\* One element of a field list: a named field and its length in bits, a gap, an
\* access change, or a connection given by a buffer or by a name.
GetNextField(w) ==
   LET kind == aml[w.pc]
       named == GetNextPackageLength([w EXCEPT !.pc = @ + NAMESEG_SIZE])
       gap == GetNextPackageLength([w EXCEPT !.pc = @ + 1])
   IN
   With(GetNextNamestring([w EXCEPT !.pc = @ + 1]), LAMBDA conn :
   LET field(op, val, args) == [AllocOp(op, w.pc) EXCEPT !.val = val, !.args = args]
   IN CASE kind = 0 -> [op |-> field("ReservedField", gap.val, <<>>), pc |-> gap.pc]
        [] kind = 1 -> [op |-> field("AccessField", LittleEndian(w.pc + 1, 2), <<>>),
                        pc |-> w.pc + 3]
        [] kind = 3 -> [op |-> field("ExtAccessField", LittleEndian(w.pc + 1, 3), <<>>),
                        pc |-> w.pc + 4]
        [] kind = 2 /\ aml[w.pc + 1] = AmlOpcode.Buffer ->
             [op |-> field("ConnectField", <<>>, <<AllocOp("ByteList", w.pc + 1)>>),
              pc |-> PackageEnd(w.pc + 2)]
        [] kind = 2 /\ aml[w.pc + 1] # AmlOpcode.Buffer ->
             [op |-> field("ConnectField", <<>>,
                           <<[AllocOp("NamePath", w.pc + 1) EXCEPT !.val = conn.val]>>),
              pc |-> conn.pc]
        [] OTHER -> [op |-> field("NamedField", <<Bytes(w.pc, NAMESEG_SIZE), named.val>>, <<>>),
                     pc |-> named.pc])

RECURSIVE GetFieldList(_, _)
GetFieldList(w, list) ==
   IF w.pc >= w.pkgEnd THEN list
   ELSE With(GetNextField(w), LAMBDA f :
           GetFieldList([w EXCEPT !.pc = f.pc], Append(list, f.op)))

\* The next argument: read here (w.arg), or left to the loop (w.argCount).
GetNextArg(w) ==
   LET type == CurrentArg(w)
       ok   == [Ret(w, "OK") EXCEPT !.arg = <<>>]
       inPackage == w.pc < w.pkgEnd
   IN
   With(GetNextNamepath(w, AllocOp("NamePath", w.pc), type \in {"TARGET", "SUPERNAME"}),
        LAMBDA path :
      CASE type \in DOMAIN DataSize \cup {"CHARLIST", "NAME", "NAMESTRING"} ->
             With(GetNextSimpleArg(w, type, AllocOp("ByteConst", w.pc)), LAMBDA a :
                [ok EXCEPT !.arg = <<a.op>>, !.pc = a.pc])
        [] type = "PKGLENGTH" ->
             [ok EXCEPT !.pkgEnd = PackageEnd(w.pc), !.pc = GetNextPackageLength(w).pc]
        [] type = "FIELDLIST" ->
             IF inPackage THEN [ok EXCEPT !.arg = GetFieldList(w, <<>>), !.pc = w.pkgEnd]
             ELSE ok
        [] type = "BYTELIST" ->
             IF inPackage
             THEN [ok EXCEPT !.pc = w.pkgEnd,
                             !.arg = <<[AllocOp("ByteList", w.pc) EXCEPT
                                          !.val = Bytes(w.pc, w.pkgEnd - w.pc)]>>]
             ELSE ok
        [] type \in {"SIMPLENAME", "TARGET", "SUPERNAME"} ->
             IF StartsName(PeekOpcode(w))
             THEN IF path.status = "OK" /\ path.arg[1].op = "MethodCall"
                  THEN [path EXCEPT !.arg = <<>>] ELSE path
             ELSE [ok EXCEPT !.argCount = 1]
        [] type \in {"DATAOBJ", "TERMARG"} -> [ok EXCEPT !.argCount = 1]
        [] type \in {"DATAOBJLIST", "TERMLIST", "OBJLIST"} ->
             IF inPackage THEN [ok EXCEPT !.argCount = VAR_ARGS] ELSE ok
        [] OTHER -> Ret(w, "OPERAND_TYPE"))

----------------------------------------------------------------------------
(* psscope.c, pstree.c: scopes and the tree *)

InitScope(root, end) ==
   <<[op |-> root, argList |-> <<>>, argCount |-> VAR_ARGS, argEnd |-> end, pkgEnd |-> end]>>

MaxPtr == 1000000

PushScope(w) ==
   [w EXCEPT !.op = NoOp,
             !.scopes = <<[op |-> w.op, argList |-> w.argTypes, argCount |-> w.argCount,
                           argEnd |-> IF w.argCount = VAR_ARGS THEN w.pkgEnd ELSE MaxPtr,
                           pkgEnd |-> w.pkgEnd]>> \o w.scopes]

\* The op whose scope ends is in hand again.  The root scope stays.
PopScope(w) ==
   IF Len(w.scopes) > 1
   THEN LET s == Head(w.scopes)
        IN [w EXCEPT !.op = s.op, !.argTypes = s.argList, !.argCount = s.argCount,
                     !.pkgEnd = s.pkgEnd, !.scopes = Tail(@)]
   ELSE [w EXCEPT !.op = NoOp, !.argTypes = <<>>, !.argCount = 0]

HasCompletedScope(w) == w.pc >= w.scopes[1].argEnd \/ w.scopes[1].argCount = 0

ParentOp(w) == w.scopes[1].op

AppendArg(op, args) == IF IsNone(op) \/ ~HasArgs(op.op) THEN op
                       ELSE [op EXCEPT !.args = @ \o args]

\* psparse.c: what remains of a completed op in its parent.  Arguments stay; an
\* op that was executed leaves a return value where the parent will look for
\* one, and nothing below a control op.
Remains(w) ==
   LET parent == ParentOp(w)
       value == <<[AllocOp("ReturnValue", w.op.start) EXCEPT !.node = w.op.node]>>
   IN IF IsNone(parent) THEN <<>>
      ELSE IF OpClass(w.info) = "ARGUMENT" THEN <<w.op>>
      ELSE CASE OpClass(parent.op) = "CONTROL" -> <<>>
             [] OpClass(parent.op) = "CREATE" -> value
             [] OpClass(parent.op) = "NAMED_OBJECT" ->
                  IF parent.op \in {"OperationRegion", "DataTableRegion", "BankField"} THEN value
                  ELSE IF /\ parent.op = "Name"
                          /\ w.pass <= 2
                          /\ w.op.op \in {"Buffer", "Package", "VarPackage"}
                  THEN <<[w.op EXCEPT !.args = <<>>]>> ELSE <<>>
             [] OTHER -> value

CompleteThisOp(w) ==
   IF IsNone(w.op) THEN w
   ELSE [w EXCEPT !.scopes[1].op = AppendArg(@, Remains(w)), !.op = NoOp]

----------------------------------------------------------------------------
(* psparse.c: what a callback's status means to the parser *)

\* dsutils.c: will the parent op take the result of the op in hand?
IsResultUsed(w) ==
   LET parent == ParentOp(w)
   IN /\ ~IsNone(parent)
      /\ parent.op # "Scope"
      /\ CASE OpClass(parent.op) = "UNKNOWN" -> FALSE
           [] OpClass(parent.op) = "CONTROL" ->
                \/ parent.op = "Return"
                \/ /\ parent.op \in {"If", "While"}
                   /\ w.ctl[1].state = "PREDICATE" /\ w.ctl[1].predicate = w.op.start
           [] OpClass(parent.op) = "NAMED_OBJECT" ->
                parent.op \in {"OperationRegion", "DataTableRegion", "EvalSubTree", "BankField"}
           [] OTHER -> TRUE

NextParseState(w) ==
   CASE w.status = "TERMINATE" -> [w EXCEPT !.pc = w.end]
     [] w.status = "BREAK"     -> [w EXCEPT !.pc = w.lastWhile, !.ctl[1].value = FALSE]
     [] w.status \in {"CONTINUE", "PENDING"} -> [w EXCEPT !.pc = w.lastWhile]
     [] w.status = "SKIP"      -> [Ret(w, "OK") EXCEPT !.pc = w.scopes[1].pkgEnd]
     [] w.status = "TRUE"      -> [Ret(w, "PENDING") EXCEPT !.pc = PackageEnd(w.pc)]
     [] w.status = "FALSE"     -> [Ret(w, "END") EXCEPT !.pc = w.scopes[1].pkgEnd,
                                                        !.ctl[1].value = FALSE]
     [] w.status = "TRANSFER"  -> [w EXCEPT !.callNode = w.op.args[1].node,
                                            !.returnUsed = IsResultUsed(w)]
     [] OTHER -> Ret(w, IF w.status \in CtrlCodes THEN "OK" ELSE w.status)

----------------------------------------------------------------------------
(* psobject.c *)

\* An unknown opcode is an error in the second pass and skipped in the others.
GetAmlOpcode(w) ==
   LET code == PeekOpcode(w)
   IN
   With(OpcodeInfo(code), LAMBDA name :
   With([w EXCEPT !.at = w.pc, !.opcode = name, !.info = name], LAMBDA seen :
      IF name = "Unknown"
      THEN IF w.pass = 2 THEN Ret(seen, "BAD_OPCODE")
           ELSE [Ret(seen, "PARSE_CONTINUE") EXCEPT !.pc = @ + OpcodeSize(code)]
      ELSE [Ret(seen, "OK") EXCEPT
              !.argTypes = ARGP[name],
              !.pc = @ + IF code \in DOMAIN AcpiGbl_OpIndex THEN OpcodeSize(code) ELSE 0]))

\* The arguments in front of the name of a named op.
ArgsToName(w0) ==
   LET RECURSIVE Go(_)
       Go(w) == With(GetNextArg(w), LAMBDA a :
                   IF CurrentArg(w) \in {"NONE", "NAME"} THEN w
                   ELSE IF a.status # "OK" THEN a
                   ELSE Go([a EXCEPT !.op = AppendArg(@, a.arg), !.argTypes = Tail(@)]))
   IN Go(w0)

\* A named op is made by the descending callback, which enters the name.
BuildNamedOp(w) ==
   With(ArgsToName([w EXCEPT !.op = AllocOp(w.opcode, w.at)]), LAMBDA front :
   With(Descend([front EXCEPT !.argTypes = Tail(@), !.op = NoOp]), LAMBDA made :
   LET next  == NextParseState(made)
   IN IF front.status # "OK" THEN [front EXCEPT !.op = NoOp]
      ELSE IF front.argTypes = <<>> THEN Ret([front EXCEPT !.op = NoOp], "NO_OPERAND")
      ELSE IF made.status # "OK" THEN made
      ELSE IF IsNone(made.op) THEN Ret(made, "PARSE_CONTINUE")
      ELSE [next EXCEPT !.op = [AppendArg(@, front.op.args) EXCEPT !.data = <<w.at, 0>>]]))

\* Is the op that is about to be parsed a target of its parent?
InTargetPosition(w) ==
   LET p == ParentOp(w)
   IN /\ ~IsNone(p)
      /\ \/ HasTarget(p.op) /\ Len(p.args) + 1 >
               (CASE OpType(p.op) \in {"1A_0T_0R", "1A_0T_1R", "1A_1T_1R"} -> 1
                  [] OpType(p.op) \in {"2A_0T_0R", "2A_0T_1R", "2A_1T_1R", "2A_2T_1R"} -> 2
                  [] OpType(p.op) \in {"3A_0T_0R", "3A_1T_1R"} -> 3
                  [] OTHER -> 6)
         \/ p.op \in {"Increment", "Decrement"}

CreateOp(w0) ==
   With(GetAmlOpcode(w0), LAMBDA w :
   LET made == [AllocOp(w.opcode, w0.pc) EXCEPT !.target = InTargetPosition(w),
                  !.data = IF w.opcode \in CREATE \cup {"BankField"} THEN <<w0.pc, 0>> ELSE @]
   IN
   With(NextParseState(Descend([w EXCEPT !.op = made])), LAMBDA next :
      IF w.status # "OK" THEN w
      ELSE IF w.opcode \in NAMED THEN BuildNamedOp(w)
      ELSE IF next.status = "PENDING" THEN Ret(next, "PARSE_PENDING") ELSE next))

RECURSIVE PopToWhile(_)
PopToWhile(w) == IF ~IsNone(w.op) /\ w.op.op = "While" THEN w ELSE PopToWhile(PopScope(w))

\* Every open scope is closed; a control state goes with each op.  The node of an
\* open region is not removed: here no argument of a region fails.
RECURSIVE PopAll(_, _)
PopAll(w, control) ==
   With(CompleteThisOp(w), LAMBDA done :
   With(PopScope(IF ~IsNone(w.op) /\ control /\ w.ctl # <<>>
                 THEN [done EXCEPT !.ctl = Tail(@)] ELSE done), LAMBDA popped :
      IF IsNone(popped.op) THEN popped ELSE PopAll(popped, control)))

\* The ascending callback for an op taken from its scope by a control transfer.
CloseOp(w) ==
   LET ending == [w EXCEPT !.info = w.op.op, !.opcode = w.op.op]
   IN CompleteThisOp(NextParseState(Ascend(ending)))

\* The op in hand is complete.  On an error all scopes go; at module level the
\* parser then carries on behind the failed op.
CompleteOp(w0, status) ==
   With(CompleteThisOp([w0 EXCEPT !.scopes[1].argCount = @ - 1]), LAMBDA w :
   LET ascend(v) == Ret(IF HasCompletedScope(v) THEN PopScope(v) ELSE [v EXCEPT !.op = NoOp],
                        "OK")
   IN CASE status = "OK" -> ascend(w)
        [] status = "TRANSFER" -> Ret(w, "TRANSFER")
        [] status = "END" ->
             With(PopScope(w), LAMBDA p :
                                     ascend(IF IsNone(p.op) THEN p ELSE CloseOp(p)))
        [] status \in {"BREAK", "CONTINUE"} -> ascend(CloseOp(PopToWhile(w)))
        [] status = "TERMINATE" -> Ret(PopAll(w, TRUE), "OK")
        [] OTHER -> Ret(PopAll(w, FALSE), IF w.module THEN "OK" ELSE status))

\* The byte code is used up: the ops still open are ended, innermost first.
CompleteFinalOp(w0) ==
   LET RECURSIVE Go(_)
       Go(w) ==
         With(IF IsNone(w.op) \/ w.status # "OK" THEN w
              ELSE NextParseState(Ascend(
                     [w EXCEPT !.info = w.op.op, !.opcode = w.op.op])), LAMBDA ended :
         With(IF ended.status = "PENDING" THEN CompleteOp(ended, "OK") ELSE ended, LAMBDA cont :
         With(PopScope(CompleteThisOp(cont)), LAMBDA popped :
            IF ended.status = "PENDING" /\ cont.status # "OK" THEN cont
            ELSE IF IsNone(popped.op) THEN popped ELSE Go(popped))))
   IN Go(Ret(w0, "OK"))

----------------------------------------------------------------------------
(* psloop.c *)

GetArgList(w0) ==
   LET RECURSIVE Go(_)
       Go(w) == With(GetNextArg([w EXCEPT !.at = w.pc]), LAMBDA a :
                   IF w.argTypes = <<>> \/ w.argCount # 0 THEN Ret(w, "OK")
                   ELSE IF a.status # "OK" THEN a
                   ELSE Go([a EXCEPT !.op = AppendArg(@, a.arg), !.argTypes = Tail(@)]))
   IN Go(w0)

\* The body of a method, and in the load passes the contents of a named buffer
\* or package, are skipped: only their place is recorded.
GetArguments(w, start) ==
   IF w.op.op \in {"ByteConst", "WordConst", "DwordConst", "QwordConst", "String"}
   THEN With(GetNextSimpleArg(w, CurrentArg(w), w.op), LAMBDA a :
           [Ret(w, "OK") EXCEPT !.op = a.op, !.pc = a.pc])
   ELSE IF w.op.op = "NamePath"
   THEN With(GetNextNamepath(w, w.op, TRUE), LAMBDA n :
           IF n.status # "OK" THEN n ELSE [n EXCEPT !.op = n.arg[1], !.argTypes = <<>>])
   ELSE With(GetArgList(w), LAMBDA l :
           IF l.status # "OK" THEN l
           ELSE IF w.op.op = "Method"
           THEN [l EXCEPT !.op.data = <<l.pc, l.pkgEnd - l.pc>>, !.pc = l.pkgEnd, !.argCount = 0]
           ELSE IF /\ w.op.op \in {"Buffer", "Package", "VarPackage"}
                   /\ ParentOp(w).op = "Name" /\ w.pass <= 2
           THEN [l EXCEPT !.op.data = <<start, l.pkgEnd - start>>, !.pc = l.pkgEnd, !.argCount = 0]
           ELSE IF w.op.op = "While" /\ l.ctl # <<>>
           THEN [l EXCEPT !.ctl[1].end = l.pkgEnd] ELSE l)

\* A failure at module level skips the If or While, and the Else, it is in.
SkipControl(w) ==
   LET end == PackageEnd(w.ctl[1].start + 1)
   IN
   With(IF aml[end] = AmlOpcode.Else THEN PackageEnd(end + 1) ELSE end, LAMBDA after :
      [w EXCEPT !.pc = after, !.at = after, !.ctl = Tail(@)])

OpensScope(type) == type \in {"DEVICE", "LOCAL_SCOPE", "METHOD", "POWER", "PROCESSOR", "THERMAL"}

Opened(w) ==
   With(CreateOp(w), LAMBDA c :
   LET s == IF c.module /\ c.status \in {"ALREADY_EXISTS", "NOT_FOUND"} THEN "OK"
            ELSE IF c.status = "PARSE_PENDING" THEN "OK" ELSE c.status
   IN
   With(CompleteOp(c, s), LAMBDA closed :
   With(PackageEnd(closed.at + OpcodeSize(AmlOpcode[closed.opcode])), LAMBDA behind :
      IF c.status = "PARSE_CONTINUE" THEN Ret(c, "OK")
      ELSE IF c.status = "TERMINATE" THEN [c EXCEPT !.done = TRUE]
      ELSE IF closed.status # "OK" THEN [closed EXCEPT !.done = TRUE]
      ELSE IF OpensScope(OpObjectType(closed.opcode))
      THEN [closed EXCEPT !.pc = behind, !.at = behind] ELSE closed)))

\* The op in hand has all its arguments: fix its length and end it.
Ended(w0) ==
   LET w == [w0 EXCEPT !.info = w0.op.op, !.opcode = w0.op.op,
               !.op.data = IF w0.op.op \in CREATE \cup {"BankField", "OperationRegion",
                                                        "DataTableRegion"}
                           THEN <<@[1], w0.pc - @[1]>> ELSE @]
   IN
   With(NextParseState(Ascend(w)), LAMBDA n :
   LET s == IF n.status = "PENDING" THEN "OK"
            ELSE IF n.module /\ IsError(n.status) THEN "OK" ELSE n.status
   IN
   With(CompleteOp(n, s), LAMBDA c :
      IF c.status # "OK" THEN [c EXCEPT !.done = TRUE] ELSE c))

\* One turn of the loop of AcpiPsParseLoop, or its end (done).
ParseStep(w) ==
   LET opened == Opened(w)
   IN
   With(CreateOp(w), LAMBDA begun :
   With([(IF IsNone(w.op) THEN begun ELSE w) EXCEPT !.argCount = 0], LAMBDA cur :
   With(IF cur.argTypes = <<>> THEN Ret(cur, "OK")
        ELSE GetArguments(cur, w.pc), LAMBDA args :
   With(CompleteOp(args, args.status), LAMBDA failed :
      IF w.pc >= w.end /\ IsNone(w.op)
      THEN [CompleteFinalOp(w) EXCEPT !.done = TRUE]
      ELSE IF IsNone(w.op) /\ begun.status # "OK" THEN opened
      ELSE IF args.status # "OK"
      THEN IF failed.status # "OK" THEN [failed EXCEPT !.done = TRUE]
           ELSE [(IF failed.ctl # <<>> /\ failed.ctl[1].opcode \in {"If", "While"}
                  THEN SkipControl(failed) ELSE failed) EXCEPT !.op = NoOp]
      ELSE IF args.argCount # 0 THEN PushScope(args)
      ELSE Ended(args)))))
=============================================================================
