---------------------------- MODULE AcpiEvaluate ----------------------------
(***************************************************************************)
(* What crosses the interface of the interpreter: the arguments and the    *)
(* result of AcpiEvaluateObject (nsxfeval.c, nseval.c), the size of a      *)
(* result and its copy into the caller's buffer (utobject.c, utcopy.c),    *)
(* and the identifiers AcpiGetObjectInfo gathers (nsxfname.c, utids.c,     *)
(* uteval.c).                                                              *)
(*                                                                         *)
(* An object is [t, n, s, e]: type, integer, bytes, elements.  Memory the  *)
(* caller gets is [size, cells, overrun]: its cells are bytes and headers  *)
(* of external objects, and overrun says that something was written        *)
(* outside it.  Allocations succeed.                                       *)
(***************************************************************************)
EXTENDS Integers, Sequences, FiniteSets, SequencesExt, Binding

CONSTANTS ObjSize,       \* sizeof (ACPI_OBJECT)
          Word,          \* the native word
          NameSize,      \* length of a node's pathname with its terminator
          NumArgs,       \* ACPI_METHOD_NUM_ARGS, 7 in the code
          IdSize,        \* sizeof (ACPI_PNP_DEVICE_ID)
          InfoBase,      \* sizeof (ACPI_DEVICE_INFO)
          EisaIdSize, DecimalSize, ClsSize,   \* lengths of the strings made from numbers
          NoBuffer, AllocateBuffer,           \* the lengths with a meaning of their own
          PciRootIds                          \* the identifiers of a PCI root bridge

Object(t, n, s, e) == [t |-> t, n |-> n, s |-> s, e |-> e]
NULL == Object("NULL", 0, <<>>, <<>>)

RoundUp(n) == ((n + Word - 1) \div Word) * Word

----------------------------------------------------------------------------
(* utobject.c: the size of an external copy, [st, length] *)

UtGetSimpleObjectSize(o) ==
   LET Sized(extra) == [st |-> "OK", length |-> RoundUp(ObjSize + extra)]
   IN CASE o.t \in {"NULL", "INTEGER", "PROCESSOR", "POWER"} -> Sized(0)
        [] o.t = "NODE" -> [st |-> "INTERNAL", length |-> 0]
        [] o.t = "STRING" -> Sized(Len(o.s) + 1)
        [] o.t = "BUFFER" -> Sized(Len(o.s))
        [] o.t = "NAME" -> Sized(RoundUp(NameSize))
        [] OTHER -> [st |-> "TYPE", length |-> RoundUp(ObjSize)]

\* AcpiUtWalkPackageTree: the elements met, a package before its own.  Of an
\* empty package the element behind the last, a NULL, is met.
Elements(o) == IF o.e = <<>> THEN <<NULL>> ELSE o.e
RECURSIVE UtWalkPackageTree(_)
UtWalkPackageTree(o) ==
   FlattenSeq([i \in DOMAIN Elements(o) |->
      <<Elements(o)[i]>> \o (IF Elements(o)[i].t = "PACKAGE" THEN UtWalkPackageTree(Elements(o)[i]) ELSE <<>>)])

\* AcpiUtGetElementLength: a package only counts as one more.
UtGetElementLength(info, o) ==
   LET size == UtGetSimpleObjectSize(o)
   IN IF info.st # "OK" THEN info
      ELSE IF o.t = "PACKAGE" THEN [info EXCEPT !.packages = @ + 1]
      ELSE [info EXCEPT !.st = size.st, !.length = @ + size.length]

UtGetPackageObjectSize(o) ==
   With(FoldLeft(UtGetElementLength, [st |-> "OK", length |-> 0, packages |-> 1], UtWalkPackageTree(o)), LAMBDA info :
      [st |-> info.st, length |-> info.length + RoundUp(ObjSize) * info.packages])

UtGetObjectSize(o) == IF o.t = "PACKAGE" THEN UtGetPackageObjectSize(o) ELSE UtGetSimpleObjectSize(o)

----------------------------------------------------------------------------
(* utcopy.c: from internal to external *)

Zero == [k |-> "zero", t |-> "NULL", len |-> 0, ptr |-> 0, val |-> 0]
Header(t, len, ptr, val) == [k |-> "object", t |-> t, len |-> len, ptr |-> ptr, val |-> val]
Byte(b) == [k |-> "byte", t |-> "NULL", len |-> 0, ptr |-> 0, val |-> b]

Memory(size) == [size |-> size, cells |-> [a \in 0..(size - 1) |-> Zero], overrun |-> FALSE]

\* Cells written from an address on.
Write(m, at, cells) ==
   [m EXCEPT !.cells = [a \in DOMAIN @ |-> IF a \in at..(at + Len(cells) - 1) THEN cells[a - at + 1] ELSE @[a]],
             !.overrun = @ \/ at + Len(cells) > m.size]

Bytes(s) == [i \in DOMAIN s |-> Byte(s[i])]

\* AcpiUtCopyIsimpleToEsimple: [st, m, used].
UtCopyIsimpleToEsimple(m, o, at, data) ==
   LET Put(header, bytes, used) ==
          [st |-> "OK", used |-> used,
           m |-> Write(Write(m, at, <<header>> \o [i \in 1..(ObjSize - 1) |-> Zero]), data, Bytes(bytes))]
   IN CASE o.t = "NULL" -> [st |-> "OK", used |-> 0, m |-> m]
        [] o.t = "STRING" -> Put(Header("STRING", Len(o.s), data, 0), Append(o.s, 0), RoundUp(Len(o.s) + 1))
        [] o.t = "BUFFER" -> Put(Header("BUFFER", Len(o.s), data, 0), o.s, RoundUp(Len(o.s)))
        [] o.t \in {"INTEGER", "PROCESSOR", "POWER", "NAME"} -> Put(Header(o.t, 0, 0, o.n), <<>>, 0)
        [] o.t = "REF" -> [st |-> "TYPE", used |-> 0, m |-> m]
        [] OTHER -> [st |-> "SUPPORT", used |-> 0, m |-> m]

\* Mutant: the elements of a package inside the package get no space.
RECURSIVE CopyElementsTight(_, _, _)
CopyElementsTight(c, o, base) ==
   LET Step(x, i) ==
          LET element == Elements(o)[i]
              at == base + (i - 1) * ObjSize
          IN
          With(UtCopyIsimpleToEsimple(x.m, element, at, x.free), LAMBDA s :
          LET nested == [x EXCEPT !.m = Write(@, at, <<Header("PACKAGE", Len(element.e), x.free, 0)>>)]
          IN IF x.st # "OK" THEN x
             ELSE IF element.t = "PACKAGE" THEN CopyElementsTight(nested, element, x.free)
             ELSE [st |-> s.st, m |-> s.m, free |-> x.free + s.used])
   IN FoldLeft(Step, c, [i \in DOMAIN Elements(o) |-> i])

\* AcpiUtCopyIelementToEelement of every element met, the elements of o going to
\* base: [st, m, free], free being the first byte not used yet.
RECURSIVE UtCopyElements(_, _, _)
UtCopyElements(c, o, base) ==
   LET Step(x, i) ==
          LET element == Elements(o)[i]
              at == base + (i - 1) * ObjSize
          IN
          With(UtCopyIsimpleToEsimple(x.m, element, at, x.free), LAMBDA s :
          LET nested == [x EXCEPT !.m = Write(@, at, <<Header("PACKAGE", Len(element.e), x.free, 0)>>),
                                  !.free = @ + RoundUp(Len(element.e) * ObjSize)]
          IN IF x.st # "OK" THEN x
             ELSE IF element.t = "PACKAGE" THEN UtCopyElements(nested, element, x.free)
             ELSE [st |-> s.st, m |-> s.m, free |-> x.free + s.used])
   IN FoldLeft(Step, c, [i \in DOMAIN Elements(o) |-> i])

UtCopyIpackageToEpackage(m, o) ==
   LET first == RoundUp(ObjSize)
       top == Write(m, 0, <<Header("PACKAGE", Len(o.e), first, 0)>>)
   IN
   With(UtCopyElements([st |-> "OK", m |-> top, free |-> first + Len(o.e) * RoundUp(ObjSize)], o, first), LAMBDA c :
      [st |-> c.st, m |-> c.m, length |-> c.free])

\* AcpiUtCopyIobjectToEobject: [st, m, length], length being what is reported.
UtCopyIobjectToEobject(m, o) ==
   With(UtCopyIsimpleToEsimple(m, o, 0, RoundUp(ObjSize)), LAMBDA s :
      IF o.t = "PACKAGE" THEN UtCopyIpackageToEpackage(m, o)
      ELSE [st |-> s.st, m |-> s.m, length |-> s.used + ObjSize])

\* AcpiUtInitializeBuffer: [st, length, room].
UtInitializeBuffer(length, required) ==
   CASE length = NoBuffer -> [st |-> "BUFFER_OVERFLOW", length |-> required, room |-> 0]
     [] length = AllocateBuffer -> [st |-> "OK", length |-> required, room |-> required]
     [] OTHER -> [st |-> IF length < required THEN "BUFFER_OVERFLOW" ELSE "OK", length |-> required, room |-> length]

----------------------------------------------------------------------------
(* utcopy.c: from external to internal, [st, o] *)

UtCopyEsimpleToIsimple(x) ==
   CASE x.t \in {"STRING", "BUFFER", "INTEGER"} -> [st |-> "OK", o |-> x]
     [] x.t = "NAME" -> [st |-> "OK", o |-> [x EXCEPT !.t = "REF"]]
     [] x.t = "NULL" -> [st |-> "OK", o |-> NULL]
     [] OTHER -> [st |-> "SUPPORT", o |-> NULL]

RECURSIVE UtCopyEobjectToIobject(_)
UtCopyEobjectToIobject(x) ==
   LET all == [i \in DOMAIN x.e |-> UtCopyEobjectToIobject(x.e[i])]
       failed == SelectSeq(all, LAMBDA r : r.st # "OK")
   IN IF x.t # "PACKAGE" THEN UtCopyEsimpleToIsimple(x)
      ELSE IF failed # <<>> THEN [st |-> failed[1].st, o |-> NULL]
      ELSE [st |-> "OK", o |-> [x EXCEPT !.e = [i \in DOMAIN all |-> all[i].o]]]

----------------------------------------------------------------------------
(* nseval.c and nsxfeval.c.  A node is [type, result, st, needs]: what its *)
(* object or its method yields, with which status, and the arguments a     *)
(* method takes.  "held" lists what the call has allocated or references.  *)

Params(args) == [i \in 1..(IF Len(args) > NumArgs THEN NumArgs ELSE Len(args)) |-> UtCopyEobjectToIobject(args[i])]

\* The list of arguments ends at the first NULL.
ParamCount(params) ==
   LET nulls == {i \in DOMAIN params : params[i].t = "NULL"}
   IN IF nulls = {} THEN Len(params) ELSE (CHOOSE i \in nulls : \A j \in nulls : i <= j) - 1

NoValue == {"ANY", "DEVICE", "EVENT", "MUTEX", "REGION", "THERMAL", "SCOPE"}

\* AcpiNsEvaluate: [st, o].  A method that fails may leave an object behind,
\* which is dropped; one that misses an argument fails when it uses it.
NsEvaluate(node, count) ==
   CASE node.type = "MISSING" -> [st |-> "NOT_FOUND", o |-> NULL]
     [] node.type \in NoValue -> [st |-> "TYPE", o |-> NULL]
     [] node.type = "METHOD" /\ count < node.needs -> [st |-> "UNINITIALIZED_ARG", o |-> NULL]
     [] OTHER -> [st |-> node.st, o |-> IF node.st = "OK" THEN node.result ELSE NULL]

\* AcpiNsResolveReferences: a reference to an element or to an object.
NsResolveReferences(o) == IF o.t = "REF" /\ o.e # <<>> /\ o.e[1] # NULL THEN o.e[1] ELSE o

\* AcpiUtDeleteInternalObjectList drops the arguments up to the first NULL; those
\* behind it stay.
LeftArguments(params) ==
   LET made == SelectInSeq(params, LAMBDA p : p.st # "OK")
   IN
   With([i \in 1..(IF made = 0 THEN Len(params) ELSE made - 1) |-> params[i].o], LAMBDA list :
      {i \in DOMAIN list : i > ParamCount(list) /\ list[i] # NULL})

Answer(st, length, m, held) == [st |-> st, length |-> length, m |-> m, held |-> held]

\* AcpiEvaluateObject with a buffer of that length.
AcpiEvaluateObject(node, args, length) ==
   LET params == Params(args)
       bad == SelectSeq(params, LAMBDA p : p.st # "OK")
   IN
   With(NsEvaluate(node, ParamCount([i \in DOMAIN params |-> params[i].o])), LAMBDA r :
   LET o == NsResolveReferences(r.o)
   IN
   With(UtGetObjectSize(o), LAMBDA size :
   With(UtInitializeBuffer(length, size.length), LAMBDA b :
   With(UtCopyIobjectToEobject(Memory(b.room), o), LAMBDA c :
   With({"argument" : i \in LeftArguments(params)}, LAMBDA left :
   LET allocated == IF length = AllocateBuffer THEN {"buffer"} ELSE {}
   IN IF bad # <<>> THEN Answer(bad[1].st, length, Memory(0), left)
      ELSE IF r.o = NULL THEN Answer(r.st, 0, Memory(0), left)
      ELSE IF r.o.t = "NODE" THEN Answer("TYPE", 0, Memory(0), left)
      ELSE IF size.st # "OK" THEN Answer(size.st, length, Memory(0), left)
      ELSE IF b.st # "OK" THEN Answer(b.st, b.length, Memory(0), left)
      ELSE Answer(c.st, c.length, c.m, left \cup allocated))))))

\* AcpiEvaluateObjectTyped: a result of the wrong type is taken back.
AcpiEvaluateObjectTyped(node, args, length, type) ==
   With(AcpiEvaluateObject(node, args, length), LAMBDA a :
      IF a.st # "OK" \/ type = "ANY" THEN a
      ELSE IF a.length = 0 THEN [a EXCEPT !.st = "NULL_OBJECT"]
      ELSE IF a.m.cells[0].t = type THEN a
      ELSE Answer("TYPE", 0, Memory(0), a.held \ {"buffer"}))

----------------------------------------------------------------------------
(* uteval.c, utids.c and AcpiGetObjectInfo.  A device is a function from   *)
(* method names to what they yield, NULL when the device has none.         *)

\* AcpiUtEvaluateObject: [st, o].
UtEvaluateObject(device, name, types) ==
   LET o == device[name]
   IN IF o = NULL THEN [st |-> "NOT_FOUND", o |-> NULL]
      ELSE IF o.t \in types THEN [st |-> "OK", o |-> o] ELSE [st |-> "TYPE", o |-> NULL]

\* The characters of a number stand for the number.
FromInteger(n, length) == [i \in 1..length |-> IF i < length THEN n ELSE 0]
IdString(o, digits) == IF o.t = "INTEGER" THEN FromInteger(o.n, digits) ELSE Append(o.s, 0)

Id(r, digits) == IF r.st = "OK" THEN <<IdString(r.o, digits)>> ELSE <<>>

\* AcpiUtExecute_HID, _UID, _CLS: no string, or one with its terminator.
UtExecute_HID(device) == Id(UtEvaluateObject(device, "_HID", {"INTEGER", "STRING"}), EisaIdSize)
UtExecute_UID(device) == Id(UtEvaluateObject(device, "_UID", {"INTEGER", "STRING"}), DecimalSize)
UtExecute_CLS(device) ==
   LET r == UtEvaluateObject(device, "_CLS", {"PACKAGE"})
   IN IF r.st = "OK" THEN <<FromInteger(IF r.o.e # <<>> /\ r.o.e[1].t = "INTEGER" THEN r.o.e[1].n ELSE 0, ClsSize)>> ELSE <<>>

\* AcpiUtExecute_CID: the strings one after the other; any other type fails.
UtExecute_CID(device) ==
   LET r == UtEvaluateObject(device, "_CID", {"INTEGER", "STRING", "PACKAGE"})
   IN
   With(IF r.o.t = "PACKAGE" THEN r.o.e ELSE <<r.o>>, LAMBDA cids :
      IF r.st # "OK" \/ \E i \in DOMAIN cids : cids[i].t \notin {"INTEGER", "STRING"}
      THEN [st |-> "ERROR", ids |-> <<>>]
      ELSE [st |-> "OK", ids |-> [i \in DOMAIN cids |-> IdString(cids[i], EisaIdSize)]])

RECURSIVE TotalLength(_)
TotalLength(ids) == IF ids = <<>> THEN 0 ELSE Len(Head(ids)) + TotalLength(Tail(ids))

\* AcpiUtExecutePowerMethods: what is valid and the values, 255 where there is none.
UtExecutePowerMethods(device, names) ==
   LET r(i) == UtEvaluateObject(device, names[i], {"INTEGER"})
   IN [valid |-> \E i \in DOMAIN names : r(i).st = "OK",
       values |-> [i \in DOMAIN names |-> IF r(i).st = "OK" THEN r(i).o.n % 256 ELSE 255]]

UtIsPciRootBridge(id) == id \in PciRootIds

InfoSize(device) ==
   With(UtExecute_CID(device), LAMBDA cid :
      InfoBase + TotalLength(UtExecute_HID(device)) + TotalLength(UtExecute_UID(device))
      + (IF cid.st = "OK" THEN Len(cid.ids) * IdSize + TotalLength(cid.ids) ELSE 0) + TotalLength(UtExecute_CLS(device)))

\* AcpiNsCopyDeviceId of identifiers one after the other, from an address on.
CopyIds(m, ids, at) ==
   FoldLeft(LAMBDA x, id : [m |-> Write(x.m, x.at, Bytes(id)), at |-> x.at + Len(id)], [m |-> m, at |-> at], ids)

\* AcpiGetObjectInfo of a device: the memory, and where each identifier's string
\* begins, in the order hardware, unique, compatible, class.
AcpiGetObjectInfo(device) ==
   LET hid == UtExecute_HID(device)
       uid == UtExecute_UID(device)
   IN
   With(UtExecute_CID(device), LAMBDA cid :
   LET cls == UtExecute_CLS(device)
   IN
   With(hid \o uid \o cid.ids \o cls, LAMBDA ids :
   With(InfoBase + Len(cid.ids) * IdSize, LAMBDA strings :
   LET array == [i \in 1..(Len(cid.ids) * IdSize) |-> Zero]
       copy == CopyIds(Memory(InfoSize(device)), ids, strings)
   IN [m |-> Write(copy.m, InfoBase, array), ids |-> ids,
       starts |-> [i \in DOMAIN ids |-> strings + TotalLength(SubSeq(ids, 1, i - 1))],
       root |-> \E id \in Range(hid \o cid.ids) : UtIsPciRootBridge(id),
       adr |-> UtEvaluateObject(device, "_ADR", {"INTEGER"}).st = "OK",
       sxw |-> UtExecutePowerMethods(device, <<"_S1W">>)])))

-----------------------------------------------------------------------------
(***************************************************************************)
(* AcpiEvaluate over small objects: a caller asks for an object with a     *)
(* buffer of its own and asks again with the length it was told, or with   *)
(* a type, and another asks for what is known of a device.                 *)
(***************************************************************************)

CONSTANT MaxLength   \* of a buffer the caller brings

VARIABLES node,     \* what is evaluated
          args,     \* the caller's arguments
          device,   \* a device whose identifiers are asked for
          asked,    \* the length of the buffer, and how often it was tried
          answer    \* the last answer

vars == <<node, args, device, asked, answer>>

Integer(n) == Object("INTEGER", n, <<>>, <<>>)
Str(s) == Object("STRING", 0, s, <<>>)
Buf(s) == Object("BUFFER", 0, s, <<>>)
Pkg(e) == Object("PACKAGE", 0, <<>>, e)
Ref(e) == Object("REF", 0, <<>>, e)

Simple == {NULL, Integer(1), Str(<<>>), Str(<<1, 2>>), Buf(<<>>), Buf(<<1, 2, 3>>),
           Object("NAME", 1, <<>>, <<>>), Object("POWER", 1, <<>>, <<>>)}
Bad == {Object("NODE", 0, <<>>, <<>>), Object("METHOD", 0, <<>>, <<>>), Ref(<<>>)}
Lists(S, n) == UNION {[1..k -> S] : k \in 0..n}
Inner == {Pkg(e) : e \in Lists({NULL, Integer(2), Str(<<1>>), Pkg(<<>>), Pkg(<<Buf(<<1, 2>>)>>)}, 2)}
Packages == {Pkg(e) : e \in Lists({NULL, Integer(1), Str(<<1, 2>>), Ref(<<>>)} \cup Inner, 2)}
Results == Simple \cup Bad \cup Packages \cup {Ref(<<NULL>>), Ref(<<Integer(2)>>), Ref(<<Pkg(<<Integer(1)>>)>>)}

Node(type, result, st, needs) == [type |-> type, result |-> result, st |-> st, needs |-> needs]
Nodes == {Node("METHOD", o, "OK", 1) : o \in Results} \cup {Node("INTEGER", Integer(1), "OK", 0),
          Node("DEVICE", NULL, "OK", 0), Node("MISSING", NULL, "OK", 0), Node("METHOD", Integer(1), "AML_ERROR", 0)}
ArgLists == {<<Integer(1)>>, <<Str(<<1>>), Pkg(<<Integer(1), NULL>>), Integer(1)>>, <<>>, <<Object("POWER", 1, <<>>, <<>>)>>}

Ids == {NULL, Integer(3), Str(<<7>>), Str(<<1, 2>>)}
CidLists == Ids \cup {Pkg(e) : e \in Lists(Ids \ {NULL}, 2)} \cup {Pkg(<<Pkg(<<>>)>>)}
Devices == [{"_HID", "_UID", "_CID", "_CLS", "_ADR", "_S1W"} -> {NULL}]
           \cup {[x \in {"_HID", "_UID", "_CID", "_CLS", "_ADR", "_S1W"} |->
                    CASE x = "_HID" -> h [] x = "_UID" -> u [] x = "_CID" -> c [] x = "_CLS" -> l [] OTHER -> a] :
                 h \in Ids, u \in Ids, c \in CidLists, l \in {NULL, Pkg(<<Integer(1)>>), Pkg(<<>>)}, a \in {NULL, Integer(300)}}
NoDevice == [x \in {"_HID", "_UID", "_CID", "_CLS", "_ADR", "_S1W"} |-> NULL]

Nothing == Answer("NONE", 0, Memory(0), {})

Init ==
   /\ asked = [length |-> 0, tries |-> 0]
   /\ answer = Nothing
   /\ \/ node \in Nodes /\ args \in ArgLists /\ device = NoDevice
      \/ node = Node("DEVICE", NULL, "OK", 0) /\ args = <<>> /\ device \in Devices

Ask(length) ==
   /\ asked.tries = 0
   /\ asked' = [length |-> length, tries |-> 1]
   /\ answer' = AcpiEvaluateObject(node, args, length)
   /\ UNCHANGED <<node, args, device>>

AskTyped(type) ==
   /\ asked.tries = 0
   /\ asked' = [length |-> AllocateBuffer, tries |-> 1]
   /\ answer' = AcpiEvaluateObjectTyped(node, args, AllocateBuffer, type)
   /\ UNCHANGED <<node, args, device>>

Again ==
   /\ answer.st = "BUFFER_OVERFLOW"
   /\ asked' = [length |-> answer.length, tries |-> 2]
   /\ answer' = AcpiEvaluateObject(node, args, answer.length)
   /\ UNCHANGED <<node, args, device>>

Next ==
   \/ \E length \in {AllocateBuffer, NoBuffer} \cup {MaxLength \div 2, MaxLength} : Ask(length)
   \/ \E type \in {"ANY", "INTEGER", "PACKAGE"} : AskTyped(type)
   \/ Again

Spec == Init /\ [][Next]_vars
----------------------------------------------------------------------------
\* What the caller reads at an address.
RECURSIVE Read(_, _)
Read(m, at) ==
   LET h == m.cells[at]
   IN CASE h.t \in {"STRING", "BUFFER"} -> Object(h.t, 0, [i \in 1..h.len |-> m.cells[h.ptr + i - 1].val], <<>>)
        [] h.t = "PACKAGE" -> Pkg([i \in 1..h.len |-> Read(m, h.ptr + (i - 1) * ObjSize)])
        [] OTHER -> Object(h.t, h.val, <<>>, <<>>)

(* What AcpiEvaluateObject hands out is the object the method returned,    *)
(* read from a buffer nothing was written outside of, and never longer     *)
(* than the length the caller was told; the sizes of utobject.c and the    *)
(* copies of utcopy.c are two walks over the same tree.  A caller that     *)
(* brings the length it was told is not refused again.                     *)
CopyFits ==
   /\ asked.tries = 2 => answer.st # "BUFFER_OVERFLOW"
   /\ answer.st = "OK" /\ answer.length > 0 =>
        /\ ~ answer.m.overrun
        /\ answer.length <= answer.m.size
        /\ Read(answer.m, 0) = NsResolveReferences(node.result)

(* After AcpiEvaluateObject returns, the only thing still allocated is a   *)
(* buffer the caller asked for and was given; the arguments, the object    *)
(* and the buffer of a refused type are gone.                              *)
OnlyBufferLeft == answer.held # {} => answer.held = {"buffer"} /\ answer.st = "OK" /\ asked.length = AllocateBuffer

(* AcpiGetObjectInfo lays the identifiers of a device one after the other  *)
(* inside the block it allocated: none is cut, none lies over the array of *)
(* compatible identifiers and none over another.                           *)
InfoFits ==
   With(AcpiGetObjectInfo(device), LAMBDA info :
      /\ ~ info.m.overrun
      /\ \A i \in DOMAIN info.ids :
            /\ info.starts[i] >= InfoBase
            /\ \A k \in DOMAIN info.ids[i] : info.m.cells[info.starts[i] + k - 1] = Byte(info.ids[i][k]))
=============================================================================
