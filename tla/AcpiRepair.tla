----------------------------- MODULE AcpiRepair -----------------------------
(***************************************************************************)
(* Checking and repairing what a predefined name returned: nspredef.c,     *)
(* nsprepkg.c, nsrepair.c, nsrepair2.c and nsconvert.c.                    *)
(*                                                                         *)
(* An object is [t, n, s, e]: its type, the value of an integer, the bytes *)
(* of a string or buffer, the elements of a package.  A reference has      *)
(* n = 1 when it names a node.  NULL has type "none".  Warnings and the    *)
(* flag that silences them are left out, and so are reference counts.      *)
(***************************************************************************)
EXTENDS AmlValue, FiniteSets, Binding, TLC

-----------------------------------------------------------------------------
(***************************************************************************)
(* The table of predefined names (acpredef.h): for each, the types of      *)
(* object it may return and, for a package, the package's shape.           *)
(***************************************************************************)

INT == {"int"}
STR == {"str"}
BUF == {"buf"}
PKG == {"pkg"}
REF == {"ref"}
ALL == INT \cup STR \cup BUF \cup PKG \cup REF \cup {"none"}

\* PACKAGE_INFO: type1 count1 times, type2 count2 times; the shapes that list
\* their types one by one have them in each and the type of the rest in tail.
Shape(kind, type1, count1, type2, count2, each, tail) ==
   [kind |-> kind, type1 |-> type1, count1 |-> count1, type2 |-> type2, count2 |-> count2,
    each |-> each, tail |-> tail]
NoShape == Shape("none", {}, 0, {}, 0, <<>>, {})

Returns(types) == [btypes |-> types, shape |-> NoShape]
Package(kind, type1, count1, type2, count2) ==
   [btypes |-> PKG, shape |-> Shape(kind, type1, count1, type2, count2, <<>>, {})]
Each(kind, each, tail) == [btypes |-> PKG, shape |-> Shape(kind, {}, 0, {}, 0, each, tail)]
OrPackage(types, package) == [package EXCEPT !.btypes = @ \cup types]

Of(names, entry) == [n \in names |-> entry]

Names_AC0_BPS ==
   Of({"_AC0", "_AC1", "_AC2", "_AC3", "_AC4", "_AC5", "_AC6", "_AC7", "_AC8", "_AC9", "_ADR", "_ALC",
       "_ALI", "_ALP", "_ALT", "_BBN", "_BCT", "_BDN", "_BMA", "_BMS"}, Returns(INT))
   @@ Of({"_AEI"}, Returns(BUF))
   @@ Of({"_AL0", "_AL1", "_AL2", "_AL3", "_AL4", "_AL5", "_AL6", "_AL7", "_AL8", "_AL9"}, Package("var",
       REF, 0, {}, 0))
   @@ Of({"_ALR"}, Package("list", INT, 2, {}, 0))
   @@ Of({"_ART"}, Package("rev_fixed", REF, 2, INT, 11))
   @@ Of({"_BCL"}, Package("var", INT, 0, {}, 0))
   @@ Of({"_BCM", "_BFS", "_BLT", "_BMC"}, Returns({}))
   @@ Of({"_BIF"}, Package("fixed", INT, 9, STR, 4))
   @@ Of({"_BIX"}, Package("custom", INT, 16, STR, 4))
   @@ Of({"_BMD", "_BPS"}, Package("fixed", INT, 5, {}, 0))
   @@ Of({"_BPC"}, Package("fixed", INT, 4, {}, 0))

Names_BPT_ERR ==
   Of({"_BPT", "_BQC", "_BTM", "_CBA", "_CCA", "_CDM", "_CR3", "_CRT", "_CWS", "_DCK", "_DCS", "_DGS",
       "_DSC", "_EC_", "_ERR"}, Returns(INT))
   @@ Of({"_BST"}, Package("fixed", INT, 4, {}, 0))
   @@ Of({"_BTH", "_BTP", "_DIS", "_DOS", "_DSS", "_DSW", "_DTI", "_EJ0", "_EJ1", "_EJ2", "_EJ3", "_EJ4"},
       Returns({}))
   @@ Of({"_CBR", "_CLS"}, Package("fixed", INT, 3, {}, 0))
   @@ Of({"_CID"}, OrPackage(INT \cup STR, Package("var", INT \cup STR, 0, {}, 0)))
   @@ Of({"_CPC"}, Package("var", INT \cup BUF, 0, {}, 0))
   @@ Of({"_CRS", "_DMA"}, Returns(BUF))
   @@ Of({"_CSD"}, Package("count", INT, 0, {}, 0))
   @@ Of({"_CST"}, Package("pkg_count", BUF, 1, INT, 3))
   @@ Of({"_DDC"}, Returns(INT \cup BUF))
   @@ Of({"_DDN", "_EJD"}, Returns(STR))
   @@ Of({"_DEP", "_EDL"}, Package("var", REF, 0, {}, 0))
   @@ Of({"_DLM"}, Package("fix_var", REF, 1, REF \cup BUF, 0))
   @@ Of({"_DOD"}, Package("var", INT, 0, {}, 0))
   @@ Of({"_DSD"}, Package("uuid_pair", BUF, 1, PKG, 1))
   @@ Of({"_DSM"}, Returns(ALL))

Names_EVT_MSM ==
   Of({"_EVT", "_FDM", "_FSL", "_GTS", "_INI", "_IRC", "_LCK", "_MSG"}, Returns({}))
   @@ Of({"_FDE", "_FIT", "_GRT", "_GTF", "_GTM", "_HMA", "_MAT"}, Returns(BUF))
   @@ Of({"_FDI"}, Package("fixed", INT, 16, {}, 0))
   @@ Of({"_FIF", "_HPP"}, Package("fixed", INT, 4, {}, 0))
   @@ Of({"_FIX"}, Package("var", INT, 0, {}, 0))
   @@ Of({"_FPS"}, Package("rev_fixed", INT, 5, {}, 0))
   @@ Of({"_FST", "_LSI"}, Package("fixed", INT, 3, {}, 0))
   @@ Of({"_GAI", "_GCP", "_GHL", "_GLK", "_GPD", "_GPE", "_GSB", "_GWS", "_HOT", "_HRV", "_IFT", "_LID",
       "_LSW", "_MSM"}, Returns(INT))
   @@ Of({"_HID"}, Returns(INT \cup STR))
   @@ Of({"_HPX"}, Package("min", INT, 5, {}, 0))
   @@ Of({"_LPD"}, Package("rev_fixed", INT, 2, {}, 0))
   @@ Of({"_LPI"}, Package("var_var", INT, 3, INT \cup BUF \cup STR, 10))
   @@ Of({"_LSR"}, Package("fixed", INT, 1, BUF, 1))
   @@ Of({"_MBM"}, Package("fixed", INT, 8, {}, 0))
   @@ Of({"_MLS"}, Package("list", STR, 1, BUF, 1))

Names_MTL_PSD ==
   Of({"_MTL", "_NTT", "_PAI", "_PDL", "_PMM", "_PPC", "_PPE", "_PSC"}, Returns(INT))
   @@ Of({"_NBS", "_NCH", "_NIC", "_NIG", "_NIH", "_OSC", "_PRS"}, Returns(BUF))
   @@ Of({"_OFF", "_ON_", "_OST", "_PDC", "_PIC", "_PS0", "_PS1", "_PS2", "_PS3"}, Returns({}))
   @@ Of({"_OS_"}, Returns(STR))
   @@ Of({"_PCL", "_PMD", "_PR0", "_PR1", "_PR2", "_PR3", "_PRE", "_PRL"}, Package("var", REF, 0, {}, 0))
   @@ Of({"_PCT"}, Package("fixed", BUF, 2, {}, 0))
   @@ Of({"_PIF"}, Package("fixed", INT, 3, STR, 3))
   @@ Of({"_PLD"}, Package("var", BUF, 0, {}, 0))
   @@ Of({"_PMC"}, Package("fixed", INT, 11, STR, 3))
   @@ Of({"_PRR"}, Package("fixed", REF, 1, {}, 0))
   @@ Of({"_PRT"}, Each("list_fixed", <<INT, INT, INT \cup REF, INT>>, {}))
   @@ Of({"_PRW"}, Each("option", <<INT \cup PKG, INT>>, REF))
   @@ Of({"_PSD"}, Package("count", INT, 0, {}, 0))

Names_PSE_SEG ==
   Of({"_PSE", "_PSW", "_PTS", "_REG", "_RST", "_SCP", "_SDD"}, Returns({}))
   @@ Of({"_PSL"}, Package("var", REF, 0, {}, 0))
   @@ Of({"_PSR", "_PSV", "_PTP", "_PXM", "_REV", "_RMV", "_RTV", "_S1D", "_S2D", "_S3D", "_S4D", "_S0W",
       "_S1W", "_S2W", "_S3W", "_S4W", "_SBS", "_SEG"}, Returns(INT))
   @@ Of({"_PSS"}, Package("list", INT, 6, {}, 0))
   @@ Of({"_PTC"}, Package("fixed", BUF, 2, {}, 0))
   @@ Of({"_PUR"}, Package("fixed", INT, 2, {}, 0))
   @@ Of({"_RDI"}, Package("var_var", INT, 1, REF, 0))
   @@ Of({"_ROM"}, Returns(BUF))
   @@ Of({"_S0_", "_S1_", "_S2_", "_S3_", "_S4_", "_S5_"}, Package("var", INT, 1, {}, 0))
   @@ Of({"_SBA"}, Package("fixed", INT, 4, {}, 0))
   @@ Of({"_SBI"}, Package("fixed", INT, 1, BUF, 1))
   @@ Of({"_SBR", "_SBT"}, Package("fixed", INT, 2, BUF \cup INT, 1))
   @@ Of({"_SBW"}, Package("fixed", BUF \cup INT, 1, {}, 0))

Names_SHL_VPO ==
   Of({"_SHL", "_SPD", "_SRT", "_SRV", "_STA", "_STP", "_STV", "_SUN", "_SWS", "_TC1", "_TC2", "_TDL",
       "_TFP", "_TIP", "_TIV", "_TMP", "_TPC", "_TSP", "_TST", "_TZP", "_UPD", "_UPP", "_VPO"},
       Returns(INT))
   @@ Of({"_SLI", "_STR"}, Returns(BUF))
   @@ Of({"_SRS", "_SST", "_STM", "_TPT", "_TTS"}, Returns({}))
   @@ Of({"_SUB"}, Returns(STR))
   @@ Of({"_TRT"}, Package("list", REF, 2, INT, 6))
   @@ Of({"_TSD"}, Package("count", INT, 5, {}, 0))
   @@ Of({"_TSN", "_TZM"}, Returns(REF))
   @@ Of({"_TSS"}, Package("list", INT, 5, {}, 0))
   @@ Of({"_TZD"}, Package("var", REF, 0, {}, 0))
   @@ Of({"_UID"}, Returns(INT \cup STR))
   @@ Of({"_UPC"}, Package("fixed", INT, 4, {}, 0))

Predefined ==
   Names_AC0_BPS @@ Names_BPT_ERR @@ Names_EVT_MSM @@ Names_MTL_PSD @@ Names_PSE_SEG @@ Names_SHL_VPO

\* AcpiUtMatchPredefinedMethod finds an entry for these names and no other.
IsPredefined(name) == name \in DOMAIN Predefined

-----------------------------------------------------------------------------

CONSTANTS Paths,        \* the strings AcpiNsLookup resolves from the name's scope
          PssBeside     \* whether _PSS stands beside _TSS

Object(t, n, s, e) == [t |-> t, n |-> n, s |-> s, e |-> e]
NULL == Object("none", 0, <<>>, <<>>)
Integer(n) == Object("int", n, <<>>, <<>>)
Str(s) == Object("str", 0, s, <<>>)
Buf(s) == Object("buf", 0, s, <<>>)
Pkg(e) == Object("pkg", 0, <<>>, e)
Ref(named) == Object("ref", IF named THEN 1 ELSE 0, <<>>, <<>>)

Zeroes(n) == [i \in 1..n |-> 0]

\* The object a value of AmlValue stands for.
AsObject(v) == IF v.type = "STRING" THEN Str(v.val) ELSE Buf(v.val)

OK(o) == [st |-> "OK", o |-> o]
TypeError(o) == [st |-> "TYPE", o |-> o]
ValueError(o) == [st |-> "VALUE", o |-> o]

NotElement == -1     \* ACPI_NOT_PACKAGE_ELEMENT
AllElements == -2    \* ACPI_ALL_PACKAGE_ELEMENTS

----------------------------------------------------------------------------
(* nsconvert.c: the new object, NULL when the old one stays, or an error.  *)

NsConvertToInteger(o) ==
   CASE o.t = "str" /\ Strtoul64(o.s).status = "OK" -> OK(Integer(Strtoul64(o.s).value))
     [] o.t = "buf" /\ Len(o.s) <= WordBytes ->
           OK(Integer(LittleEndianValue(o.s)))
     [] OTHER -> TypeError(o)

NsConvertToString(o) ==
   CASE o.t = "int" -> OK(IF o.n = 0 THEN Str(<<>>) ELSE AsObject(ConvertToString(Num(o.n), "IMPLICIT")))
     [] o.t = "buf" -> OK(Str(CString(o.s)))
     [] OTHER -> TypeError(o)

NsConvertToBuffer(o) ==
   CASE o.t = "int" -> OK(AsObject(ConvertToBuffer(Num(o.n))))
     [] o.t = "str" -> OK(Buf(o.s))
     [] o.t = "pkg" /\ \A i \in DOMAIN o.e : o.e[i].t = "int" ->
           OK(Buf(FlattenSeq([i \in DOMAIN o.e |-> IntegerBytesOf(o.e[i].n, 4)])))
     [] OTHER -> TypeError(o)

\* A buffer with room for a character stays; a string becomes 16-bit characters.
NsConvertToUnicode(o) ==
   CASE o.t = "none" -> OK(NULL)
     [] o.t = "buf" -> IF Len(o.s) < 2 THEN ValueError(o) ELSE OK(NULL)
     [] OTHER -> OK(Buf(FlattenSeq([i \in DOMAIN o.s |-> <<o.s[i], 0>>]) \o Zeroes(2)))

\* No resources: an end tag.
NsConvertToResource(o) ==
   CASE o.t = "buf" /\ o.s # <<>> -> OK(NULL)
     [] o.t \in {"none", "buf"} \/ (o.t = "int" /\ o.n = 0) -> OK(Buf(<<121, 0>>))
     [] OTHER -> TypeError(o)

NsConvertToReference(o) == IF o.s \in Paths THEN OK(Ref(TRUE)) ELSE [st |-> "NOT_FOUND", o |-> o]

----------------------------------------------------------------------------
(* nsrepair.c *)

\* AcpiObjectRepairInfo: the types repaired, the place in the package, the converter.
RepairInfo(name) ==
   CASE name \in {"_CRS", "_DMA", "_PRS"} -> [types |-> INT \cup STR \cup BUF \cup {"none"}, index |-> NotElement, to |-> "resource"]
     [] name = "_DEP" -> [types |-> STR, index |-> AllElements, to |-> "reference"]
     [] name = "_MLS" -> [types |-> STR, index |-> 1, to |-> "unicode"]
     [] name = "_STR" -> [types |-> STR \cup BUF, index |-> NotElement, to |-> "unicode"]
     [] OTHER -> [types |-> {}, index |-> NotElement, to |-> "none"]

MatchSimpleRepair(name, btype, index) ==
   LET r == RepairInfo(name) IN btype \in r.types /\ (r.index = AllElements \/ r.index = index)

ObjectConverter(name, o) ==
   LET to == RepairInfo(name).to
   IN CASE to = "resource" -> NsConvertToResource(o)
        [] to = "reference" -> NsConvertToReference(o)
        [] to = "unicode" -> NsConvertToUnicode(o)

NsRepairNullElement(expected) ==
   CASE "int" \in expected -> OK(Integer(0))
     [] "str" \in expected -> OK(Str(<<>>))
     [] "buf" \in expected -> OK(Buf(<<>>))
     [] OTHER -> TypeError(NULL)

NsWrapWithPackage(o) == Pkg(<<o>>)

\* The first conversion to an expected type that succeeds.
Converted(o, expected) ==
   LET try(type, r) == IF type \in expected /\ r.st = "OK" THEN <<r>> ELSE <<>>
   IN
   With(try("int", NsConvertToInteger(o)) \o try("str", NsConvertToString(o))
        \o try("buf", NsConvertToBuffer(o)), LAMBDA all :
      IF all # <<>> THEN all[1]
      ELSE IF "pkg" \in expected THEN OK(NsWrapWithPackage(o)) ELSE TypeError(o))

NsSimpleRepair(name, o, expected, index) ==
   With(ObjectConverter(name, o), LAMBDA c :
   LET null == NsRepairNullElement(expected)
   IN IF MatchSimpleRepair(name, o.t, index) /\ c.st # "OK" THEN c
      ELSE IF MatchSimpleRepair(name, o.t, index) /\ c.o # NULL THEN c
      ELSE IF o.t \in expected THEN OK(o)
      ELSE IF o.t = "none" THEN IF index # NotElement THEN null ELSE TypeError(o)
      ELSE Converted(o, expected))

NsRemoveNullElements(kind, e) ==
   IF kind \in {"var", "list", "count", "pkg_count", "list_fixed", "min", "rev_fixed", "fix_var"}
   THEN SelectSeq(e, LAMBDA x : x.t # "none") ELSE e

----------------------------------------------------------------------------
(* nspredef.c and nsprepkg.c *)

NsCheckReference(o) == IF o.n = 1 THEN OK(o) ELSE TypeError(o)

\* Any failure is reported as a wrong type.
NsCheckObjectType(name, o, expected, index) ==
   IF o.t = "other" THEN TypeError(o)
   ELSE IF o.t = "ref" /\ "ref" \in expected THEN NsCheckReference(o)
   ELSE With(NsSimpleRepair(name, o, expected, index), LAMBDA r :
           IF r.st = "OK" THEN r ELSE TypeError(o))

\* Elements first, first + 1, ... checked against types, up to the first that
\* fails; the ones before it are repaired in place.
CheckFrom(name, e, first, types) ==
   LET RECURSIVE Go(_, _)
       Go(i, es) ==
          IF i > Len(types) THEN [st |-> "OK", o |-> es]
          ELSE LET k == first + i - 1
               IN
               With(NsCheckObjectType(name, es[k], types[i], k - 1), LAMBDA r :
                  IF r.st = "OK" THEN Go(i + 1, [es EXCEPT ![k] = r.o]) ELSE [st |-> r.st, o |-> es])
   IN Go(1, e)

Times(type, n) == [i \in 1..n |-> type]

\* AcpiNsCheckPackageElements: count1 elements of one type, then more of another.
TwoTypes(shape, count2) == Times(shape.type1, shape.count1) \o Times(shape.type2, count2)

\* The length a subpackage must have, and what its elements are checked against.
SubLength(shape, sub) ==
   CASE shape.kind \in {"list", "pkg_count", "rev_fixed", "fix_var"} -> shape.count1 + shape.count2
     [] shape.kind = "list_fixed" -> Len(shape.each)
     [] shape.kind = "min" -> shape.count1
     [] OTHER -> 0

\* PTYPE2_COUNT: the first element counts the elements; 0 is replaced by their number.
CheckCounted(name, shape, sub) ==
   With(CheckFrom(name, sub.e, 1, <<INT>>), LAMBDA r :
   With(r.o[1].n, LAMBDA count :
   LET es == IF count = 0 THEN [r.o EXCEPT ![1] = Integer(Len(sub.e))] ELSE r.o
   IN
   With(CheckFrom(name, es, 2, Times(shape.type1, (IF count = 0 THEN Len(sub.e) ELSE count) - 1)), LAMBDA rest :
      IF sub.e = <<>> THEN [st |-> "UNDEFINED", o |-> sub]
      ELSE IF r.st # "OK" THEN [st |-> r.st, o |-> Pkg(r.o)]
      ELSE IF Len(sub.e) < count \/ Len(sub.e) < shape.count1 THEN ValueError(Pkg(r.o))
      ELSE [st |-> rest.st, o |-> Pkg(rest.o)])))

SubTypes(shape, length) ==
   CASE shape.kind \in {"list", "pkg_count", "rev_fixed"} -> TwoTypes(shape, shape.count2)
     [] shape.kind = "fix_var" -> TwoTypes(shape, length - shape.count1)
     [] shape.kind = "list_fixed" -> shape.each
     [] shape.kind = "min" -> Times(shape.type1, length)

CheckSubPackage(name, shape, sub) ==
   With(CheckFrom(name, sub.e, 1, SubTypes(shape, Len(sub.e))), LAMBDA r :
      IF shape.kind = "count" THEN CheckCounted(name, shape, sub)
      ELSE IF Len(sub.e) < SubLength(shape, sub) THEN ValueError(sub)
      ELSE [st |-> r.st, o |-> Pkg(r.o)])

\* The elements of a sub-object are taken before its type is checked, so an
\* object that is no package makes what follows undefined.
NsCheckPackageList(name, shape, e, first, count) ==
   LET RECURSIVE Go(_, _)
       Go(i, es) ==
          IF i > count THEN [st |-> "OK", o |-> es]
          ELSE LET k == first + i - 1
               IN
               With(CheckSubPackage(name, shape, es[k]), LAMBDA r :
               With([es EXCEPT ![k] = r.o], LAMBDA new :
                  IF es[k].t # "pkg" THEN [st |-> "UNDEFINED", o |-> es]
                  ELSE IF r.st = "OK" THEN Go(i + 1, new) ELSE [st |-> r.st, o |-> new]))
   IN Go(1, e)

\* _BIX: 16 integers and 4 strings after version 0, and an integer more later.
NsCustomPackage(name, e) ==
   LET expected == IF e[1].n = 0 THEN 20 ELSE 21
   IN
   With(CheckFrom(name, e, 1, Times(INT, 16) \o Times(STR, 4)), LAMBDA r :
      IF e[1].t # "int" THEN TypeError(e)
      ELSE IF Len(e) < expected THEN ValueError(e)
      ELSE IF r.st = "OK" /\ e[1].n > 0 THEN CheckFrom(name, r.o, 21, <<INT>>) ELSE r)

\* _DSD: a UUID of 16 bytes before each package.
CheckPairs(name, shape, e) ==
   LET RECURSIVE Go(_, _)
       Go(k, es) ==
          IF k > Len(es) THEN [st |-> "OK", o |-> es]
          ELSE With(CheckFrom(name, es, k, <<shape.type1>>), LAMBDA a :
               With(CheckFrom(name, a.o, k + 1, <<shape.type2>>), LAMBDA b :
                  IF a.st # "OK" THEN a
                  ELSE IF Len(a.o[k].s) # 16 THEN ValueError(a.o)
                  ELSE IF b.st # "OK" THEN b ELSE Go(k + 2, b.o)))
   IN IF Len(e) % 2 = 1 THEN ValueError(e) ELSE Go(1, e)

Lists == {"list", "list_fixed", "min", "count", "fix_var"}

\* A counted or plain list of packages; a list whose first element is no
\* package is taken for one of its subpackages and wrapped.
CheckLists(name, shape, e) ==
   LET kind == shape.kind
   IN
   With(CheckFrom(name, e, 1, <<INT>>), LAMBDA head :
   With(head.o[1].n, LAMBDA number :
   LET wrap == e[1].t \notin {"none", "pkg"}
       es == IF wrap THEN <<Pkg(e)>> ELSE e
   IN IF kind \notin Lists /\ head.st # "OK" THEN head
      ELSE IF kind = "pkg_count" /\ number >= Len(e) THEN ValueError(head.o)
      ELSE NsCheckPackageList(name, shape, IF kind \in Lists THEN es ELSE head.o,
                              IF kind \in Lists THEN 1 ELSE 2,
                              CASE kind \in Lists -> Len(es)
                                [] kind = "rev_fixed" -> Len(e) - 1
                                [] kind = "pkg_count" -> number)))

\* AcpiNsCheckPackage: what the elements of a simple package are checked against.
PackageTypes(shape, length) ==
   CASE shape.kind = "fixed" -> TwoTypes(shape, shape.count2)
     [] shape.kind = "var" -> Times(shape.type1, length)
     [] shape.kind = "option" -> shape.each \o Times(shape.tail, length - Len(shape.each))

NsCheckPackage(name, o) ==
   With(Predefined[name].shape, LAMBDA shape :
   With(shape.kind, LAMBDA kind :
   With(NsRemoveNullElements(kind, o.e), LAMBDA e :
   LET small == CASE kind = "fixed" -> Len(e) < shape.count1 + shape.count2
                  [] kind = "option" -> Len(e) < Len(shape.each)
                  [] OTHER -> FALSE
   IN
   With(CASE kind = "custom" -> NsCustomPackage(name, e)
          [] kind \in {"fixed", "var", "option"} -> CheckFrom(name, e, 1, PackageTypes(shape, Len(e)))
          [] kind = "var_var" -> [st |-> "OK", o |-> e]
          [] kind = "uuid_pair" -> CheckPairs(name, shape, e)
          [] OTHER -> CheckLists(name, shape, e), LAMBDA r :
      IF e = <<>> THEN IF kind = "var" THEN OK(Pkg(e)) ELSE ValueError(Pkg(e))
      ELSE IF small THEN ValueError(Pkg(e))
      ELSE [st |-> r.st, o |-> Pkg(r.o)]))))

----------------------------------------------------------------------------
(* nsrepair2.c.  A repair runs even after a failed check; where it then    *)
(* takes one type of object for another the outcome is "UNDEFINED".        *)

Undefined(o) == [st |-> "UNDEFINED", o |-> o]

\* Whether the place read in a subpackage holds an integer.
HasInteger(sub, index) == sub.t = "pkg" /\ Len(sub.e) >= index /\ sub.e[index].t = "int"

\* Whether a before b breaks the order.
Wrong(order, a, b) == IF order = "ASCENDING" THEN a > b ELSE a < b

\* AcpiNsSortList: the bubble sort, from the end of the list, of elements first on.
NsSortList(e, first, index, order) ==
   LET Swap(s, j) == IF Wrong(order, s[j - 1].e[index].n, s[j].e[index].n)
                     THEN [s EXCEPT ![j - 1] = s[j], ![j] = s[j - 1]] ELSE s
       Pass(s, i) == FoldLeft(Swap, s, [k \in 1..(Len(e) - i) |-> Len(e) + 1 - k])
   IN FoldLeft(Pass, e, [k \in 1..(Len(e) - first) |-> first + k - 1])

\* AcpiNsCheckSortedList: the first place out of order sorts the list.
NsCheckSortedList(o, first, expected, index, order) ==
   LET e == o.e
       place == first..Len(e)
       bad == {k \in place : e[k].t # "pkg" \/ Len(e[k].e) < expected \/ ~HasInteger(e[k], index)}
       out == {k \in place \ {first} : HasInteger(e[k - 1], index) /\ HasInteger(e[k], index)
                                       /\ Wrong(order, e[k - 1].e[index].n, e[k].e[index].n)}
       sub == e[Min(bad)]
   IN CASE o.t # "pkg" -> TypeError(o)
        [] o.t = "pkg" /\ Len(e) < first -> [st |-> "LIMIT", o |-> o]
        [] o.t = "pkg" /\ bad # {} /\ (out = {} \/ Min(bad) <= Min(out)) ->
              IF sub.t = "none" THEN Undefined(o)
              ELSE IF sub.t # "pkg" THEN TypeError(o)
              ELSE IF Len(sub.e) < expected THEN [st |-> "LIMIT", o |-> o]
              ELSE IF sub.e[index].t = "none" THEN Undefined(o) ELSE TypeError(o)
        [] o.t = "pkg" /\ Len(e) >= first /\ out # {} /\ (bad = {} \/ Min(out) < Min(bad)) ->
              IF \E k \in place : ~HasInteger(e[k], index) THEN Undefined(o)
              ELSE OK(Pkg(NsSortList(e, first, index, order)))
        [] OTHER -> OK(o)

\* _FDE and _GTM: five bytes become five dwords.
Repair_FDE(o) ==
   IF o.t # "buf" THEN TypeError(o)
   ELSE IF Len(o.s) >= 20 THEN OK(o)
   ELSE IF Len(o.s) # 5 THEN TypeError(o)
   ELSE OK(Buf(FlattenSeq([i \in 1..5 |-> <<o.s[i]>> \o Zeroes(3)])))

ToUpper(c) == IF c \in 97..122 THEN c - 32 ELSE c
Asterisk == 42

\* _HID: without a leading asterisk, in upper case up to the first NUL.
Repair_HID(o) ==
   LET source == IF o.s[1] = Asterisk THEN Tail(o.s) ELSE o.s
       text == CString(source)
   IN IF o.t # "str" \/ o.s = <<>> THEN OK(o)
      ELSE OK(Str([i \in DOMAIN text |-> ToUpper(text[i])] \o Zeroes(Len(source) - Len(text))))

Repair_CID(o) ==
   IF o.t = "pkg" THEN OK(Pkg([i \in DOMAIN o.e |-> Repair_HID(o.e[i]).o]))
   ELSE IF o.t = "str" THEN Repair_HID(o) ELSE OK(o)

\* _CST: empty states and states of type 0 are removed and the rest counted.
Repair_CST(o) ==
   LET states == Tail(o.e)
       kept == SelectSeq(states, LAMBDA c : c.e # <<>> /\ c.e[2].n # 0)
   IN IF o.e = <<>> \/ o.e[1].t # "int" THEN Undefined(o)
      ELSE IF \E i \in DOMAIN states : states[i].t # "pkg" \/ (states[i].e # <<>> /\ ~HasInteger(states[i], 2))
      THEN Undefined(o)
      ELSE NsCheckSortedList(Pkg(<<Integer(Len(kept))>> \o kept), 2, 4, 2, "ASCENDING")

\* Mutant: swapped whatever they are.
SwapAlways(o) ==
   LET Swapped(r) == IF Len(r.e) >= 4 THEN [r EXCEPT !.e[3] = r.e[4], !.e[4] = r.e[3]] ELSE r
   IN IF \E i \in DOMAIN o.e : o.e[i].t # "pkg" THEN Undefined(o)
      ELSE OK(Pkg([i \in DOMAIN o.e |-> Swapped(o.e[i])]))

\* _PRT: a source index that is no integer is swapped with the source.
Repair_PRT(o) ==
   LET Swapped(r) == IF Len(r.e) >= 4 /\ r.e[4].t # "int"
                     THEN [r EXCEPT !.e[3] = r.e[4], !.e[4] = r.e[3]] ELSE r
   IN IF \E i \in DOMAIN o.e : o.e[i].t # "pkg" THEN Undefined(o)
      ELSE OK(Pkg([i \in DOMAIN o.e |-> Swapped(o.e[i])]))

\* _PSS: then the power of every state is read.
Repair_PSS(o) ==
   With(NsCheckSortedList(o, 1, 6, 1, "DESCENDING"), LAMBDA r :
      IF r.st = "OK" /\ \E i \in DOMAIN r.o.e : ~HasInteger(r.o.e[i], 2) THEN Undefined(o) ELSE r)

Repair_TSS(o) == IF PssBeside THEN OK(o) ELSE NsCheckSortedList(o, 1, 5, 2, "DESCENDING")
Repair_ALR(o) == NsCheckSortedList(o, 1, 2, 2, "ASCENDING")

Repairable == {"_ALR", "_CID", "_CST", "_FDE", "_GTM", "_HID", "_PRT", "_PSS", "_TSS"}

\* AcpiNsComplexRepairs: the status of the check, or the one of the repair instead.
NsComplexRepairs(name, status, o) ==
   CASE name = "_ALR" -> Repair_ALR(o)
     [] name = "_CID" -> Repair_CID(o)
     [] name = "_CST" -> Repair_CST(o)
     [] name \in {"_FDE", "_GTM"} -> Repair_FDE(o)
     [] name = "_HID" -> Repair_HID(o)
     [] name = "_PRT" -> Repair_PRT(o)
     [] name = "_PSS" -> Repair_PSS(o)
     [] name = "_TSS" -> Repair_TSS(o)
     [] OTHER -> [st |-> status, o |-> o]

\* AcpiNsCheckReturnValue of a method or object that evaluated without an error.
\* checked: the object passed the check of its types, before any repair of the name's own.
NsCheckReturnValue(name, o) ==
   With(Predefined[name].btypes, LAMBDA types :
   With(NsCheckObjectType(name, o, types, NotElement), LAMBDA top :
   With(IF top.o.t = "pkg" THEN NsCheckPackage(name, top.o) ELSE top, LAMBDA package :
   LET final == NsComplexRepairs(name, package.st, package.o)
       Result(r, checked) == [st |-> r.st, o |-> r.o, checked |-> checked]
   IN IF ~IsPredefined(name) \/ types \in {{}, ALL} THEN Result(OK(o), FALSE)
      ELSE IF top.st # "OK" \/ top.o = NULL THEN Result(top, top.st = "OK")
      ELSE IF package.st \notin {"OK", "TYPE", "VALUE"} THEN Result(package, FALSE)
      ELSE Result(final, package.st = "OK"))))

-----------------------------------------------------------------------------
(***************************************************************************)
(* Objects one or two mistakes away from what a predefined name should     *)
(* return, checked twice: an element repaired in place is checked again    *)
(* when the name is evaluated again.                                       *)
(***************************************************************************)

CONSTANT TwiceWrong      \* the names whose object gets two mistakes

VARIABLES name, obj,     \* what was evaluated and its object
          wrong,         \* mistakes made so far
          last           \* the answer of the last check, and how many there were

vars == <<name, obj, wrong, last>>

\* One name for each entry of the table, and every name with a repair of its own.
Names == {CHOOSE n \in DOMAIN Predefined : Predefined[n] = e : e \in Range(Predefined)}
         \cup Repairable \cup {n \in DOMAIN Predefined : RepairInfo(n).to # "none"}

Letter == 97
Digit == 49
Instance(types) ==
   CASE "int" \in types -> Integer(1)
     [] "str" \in types -> Str(<<Letter>>)
     [] "buf" \in types -> Buf(<<1, 2>>)
     [] "ref" \in types -> Ref(TRUE)
     [] OTHER -> Pkg(<<>>)

\* What the table asks for.
RowOf(sh) ==
   CASE sh.kind = "list_fixed" -> Pkg([i \in DOMAIN sh.each |-> Instance(sh.each[i])])
     [] sh.kind = "count" -> Pkg(<<Integer(2), Instance(sh.type1)>>)
     [] OTHER -> Pkg([i \in 1..(sh.count1 + sh.count2) |-> Instance(IF i <= sh.count1 THEN sh.type1 ELSE sh.type2)])
PackageOf(sh) ==
   CASE sh.kind \in Lists -> Pkg(<<RowOf(sh), RowOf(sh)>>)
     [] sh.kind = "pkg_count" -> Pkg(<<Integer(2), RowOf(sh), RowOf(sh)>>)
     [] sh.kind = "rev_fixed" -> Pkg(<<Integer(0), RowOf(sh)>>)
     [] sh.kind = "option" -> Pkg([i \in 1..(Len(sh.each) + 1) |-> Instance(IF i > Len(sh.each) THEN sh.tail ELSE sh.each[i])])
     [] sh.kind = "uuid_pair" -> Pkg(<<Buf(Zeroes(16)), Instance(sh.type2)>>)
     [] sh.kind = "custom" -> Pkg([i \in 1..21 |-> IF i \in 17..20 THEN Str(<<Letter>>) ELSE Integer(1)])
     [] sh.kind = "var" -> Pkg(<<Instance(sh.type1), Instance(sh.type1)>>)
     [] OTHER -> RowOf(sh)
Sample(n) == With(Predefined[n], LAMBDA p :
                                       IF "pkg" \in p.btypes THEN PackageOf(p.shape) ELSE Instance(p.btypes))

\* Places in an object, and what firmware may leave there instead.
Deepest(o) == {i \in DOMAIN o.e : i <= 4}
Places(o) == {<<>>} \cup {<<i>> : i \in Deepest(o)}
             \cup UNION {{<<i, j>> : j \in Deepest(o.e[i])} : i \in Deepest(o)}
RECURSIVE Put(_, _, _)
Put(o, place, x) == IF place = <<>> THEN x ELSE [o EXCEPT !.e[Head(place)] = Put(@, Tail(place), x)]
RECURSIVE Get(_, _)
Get(o, place) == IF place = <<>> THEN o ELSE Get(o.e[Head(place)], Tail(place))

Faults == {NULL, Integer(0), Integer(2), Str(<<>>), Str(<<Digit>>), Str(<<Letter>>), Str(<<Asterisk, Letter>>), Buf(<<>>),
          Buf(<<1, 0, 3, 4, 5>>), Pkg(<<>>), Ref(TRUE), Ref(FALSE), Object("other", 0, <<>>, <<>>)}
Fewer == {NULL, Integer(0), Str(<<Digit>>), Ref(TRUE)}

Init == \E n \in Names :
   /\ name = n /\ obj = Sample(n)
   /\ wrong = 0 /\ last = [st |-> "NONE", o |-> NULL, checked |-> FALSE, times |-> 0]

MayErr == last.times = 0 /\ (wrong = 0 \/ (wrong = 1 /\ name \in TwiceWrong))

\* Something else stands at a place of the object.
Misplace ==
   /\ MayErr
   /\ \E p \in Places(obj) : \E x \in (IF wrong = 0 THEN Faults ELSE Fewer) : obj' = Put(obj, p, x)
   /\ wrong' = wrong + 1 /\ UNCHANGED <<name, last>>

\* A package is too short or too long.
Resize ==
   /\ MayErr
   /\ \E p \in Places(obj) :
         /\ Get(obj, p).t = "pkg"
         /\ \/ /\ Get(obj, p).e # <<>>
               /\ obj' = Put(obj, p, Pkg(Front(Get(obj, p).e)))
            \/ \E x \in Fewer \cup {Get(obj, p).e[i] : i \in DOMAIN Get(obj, p).e} :
                  obj' = Put(obj, p, Pkg(Append(Get(obj, p).e, x)))
   /\ wrong' = wrong + 1 /\ UNCHANGED <<name, last>>

\* AcpiNsCheckPackage looks at as many _CST states as the first element
\* declares, AcpiNsRepair_CST counts all there are.
Undeclared(n, o) ==
   LET e == SelectSeq(o.e, LAMBDA x : x.t # "none")
   IN n = "_CST" /\ o.t = "pkg" /\ e # <<>> /\ NsCheckObjectType(n, e[1], INT, 0).o.n < Len(e) - 1

\* Only a package keeps its repairs until the next evaluation.
Check ==
   /\ last.times = 0 \/ (last.times = 1 /\ last.st = "OK" /\ last.checked /\ last.o.t = "pkg" /\ obj.t = "pkg"
                          /\ ~Undeclared(name, last.o))
   /\ With(NsCheckReturnValue(name, obj), LAMBDA r :
         last' = [st |-> r.st, o |-> obj, checked |-> r.checked, times |-> last.times + 1] /\ obj' = r.o)
   /\ UNCHANGED <<name, wrong>>

Next == Misplace \/ Resize \/ Check
Spec == Init /\ [][Next]_vars

----------------------------------------------------------------------------
Fits(o, types) == o.t \in types /\ (o.t = "ref" => o.n = 1)
AllFit(e, places, types) == \A i \in places : Fits(e[i], types)

RowFits(sh, o) ==
   /\ o.t = "pkg"
   /\ CASE sh.kind = "list_fixed" -> Len(o.e) >= Len(sh.each) /\ \A i \in DOMAIN sh.each : Fits(o.e[i], sh.each[i])
        [] sh.kind = "min" -> Len(o.e) >= sh.count1 /\ AllFit(o.e, DOMAIN o.e, sh.type1)
        [] sh.kind = "count" -> /\ Len(o.e) >= sh.count1 /\ Fits(o.e[1], INT)
                                /\ o.e[1].n \in 1..Len(o.e) /\ AllFit(o.e, 2..(o.e[1].n), sh.type1)
        [] sh.kind = "fix_var" -> /\ Len(o.e) >= sh.count1 + sh.count2 /\ AllFit(o.e, 1..sh.count1, sh.type1)
                                  /\ AllFit(o.e, (sh.count1 + 1)..Len(o.e), sh.type2)
        [] OTHER -> /\ Len(o.e) >= sh.count1 + sh.count2 /\ AllFit(o.e, 1..sh.count1, sh.type1)
                    /\ AllFit(o.e, (sh.count1 + 1)..(sh.count1 + sh.count2), sh.type2)

PackageFits(sh, o) ==
   CASE sh.kind \in Lists -> o.e # <<>> /\ \A i \in DOMAIN o.e : RowFits(sh, o.e[i])
     [] sh.kind = "pkg_count" -> Fits(o.e[1], INT) /\ o.e[1].n < Len(o.e) /\ \A i \in 2..(o.e[1].n + 1) : RowFits(sh, o.e[i])
     [] sh.kind = "rev_fixed" -> Fits(o.e[1], INT) /\ \A i \in 2..Len(o.e) : RowFits(sh, o.e[i])
     [] sh.kind = "var" -> AllFit(o.e, DOMAIN o.e, sh.type1)
     [] sh.kind = "option" -> /\ Len(o.e) >= Len(sh.each)
                              /\ \A i \in DOMAIN o.e : Fits(o.e[i], IF i <= Len(sh.each) THEN sh.each[i] ELSE sh.tail)
     [] sh.kind = "uuid_pair" -> /\ Len(o.e) % 2 = 0
                                 /\ \A i \in DOMAIN o.e : IF i % 2 = 1 THEN Fits(o.e[i], BUF) /\ Len(o.e[i].s) = 16
                                                                       ELSE Fits(o.e[i], sh.type2)
     [] sh.kind = "custom" -> /\ Len(o.e) >= (IF o.e[1].n = 0 THEN 20 ELSE 21)
                              /\ \A i \in 1..(IF o.e[1].n = 0 THEN 20 ELSE 21) : Fits(o.e[i], IF i \in 17..20 THEN STR ELSE INT)
     [] sh.kind = "fixed" -> RowFits(sh, o)
     [] OTHER -> TRUE

\* What the names with repairs of their own promise beyond the table.
Sorted(e, first, index, order) == \A i \in (first + 1)..Len(e) : ~Wrong(order, e[i - 1].e[index].n, e[i].e[index].n)
OwnPromise(n, o) ==
   CASE n \in {"_CRS", "_DMA", "_PRS"} -> last.o.t # "pkg" => o.s # <<>>
     [] n = "_STR" -> last.o.t \in {"str", "buf"} => Len(o.s) >= 2
     [] n \in {"_FDE", "_GTM"} -> Len(o.s) >= 20
     [] n = "_HID" -> o.t = "str" => \A i \in DOMAIN o.s : o.s[i] \notin 97..122
     [] n = "_ALR" -> Sorted(o.e, 1, 2, "ASCENDING")
     [] n = "_PSS" -> Sorted(o.e, 1, 1, "DESCENDING")
     [] n = "_TSS" -> PssBeside \/ Sorted(o.e, 1, 2, "DESCENDING")
     [] n = "_CST" -> /\ o.e[1].n = Len(o.e) - 1 /\ Sorted(o.e, 2, 2, "ASCENDING")
                      /\ \A i \in 2..Len(o.e) : o.e[i].e[2].n # 0
     [] OTHER -> TRUE

\* When AcpiNsCheckReturnValue answers AE_OK (nspredef.c) the caller holds an
\* object of the shape the table gives the name, in the order and with the
\* counts its own repair promises, whatever the firmware returned: either the
\* object passed AcpiNsCheckPackage or was repaired until it does.  Left out are
\* the names of nsrepair2.c whose object failed that check, where the repair's
\* status replaces the one of the check, a _CST with undeclared states, and a _DEP that
\* is a bare string, which AcpiNsMatchSimpleRepair takes for a package's element.
CheckedConforms ==
   last.times > 0 /\ last.st = "OK" /\ last.checked /\ ~Undeclared(name, last.o)
      /\ (name = "_DEP" => last.o.t # "str") =>
      With(Predefined[name], LAMBDA p :
         Fits(obj, p.btypes) /\ (obj.t = "pkg" => PackageFits(p.shape, obj)) /\ OwnPromise(name, obj))

\* A name that is an object rather than a method keeps its package, repaired in
\* place; evaluating it again checks the repaired package.  Once the check has
\* passed the repairs have reached a fixed point: the second check answers AE_OK and changes nothing.
RepairStable == last.times = 2 => last.st = "OK" /\ obj = last.o
=============================================================================
