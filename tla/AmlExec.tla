------------------------------- MODULE AmlExec ------------------------------
(***************************************************************************)
(* Execution of control methods: the dispatcher's callbacks on top of the  *)
(* parser (dswexec.c, dscontrol.c, dsutils.c, dswstate.c, dsobject.c,      *)
(* dspkginit.c), operand resolution (exresop.c), the opcodes that compute  *)
(* (exoparg1.c, exoparg2.c, exoparg3.c, exoparg6.c) and the calls between  *)
(* methods (dsmethod.c, psparse.c).                                        *)
(*                                                                         *)
(* A walk state has, besides the fields of the parser and of the objects,  *)
(*   operands, results   the two stacks of pointers, top last              *)
(*   resultObj, returnDesc   of the op in hand; of the method              *)
(*   lastPredicate       of the last If                                    *)
(* The heap and the nodes are shared by the walk states of the thread.     *)
(* Names are bound before the method starts; opcodes that create names,    *)
(* take mutexes or touch fields are modelled in other modules.  The time a *)
(* While loop may take is counted in turns of the loop.                    *)
(***************************************************************************)
EXTENDS AmlParser, Binding, TLC, FiniteSets, AmlValue

-----------------------------------------------------------------------------
(***************************************************************************)
(* The interpreter's objects: reference counts (utdelete.c), copies        *)
(* (utcopy.c), attachment to namespace nodes (nsobject.c), method locals   *)
(* and arguments (dsmthdat.c), resolution to a value (exresolv.c,          *)
(* exresnte.c) and stores (exstore.c, exstoren.c, exstorob.c).             *)
(*                                                                         *)
(* The operators take and return a walk state w, of which they use         *)
(*   heap    a sequence of objects [type, val, refs, const], a freed one   *)
(*           being Freed and its place free to be used again,              *)
(*   nodes   [type, obj] for each node, named or local,                    *)
(*   depth   of the walk state, which tells its locals from its callers',  *)
(*   opcode, target: of the operation, and the runtime type of its target, *)
(*   status  and out, what a C function returns and its output parameter.  *)
(* A pointer is the index of an object, a negative number for a node, or   *)
(* zero.  A decrement that reaches a freed object is recorded by a         *)
(* negative count, so that it can never be mistaken for a legal state.     *)
(***************************************************************************)

CONSTANT LocalsPerMethod    \* locals, and as many arguments, of a method

Freed == [type |-> "FREE", val |-> 0, refs |-> 0, const |-> FALSE]

Ok(w) == w.status = "OK"
Error(w, status) == [w EXCEPT !.status = status]
Returns(w, p) == [w EXCEPT !.out = p]

IsNode(p) == p < 0
IsObject(p) == p > 0
TypeOf(w, p) == IF IsNode(p) THEN w.nodes[p].type ELSE w.heap[p].type

NoReference == [class |-> "NONE", value |-> 0, obj |-> 0, target |-> "ANY"]
IsReference(w, p, classes) ==
    IsObject(p) /\ w.heap[p].type = "REFERENCE" /\ w.heap[p].val.class \in classes

\* The value of an integer, string or buffer object, for AmlValue's operators.
ValueOf(w, p) == [type |-> w.heap[p].type, val |-> w.heap[p].val]

(***************************************************************************)
(* AcpiUtCreateInternalObject: a new object has one reference.             *)
(***************************************************************************)
CreateInternalObject(w, type, val) ==
    LET object == [type |-> type, val |-> val, refs |-> 1, const |-> FALSE]
        places == {i \in DOMAIN w.heap : w.heap[i].type = "FREE" /\ w.heap[i].refs = 0}
    IN IF places = {}
       THEN [w EXCEPT !.heap = Append(@, object), !.out = Len(w.heap) + 1]
       ELSE LET p == CHOOSE i \in places : \A j \in places : i <= j
            IN [w EXCEPT !.heap[p] = object, !.out = p]

CreateValue(w, v) == CreateInternalObject(w, v.type, v.val)

(***************************************************************************)
(* AcpiUtUpdateRefCount.  Removing the last reference deletes the object   *)
(* (AcpiUtDeleteInternalObj).                                              *)
(***************************************************************************)
UpdateRefCount(heap, p, delta) ==
    CASE heap[p].type = "FREE" -> [heap EXCEPT ![p].refs = @ - 1]
      [] heap[p].type # "FREE" /\ delta = 1 -> [heap EXCEPT ![p].refs = @ + 1]
      [] heap[p].type # "FREE" /\ delta = -1 ->
            IF heap[p].refs = 0 THEN heap
            ELSE IF heap[p].refs = 1 THEN [heap EXCEPT ![p] = Freed]
            ELSE [heap EXCEPT ![p].refs = @ - 1]

(***************************************************************************)
(* AcpiUtUpdateObjectReference: a package's count is shared by each of its *)
(* elements, an index reference's by the object it points into.            *)
(***************************************************************************)
UpdateObjectReference(heap, p, delta) ==
    LET RECURSIVE Go(_, _)
        Go(h, work) ==
            IF work = <<>> \/ Head(work) < 0 THEN h
            ELSE With(h[Head(work)], LAMBDA o :
                 With(IF o.type = "PACKAGE" THEN SelectSeq(o.val, LAMBDA e : e # 0)
                                            ELSE <<>>, LAMBDA elements :
                 LET Simple(e) == h[e].type \in {"INTEGER", "STRING", "BUFFER"}
                 IN Go(FoldLeft(LAMBDA g, e : UpdateRefCount(g, e, delta), h,
                                Append(SelectSeq(elements, Simple), Head(work))),
                       (IF o.type = "REFERENCE" /\ o.val.class \in {"INDEX", "NAME"} /\ o.val.obj # 0
                        THEN <<o.val.obj>> ELSE <<>>)
                       \o Reverse(SelectSeq(elements, LAMBDA e : ~Simple(e))) \o Tail(work))))
    IN Go(heap, <<p>>)

AddReference(w, p) ==
    IF IsObject(p) THEN [w EXCEPT !.heap = UpdateObjectReference(@, p, 1)] ELSE w

RemoveReference(w, p) ==
    IF IsObject(p) THEN [w EXCEPT !.heap = UpdateObjectReference(@, p, -1)] ELSE w

(***************************************************************************)
(* utcopy.c, internal to internal.                                         *)
(***************************************************************************)
CopySimpleObject(w, p) ==
    LET o == w.heap[p]
    IN
    With(CreateInternalObject(w, o.type, o.val), LAMBDA made :
    With([made EXCEPT !.heap[made.out].const = o.const], LAMBDA copy :
       IF o.type = "REFERENCE" /\ o.val.class # "TABLE" THEN AddReference(copy, o.val.obj)
       ELSE copy))

\* AcpiUtCopyIpackageToIpackage, AcpiUtWalkPackageTree with AcpiUtCopyIelementToIelement
CopyObject(w0, p0) ==
    LET RECURSIVE Copy(_, _)
        Copy(w, p) ==
            IF w.heap[p].type # "PACKAGE" THEN CopySimpleObject(w, p)
            ELSE LET made == CreateInternalObject(w, "PACKAGE", w.heap[p].val)
                 IN
                 With(made.out, LAMBDA package :
                 LET RECURSIVE Element(_, _)
                     Element(v, i) ==
                         IF i > Len(w.heap[p].val) THEN v
                         ELSE LET source == w.heap[p].val[i]
                              IN IF source = 0 THEN Element(v, i + 1)
                                 ELSE With(Copy(v, source), LAMBDA c :
                                         Element([c EXCEPT !.heap[package].val[i] = c.out], i + 1))
                 IN Returns(Element(made, 1), package))
    IN Copy(w0, p0)

(***************************************************************************)
(* nsobject.c: the data objects that may follow an object are left out.    *)
(***************************************************************************)
DetachObject(w, node) ==
    LET p == w.nodes[node].obj
    IN IF p = 0 THEN w
       ELSE RemoveReference([w EXCEPT !.nodes[node] = [type |-> "ANY", obj |-> 0]], p)

AttachObject(w, node, p, type) ==
    IF w.nodes[node].obj = p THEN w
    ELSE LET detached == IF w.nodes[node].obj # 0 THEN DetachObject(w, node) ELSE w
         IN [AddReference(detached, p) EXCEPT !.nodes[node] = [type |-> type, obj |-> p]]

(***************************************************************************)
(* dsmthdat.c.  The nodes of a walk state at depth d are -(100 d + i) for  *)
(* local i and -(100 d + 10 + i) for argument i.                           *)
(***************************************************************************)
MethodDataGetNode(w, class, index) ==
    -(100 * w.depth + (IF class = "ARG" THEN 10 ELSE 0) + index)

IsMethodData(node) == node <= -100

MethodDataNodes(d) == {-(100 * d + 10 * k + i) : k \in {0, 1}, i \in 0..(LocalsPerMethod - 1)}

MethodDataInit(w) ==
    [w EXCEPT !.nodes = [n \in DOMAIN @ |-> IF n \in MethodDataNodes(w.depth)
                                            THEN [type |-> "ANY", obj |-> 0] ELSE @[n]]]

MethodDataDeleteAll(w) ==
    LET Detach(class, v) == FoldLeft(LAMBDA u, i : DetachObject(u, MethodDataGetNode(u, class, i - 1)),
                                     v, [i \in 1..LocalsPerMethod |-> i])
    IN Detach("ARG", Detach("LOCAL", w))

MethodDataSetValue(w, class, index, p) ==
    [AddReference(w, p) EXCEPT !.nodes[MethodDataGetNode(w, class, index)].obj = p]

MethodDataInitArgs(w, params) ==
    FoldLeft(LAMBDA v, i : MethodDataSetValue(v, "ARG", i - 1, params[i]),
             w, [i \in DOMAIN params |-> i])

MethodDataGetValue(w, class, index) ==
    LET p == w.nodes[MethodDataGetNode(w, class, index)].obj
    IN IF p # 0 THEN Returns(AddReference(w, p), p)
       ELSE Error(w, IF class = "ARG" THEN "UNINITIALIZED_ARG"
                                      ELSE "UNINITIALIZED_LOCAL")

MethodDataDeleteValue(w, class, index) ==
    LET node == MethodDataGetNode(w, class, index)
        p == w.nodes[node].obj
    IN RemoveReference([w EXCEPT !.nodes[node].obj = 0], p)

(***************************************************************************)
(* exresolv.c and exresnte.c.  Fields are read by AcpiField's operators    *)
(* and are not among the nodes here.                                       *)
(***************************************************************************)
ResolveNodeToValue(w, node) ==
    LET n == w.nodes[node]
        value == {"PACKAGE", "BUFFER", "STRING", "INTEGER"}
    IN CASE n.type \in {"DEVICE", "METHOD"} \/ IsMethodData(node) -> Returns(w, node)
         [] ~(n.type \in {"DEVICE", "METHOD"} \/ IsMethodData(node)) /\ n.obj = 0 ->
              Error(w, "UNINITIALIZED_NODE")
         [] ~IsMethodData(node) /\ n.obj # 0 /\ n.type \in value /\ TypeOf(w, n.obj) = n.type ->
              Returns(AddReference(w, n.obj), n.obj)
         [] ~IsMethodData(node) /\ n.obj # 0 /\ n.type = "REFERENCE"
              /\ IsReference(w, n.obj, {"TABLE", "REFOF", "INDEX"}) ->
              Returns(AddReference(w, n.obj), n.obj)
         [] OTHER -> Error(w, "OPERAND_TYPE")

ResolveObjectToValue(w, p) ==
    LET o == w.heap[p]
        r == o.val
    IN CASE o.type # "REFERENCE" -> Returns(w, p)
         [] o.type = "REFERENCE" /\ r.class \in {"LOCAL", "ARG"} ->
              With(MethodDataGetValue(w, r.class, r.value), LAMBDA got :
                 IF Ok(got) THEN Returns(RemoveReference(got, p), got.out) ELSE got)
         [] o.type = "REFERENCE" /\ r.class = "INDEX" ->
              IF r.target # "PACKAGE" \/ w.opcode \in {"MethodCall", "CopyObject"} THEN Returns(w, p)
              ELSE LET element == w.heap[r.obj].val[r.value + 1]
                   IN IF element = 0 THEN Error(w, "UNINITIALIZED_ELEMENT")
                      ELSE Returns(AddReference(w, element), element)
         [] o.type = "REFERENCE" /\ r.class = "NAME" ->
              LET value == IF TypeOf(w, r.value) = "DEVICE" THEN r.value ELSE w.nodes[r.value].obj
              IN Returns(RemoveReference(AddReference(w, value), p), value)
         [] OTHER -> Returns(w, p)

ResolveToValue(w, p) ==
    IF p = 0 THEN Error(w, "NO_OPERAND")
    ELSE With(IF IsObject(p) THEN ResolveObjectToValue(Returns(w, p), p) ELSE Returns(w, p), LAMBDA object :
            IF ~Ok(object) THEN object
            ELSE IF object.out = 0 THEN Error(object, "NO_OPERAND")
            ELSE IF IsNode(object.out) THEN ResolveNodeToValue(object, object.out)
            ELSE object)

(***************************************************************************)
(* AcpiExResolveMultiple follows references until it meets an object that  *)
(* is none: its status, type and object.                                   *)
(***************************************************************************)
ResolveMultiple(w, operand) ==
    LET Answer(type, p) == [status |-> "OK", type |-> type, obj |-> p]
        Refuse(status) == [status |-> status, type |-> "ANY", obj |-> 0]
        RECURSIVE Follow(_)
        Follow(p) ==
            LET o == w.heap[p]
            IN CASE o.type # "REFERENCE" -> Answer(o.type, p)
                 [] o.type = "REFERENCE" /\ o.val.class \in {"REFOF", "NAME", "LOCAL", "ARG"} ->
                      LET node == CASE o.val.class = "REFOF" -> o.val.obj
                                    [] o.val.class = "NAME" -> o.val.value
                                    [] OTHER -> MethodDataGetNode(w, o.val.class, o.val.value)
                          next == w.nodes[node].obj
                      IN IF next = 0
                         THEN Answer(IF o.val.class = "LOCAL" \/ o.val.class = "ARG" THEN "ANY"
                                     ELSE w.nodes[node].type, 0)
                         ELSE IF next = operand /\ o.val.class \in {"REFOF", "NAME"}
                         THEN Refuse("CIRCULAR_REFERENCE")
                         ELSE Follow(next)
                 [] o.type = "REFERENCE" /\ o.val.class = "INDEX" ->
                      IF o.val.target # "PACKAGE" THEN Answer(o.val.target, p)
                      ELSE LET next == w.heap[o.val.obj].val[o.val.value + 1]
                           IN IF next = 0 THEN Answer("ANY", 0) ELSE Follow(next)
                 [] OTHER -> Answer("DEBUG", p)
    IN IF IsNode(operand)
       THEN LET n == w.nodes[operand]
            IN IF n.obj = 0 /\ n.type # "DEVICE" THEN Refuse("UNINITIALIZED_NODE")
               ELSE IF n.type = "REFERENCE" THEN Follow(n.obj) ELSE Answer(n.type, n.obj)
       ELSE Follow(operand)

(***************************************************************************)
(* exstoren.c and exstorob.c                                               *)
(***************************************************************************)
\* AcpiExResolveObject: the type that is checked is the one before the
\* reference was resolved.
ResolveObject(w, p, targetType) ==
    IF targetType \notin {"INTEGER", "STRING", "BUFFER", "BUFFER_FIELD"} THEN Returns(w, p)
    ELSE With(IF w.heap[p].type = "REFERENCE" THEN ResolveToValue(w, p) ELSE Returns(w, p), LAMBDA value :
            IF ~Ok(value) \/ w.opcode = "CopyObject" THEN value
            ELSE IF w.heap[p].type \in {"INTEGER", "STRING", "BUFFER"}
                    \/ IsReference(w, p, {"TABLE"}) THEN value
            ELSE Error(value, "OPERAND_TYPE"))

\* AcpiExStoreBufferToBuffer: a buffer that is not empty keeps its length.
StoredBuffer(source, target) ==
    IF target = <<>> THEN source
    ELSE [i \in DOMAIN target |-> IF i <= Len(source) THEN source[i] ELSE 0]

\* AcpiExStoreObjectToObject
StoreObjectToObject(w, source, dest) ==
    IF dest = 0 THEN CopyObject(w, source)
    ELSE LET same == TypeOf(w, source) = TypeOf(w, dest)
         IN
         With(IF same THEN ValueOf(w, source)
              ELSE ConvertToTargetType(TypeOf(w, dest), ValueOf(w, source), w.target), LAMBDA v :
            CASE Failed(v) -> Error(w, v.val)
              [] ~Failed(v) /\ v.type # TypeOf(w, dest) -> Returns(w, source)
              [] ~Failed(v) /\ v.type = TypeOf(w, dest) /\ v.type = "INTEGER" ->
                   Returns([w EXCEPT !.heap[dest].val = TruncateFor32bitTable(v).val], dest)
              [] ~Failed(v) /\ v.type = TypeOf(w, dest) /\ v.type = "STRING" ->
                   Returns([w EXCEPT !.heap[dest].val = v.val], dest)
              [] ~Failed(v) /\ v.type = TypeOf(w, dest) /\ v.type = "BUFFER" ->
                   Returns([w EXCEPT !.heap[dest].val = StoredBuffer(v.val, @)], dest)
              [] ~Failed(v) /\ v.type = TypeOf(w, dest) /\ v.type = "PACKAGE" -> CopyObject(w, source)
              [] OTHER -> Returns(Error(w, "NOT_IMPLEMENTED"), dest))

(***************************************************************************)
(* exstore.c                                                               *)
(***************************************************************************)
StoreDirectToNode(w, source, node) ==
    With(CopyObject(w, source), LAMBDA copy :
       RemoveReference(AttachObject(copy, node, copy.out, TypeOf(copy, copy.out)), copy.out))

StoreObjectToNode(w, source0, node, implicit) ==
    LET targetType == w.nodes[node].type
        dest == w.nodes[node].obj
        refused == /\ w.opcode # "CopyObject"
                   /\ \/ targetType = "DEVICE"
                      \/ /\ targetType = "PACKAGE"
                         /\ (w.opcode # "Store" \/ TypeOf(w, source0) # "PACKAGE")
    IN
    With(ResolveObject(w, source0, targetType), LAMBDA resolved :
    With(resolved.out, LAMBDA source :
    With(StoreObjectToObject(resolved, source, dest), LAMBDA stored :
       CASE refused -> Error(w, "TARGET_TYPE")
         [] ~refused /\ ~Ok(resolved) -> resolved
         [] /\ ~refused /\ Ok(resolved) /\ targetType \in {"INTEGER", "STRING", "BUFFER"}
            /\ w.opcode # "CopyObject" /\ implicit ->
              IF ~Ok(stored) \/ stored.out = dest THEN stored
              ELSE AttachObject(stored, node, stored.out, TypeOf(stored, stored.out))
         [] OTHER -> StoreDirectToNode(resolved, source, node))))

(***************************************************************************)
(* AcpiExStoreObjectToIndex.  The old element is dropped, and the new one  *)
(* counted, once for each reference to the package.                        *)
(***************************************************************************)
\* Mutant: the new element gets one reference whatever the package has.
StoreObjectToIndexOnce(w, source, index) ==
    LET r == w.heap[index].val
        old == w.heap[r.obj].val[r.value + 1]
    IN
    With(CopyObject(w, source), LAMBDA new :
    LET RECURSIVE Drop(_, _)
        Drop(v, i) == IF i < v.heap[r.obj].refs THEN Drop(RemoveReference(v, old), i + 1) ELSE v
    IN IF r.target = "PACKAGE" THEN [Drop(new, 0) EXCEPT !.heap[r.obj].val[r.value + 1] = new.out]
       ELSE w)

StoreObjectToIndex(w, source, index) ==
    With(w.heap[index].val, LAMBDA r :
    LET RECURSIVE Drop(_, _, _)
        Drop(v, p, i) == IF i < v.heap[r.obj].refs THEN Drop(RemoveReference(v, p), p, i + 1) ELSE v
        RECURSIVE Count(_, _, _)
        Count(v, p, i) == IF i < v.heap[r.obj].refs THEN Count(AddReference(v, p), p, i + 1) ELSE v
    IN IF r.target = "PACKAGE"
       THEN With(w.heap[r.obj].val[r.value + 1], LAMBDA old :
            With(IF IsReference(w, source, {"TABLE"})
                 THEN Returns(AddReference(w, source), source) ELSE CopyObject(w, source), LAMBDA new :
            LET dropped == IF old = 0 THEN new ELSE Drop(new, old, 0)
            IN Count([dropped EXCEPT !.heap[r.obj].val[r.value + 1] = new.out], new.out, 1)))
       ELSE CASE TypeOf(w, source) = "INTEGER" ->
                   [w EXCEPT !.heap[r.obj].val[r.value + 1] = w.heap[source].val % 256]
              [] TypeOf(w, source) \in {"BUFFER", "STRING"} ->
                   [w EXCEPT !.heap[r.obj].val[r.value + 1] = w.heap[source].val[1]]
              [] OTHER -> Error(w, "OPERAND_TYPE"))

(***************************************************************************)
(* AcpiDsStoreObjectToLocal: an object with other owners is copied first;  *)
(* a store to an argument that holds a reference goes through it.          *)
(***************************************************************************)
StoreObjectToLocal(w, class, index, p) ==
    LET current == w.nodes[MethodDataGetNode(w, class, index)].obj
    IN
    With(IF w.heap[p].refs > 1 THEN CopyObject(w, p) ELSE Returns(w, p), LAMBDA made :
    With(made.out, LAMBDA new :
    LET Settled(v) == IF new # p THEN RemoveReference(v, new) ELSE v
    IN IF current = p THEN w
       ELSE IF current # 0 /\ class = "ARG" /\ IsReference(w, current, {"REFOF"})
       THEN Settled(StoreObjectToNode(made, new, w.heap[current].val.obj, FALSE))
       ELSE Settled(MethodDataSetValue(IF current # 0 THEN MethodDataDeleteValue(made, class, index)
                                                      ELSE made, class, index, new))))

\* AcpiExStore
Store(w, source, dest) ==
    IF source = 0 \/ dest = 0 THEN Error(w, "NO_OPERAND")
    ELSE IF IsNode(dest) \/ IsReference(w, dest, {"REFOF"})
    THEN StoreObjectToNode(w, source, IF IsNode(dest) THEN dest ELSE w.heap[dest].val.obj, TRUE)
    ELSE LET r == w.heap[dest].val
         IN CASE TypeOf(w, dest) = "INTEGER" /\ w.heap[dest].const -> w
              [] TypeOf(w, dest) # "REFERENCE" /\ ~w.heap[dest].const -> Error(w, "OPERAND_TYPE")
              [] TypeOf(w, dest) = "REFERENCE" /\ r.class = "INDEX" -> StoreObjectToIndex(w, source, dest)
              [] TypeOf(w, dest) = "REFERENCE" /\ r.class \in {"LOCAL", "ARG"} ->
                   StoreObjectToLocal(w, r.class, r.value, source)
              [] TypeOf(w, dest) = "REFERENCE" /\ r.class = "DEBUG" -> w
              [] OTHER -> Error(w, "INTERNAL")

(***************************************************************************)
(* What the reference counts must amount to: owners(p) references held     *)
(* outside the heap, and for every object that points to p, as many as     *)
(* that object has itself.                                                 *)
(***************************************************************************)
PointersTo(o, p) ==
    CASE o.type = "PACKAGE" -> Len(SelectSeq(o.val, LAMBDA e : e = p))
      [] o.type = "REFERENCE" /\ o.val.class \in {"INDEX", "NAME"} /\ o.val.obj = p -> 1
      [] OTHER -> 0

SharedReferences(heap, p) ==
    FoldLeft(LAMBDA n, o : n + o.refs * PointersTo(o, p), 0, heap)

-----------------------------------------------------------------------------

CONSTANTS Names,           \* the namespace: path (bytes) to node
          Params,          \* parameters of each method node
          RootNode,        \* AcpiGbl_RootNode
          MaxLoopTurns,    \* AcpiGbl_MaxLoopIterations
          CaVersion        \* ACPI_CA_VERSION

VARIABLES heap, nodes,     \* the objects; the named nodes and the locals
          thread,          \* the walk states, innermost first
          place,           \* where each method's code is: <<start, end>>
          passed,          \* the objects the caller passes
          outcome          \* status and return object of the evaluation

----------------------------------------------------------------------------
(* dswstate.c: the result stack and the operand stack *)

ResultPush(w, p) == IF p = 0 THEN Error(w, "BAD_PARAMETER")
                    ELSE [w EXCEPT !.results = Append(@, p)]

ResultPop(w) == IF w.results = <<>> THEN Error(w, "NO_RETURN_VALUE")
                ELSE Returns([w EXCEPT !.results = Front(@)], Last(w.results))

\* AcpiDsClearOperands
ClearOperands(w) ==
    [FoldLeft(LAMBDA v, p : RemoveReference(v, p), w, w.operands) EXCEPT !.operands = <<>>]

----------------------------------------------------------------------------
(* dsobject.c *)

LocalOps == <<"Local0", "Local1", "Local2", "Local3", "Local4", "Local5", "Local6", "Local7">>
ArgOps == <<"Arg0", "Arg1", "Arg2", "Arg3", "Arg4", "Arg5", "Arg6">>

IndexIn(ops, op) == (CHOOSE i \in DOMAIN ops : ops[i] = op) - 1

LocalReference(w, class, index) ==
    CreateInternalObject(w, "REFERENCE", [NoReference EXCEPT
        !.class = class, !.value = index, !.obj = MethodDataGetNode(w, class, index)])

\* AcpiDsInitObjectFromOp on a new object.
InitObjectFromOp(w, op, opcode) ==
    LET Constant(n) == With(CreateValue(w, Num(n)), LAMBDA c :
                                                          [c EXCEPT !.heap[c.out].const = TRUE])
    IN CASE opcode = "Zero" -> Constant(0)
         [] opcode = "One" -> Constant(1)
         [] opcode = "Ones" -> Constant(IntegerMax)
         [] opcode = "Revision" -> Constant(CaVersion)
         [] opcode \in {"ByteConst", "WordConst", "DwordConst", "QwordConst"} ->
              CreateValue(w, TruncateFor32bitTable(Num(op.val)))
         [] opcode = "String" -> CreateValue(w, Text(op.val))
         [] OpType(opcode) = "LOCAL_VARIABLE" -> LocalReference(w, "LOCAL", IndexIn(LocalOps, opcode))
         [] OpType(opcode) = "METHOD_ARGUMENT" -> LocalReference(w, "ARG", IndexIn(ArgOps, opcode))
         [] opcode = "NamePath" ->
              CreateInternalObject(w, "REFERENCE", [NoReference EXCEPT !.class = "NAME",
                  !.value = op.node, !.obj = IF op.node = 0 THEN 0 ELSE w.nodes[op.node].obj])
         [] opcode = "Debug" ->
              CreateInternalObject(w, "REFERENCE", [NoReference EXCEPT !.class = "DEBUG"])
         [] OTHER -> Error(w, "OPERAND_TYPE")

\* AcpiNsLookup in execution: see AmlLoad for the search.
NamesLookup(w, path) == IF path \in DOMAIN Names THEN Names[path] ELSE 0

----------------------------------------------------------------------------
(* dsutils.c: operands *)

\* AcpiDsCreateOperand for the argument arg of parent.  A null name stands for
\* the constant zero, a result waits on the stack.
CreateOperand(w, arg, parent) ==
    LET node == NamesLookup(w, arg.val)
        opcode == IF arg.op = "NamePath" /\ ~arg.inStack THEN "Zero" ELSE arg.op
        made == IF HasRetval(opcode) \/ arg.inStack THEN ResultPop(w)
                ELSE InitObjectFromOp(w, arg, opcode)
        Push(v) == IF Ok(v) THEN [v EXCEPT !.operands = <<v.out>> \o @] ELSE v
    IN IF arg.op = "NamePath" /\ arg.val # <<>> /\ ~arg.inStack
       THEN IF node # 0 THEN Push(Returns(w, node))
            ELSE IF parent.op = "CondRefOf" THEN Push(Returns(w, RootNode))
            ELSE Error(w, IF parent.op = "External" THEN "BAD_OPCODE" ELSE "NAME_NOT_FOUND")
       ELSE Push(made)

\* AcpiDsCreateOperands, from the last argument to the first: the results come
\* off their stack in that order.
CreateOperands(w, args) ==
    LET RECURSIVE Create(_, _)
        Create(v, i) == IF i = 0 \/ ~Ok(v) THEN v
                        ELSE Create(CreateOperand(v, args[i], w.op), i - 1)
    IN
    With(Create([w EXCEPT !.operands = <<>>], Len(args)), LAMBDA made :
       IF Ok(made) THEN made ELSE ClearOperands(made))

\* AcpiDsResolveOperands, for the arguments of a call.
DsResolveOperands(w) ==
    LET RECURSIVE Resolve(_, _)
        Resolve(v, i) ==
            IF i > Len(w.operands) \/ ~Ok(v) THEN v
            ELSE With(ResolveToValue(v, v.operands[i]), LAMBDA r :
                    Resolve([r EXCEPT !.operands[i] = r.out], i + 1))
    IN Resolve(w, 1)

----------------------------------------------------------------------------
(* exresop.c: AcpiExResolveOperands *)

TargetTypes == {"REFERENCE", "INTEGER_REF", "OBJECT_REF", "DEVICE_REF", "TARGETREF",
                "FIXED_TARGET", "SIMPLE_TARGET", "STORE_TARGET"}

ObjectValue(w, p) == IF IsNode(p) THEN [type |-> "NODE", val |-> 0] ELSE ValueOf(w, p)

\* The conversion an operand type asks for; the object itself when there is none.
Converted(v, type) ==
    CASE type = "INTEGER" -> ConvertToInteger(v, TRUE)
      [] type = "BUFFER" -> ConvertToBuffer(v)
      [] type = "STRING" -> ConvertToString(v, "IMPLICIT")
      [] type = "BUFFER_OR_STRING" -> IF v.type = "INTEGER" THEN ConvertToBuffer(v) ELSE v
      [] OTHER -> v

Allowed(type) ==
    CASE type = "PACKAGE" -> {"PACKAGE"}
      [] type = "DDBHANDLE" -> {"REFERENCE"}
      [] type = "COMPUTEDATA" -> {"INTEGER", "STRING", "BUFFER"}
      [] type = "BUFFER_OR_STRING" -> {"STRING", "BUFFER"}
      [] type = "COMPLEXOBJ" -> {"PACKAGE", "STRING", "BUFFER"}
      [] type = "DATAOBJECT" -> {"PACKAGE", "STRING", "BUFFER", "REFERENCE"}
      [] type = "DATAREFOBJ" -> {"INTEGER", "PACKAGE", "STRING", "BUFFER", "REFERENCE"}
      [] type = "MUTEX" -> {"MUTEX"}
      [] type = "EVENT" -> {"EVENT"}
      [] type = "REGION_OR_BUFFER" -> {"BUFFER", "REGION"}
      [] OTHER -> {"INTEGER", "STRING", "BUFFER"}

\* A converted object takes the place of the one it was made from.
Replaced(w, p, v) == LET made == CreateValue(w, v) IN Returns(RemoveReference(made, p), made.out)

\* One operand: left alone where a target or a reference is wanted, resolved
\* to a value and converted elsewhere, and replaced by what it was resolved to
\* even if that has the wrong type.  toDebug: a later operand is Debug.
ResolveOperand(w0, p, type, opcode, toDebug) ==
    LET w == Returns(w0, p)
        isTarget == type \in TargetTypes \cup {"REF_OR_STRING"}
    IN
    With(ResolveToValue(w, p), LAMBDA value :
    With(value.out, LAMBDA q :
    With(ObjectValue(value, q), LAMBDA v :
    With(Converted(v, type), LAMBDA c :
       IF p = 0 THEN Error(w, "INTERNAL")
       ELSE IF type = "REF_OR_STRING" /\ IsObject(p) /\ TypeOf(w, p) = "STRING" THEN w
       ELSE IF isTarget
       THEN IF IsNode(p) \/ TypeOf(w, p) = "REFERENCE"
               \/ (TypeOf(w, p) = "INTEGER" /\ w.heap[p].const)
            THEN w ELSE Error(w, "OPERAND_TYPE")
       ELSE IF type = "DATAREFOBJ" /\ opcode = "Store" /\ IsReference(w, p, {"INDEX"}) THEN w
       ELSE IF ~Ok(value) THEN value
       ELSE IF type = "ANYTYPE" THEN value
       ELSE IF type = "DATAREFOBJ" /\ toDebug THEN value
       ELSE IF Failed(c) THEN Error(value, IF c.val = "TYPE" THEN "OPERAND_TYPE" ELSE c.val)
       ELSE IF c.type \notin Allowed(type) THEN Error(value, "OPERAND_TYPE")
       ELSE IF c.type # v.type THEN Replaced(value, q, c) ELSE value))))

\* The operands, last to first, against the opcode's list.
ExResolveOperands(w, opcode) ==
    LET types == ARGI[opcode]
    IN
    With(Len(w.operands) - Len(types), LAMBDA base :
    LET RECURSIVE Resolve(_, _, _)
        Resolve(v, i, toDebug) ==
            IF i = 0 \/ ~Ok(v) THEN v
            ELSE LET p == v.operands[base + i]
                     debug == toDebug \/ IsReference(v, p, {"DEBUG"})
                 IN
                 With(ResolveOperand(v, p, types[i], opcode, debug), LAMBDA r :
                    Resolve([r EXCEPT !.operands[base + i] = r.out], i - 1, debug))
    IN IF types = INVALID THEN Error(w, "INTERNAL") ELSE Resolve(w, Len(types), FALSE))

----------------------------------------------------------------------------
(* exmisc.c: AcpiExGetObjectReference *)
GetObjectReference(w, p) ==
    LET target == IF IsNode(p) THEN p ELSE w.heap[p].val.obj
    IN IF IsNode(p) \/ IsReference(w, p, {"LOCAL", "ARG", "DEBUG"})
       THEN CreateInternalObject(w, "REFERENCE", [NoReference EXCEPT !.class = "REFOF", !.obj = target])
       ELSE Error(w, "OPERAND_TYPE")

----------------------------------------------------------------------------
(* exoparg1.c, exoparg2.c, exoparg3.c, exoparg6.c *)

Arg(w, i) == w.operands[i]
IntArg(w, i) == w.heap[w.operands[i]].val
ValArg(w, i) == ValueOf(w, w.operands[i])

\* The new object p is stored to operand target and becomes the result.
StoreResult(w, p, target) ==
    With(Store(w, p, Arg(w, target)), LAMBDA stored :
       IF Ok(stored) THEN [stored EXCEPT !.resultObj = p] ELSE RemoveReference(stored, p))

Made(w, v) == IF Failed(v) THEN Error(w, v.val) ELSE CreateValue(w, v)

ReturnObject(w) == IF Ok(w) THEN [w EXCEPT !.resultObj = w.out] ELSE w

ReturnValue(w, v) == ReturnObject(Made(w, v))

\* ToInteger and its like: an object that has the type already is shared.
MadeConverted(w, v) ==
    IF ~Failed(v) /\ v.type = ValArg(w, 1).type THEN Returns(AddReference(w, Arg(w, 1)), Arg(w, 1))
    ELSE Made(w, v)

CondRefOf(w) ==
    With(CreateValue(w, Num(0)), LAMBDA made :
    With(GetObjectReference(made, Arg(w, 1)), LAMBDA ref :
    With(RemoveReference(Store(ref, ref.out, Arg(w, 2)), ref.out), LAMBDA stored :
    LET done == [stored EXCEPT !.heap[made.out].val = WordMax, !.resultObj = made.out]
    IN IF Arg(w, 1) = RootNode THEN [made EXCEPT !.resultObj = made.out]
       ELSE IF ~Ok(ref) THEN RemoveReference(ref, made.out)
       ELSE IF ~Ok(stored) THEN RemoveReference(stored, made.out) ELSE done)))

\* AcpiExOpcode_1A_1T_1R: what it computes, and the handler.
UnaryValue(w) ==
    CASE w.opcode = "Not" -> Num(Complement(IntArg(w, 1)))
      [] w.opcode = "FindSetLeftBit" -> Num(FindSetLeftBit(IntArg(w, 1)))
      [] w.opcode = "FindSetRightBit" -> Num(FindSetRightBit(IntArg(w, 1)))
      [] w.opcode = "FromBCD" -> FromBCD(IntArg(w, 1))
      [] w.opcode = "ToBCD" -> ToBCD(IntArg(w, 1))

ConvertedValue(w) ==
    CASE w.opcode = "ToDecimalString" -> ConvertToString(ValArg(w, 1), "DECIMAL")
      [] w.opcode = "ToHexString" -> ConvertToString(ValArg(w, 1), "HEX")
      [] w.opcode = "ToBuffer" -> ConvertToBuffer(ValArg(w, 1))
      [] w.opcode = "ToInteger" -> ConvertToInteger(ValArg(w, 1), FALSE)

Opcode_1A_1T_1R(w) ==
    CASE w.opcode \in {"Not", "FindSetLeftBit", "FindSetRightBit", "FromBCD", "ToBCD"} ->
           Made(w, UnaryValue(w))
      [] w.opcode \in {"ToDecimalString", "ToHexString", "ToBuffer", "ToInteger"} ->
           MadeConverted(w, ConvertedValue(w))
      [] w.opcode = "CondRefOf" -> CondRefOf(w)
      [] w.opcode = "Store" ->
           With(Store(w, Arg(w, 1), Arg(w, 2)), LAMBDA stored :
              IF Ok(stored) THEN [stored EXCEPT !.resultObj = Arg(w, 1), !.operands[1] = 0]
              ELSE stored)
      [] w.opcode = "CopyObject" ->
           CopyObject(w, Arg(w, 1))
      [] OTHER -> Error(w, "BAD_OPCODE")

\* Increment and Decrement resolve a second reference to their operand.
Step(w, delta) ==
    With(CreateValue(w, Num(0)), LAMBDA made :
    With(made.out, LAMBDA sum :
    With(ResolveOperand(AddReference(made, Arg(w, 1)), Arg(w, 1), "INTEGER", "LNot", FALSE), LAMBDA value :
    LET n == (value.heap[value.out].val + delta) % (WordMax + 1)
        counted == RemoveReference([value EXCEPT !.heap[sum].val = n], value.out)
    IN IF Ok(value) THEN Returns(counted, sum) ELSE RemoveReference(value, sum))))

TypeNumber == [ANY |-> 0, INTEGER |-> 1, STRING |-> 2, BUFFER |-> 3, PACKAGE |-> 4,
               DEVICE |-> 6, METHOD |-> 8, BUFFER_FIELD |-> 14, DEBUG |-> 16]

ObjectSize(w, m) ==
    CASE m.type = "INTEGER" -> Num(IntegerBytes)
      [] m.type \in {"STRING", "BUFFER", "PACKAGE"} -> Num(Len(w.heap[m.obj].val))
      [] OTHER -> Fail("OPERAND_TYPE")

\* DerefOf: first down to a reference or a node, then to what it denotes.
Dereferenced(w) ==
    LET p == Arg(w, 1)
        r == w.heap[p].val
        attached == w.nodes[p].obj
    IN
    With(MethodDataGetValue(w, r.class, r.value), LAMBDA local :
       CASE IsNode(p) ->
              IF attached # 0 /\ TypeOf(w, attached) \in {"STRING", "REFERENCE"}
              THEN [AddReference(w, attached) EXCEPT !.operands[1] = attached]
              ELSE Error(w, "OPERAND_TYPE")
         [] IsObject(p) /\ IsReference(w, p, {"LOCAL", "ARG"}) ->
              IF Ok(local) THEN [RemoveReference(local, p) EXCEPT !.operands[1] = local.out]
              ELSE local
         [] IsReference(w, p, {"REFOF"}) -> [RemoveReference(w, p) EXCEPT !.operands[1] = r.obj]
         [] IsReference(w, p, {"INDEX", "NAME", "TABLE", "DEBUG"}) -> w
         [] IsObject(p) /\ TypeOf(w, p) = "STRING" -> w
         [] OTHER -> Error(w, "OPERAND_TYPE"))

DerefOf(w0) ==
    With(Dereferenced(w0), LAMBDA w :
    With(Arg(w, 1), LAMBDA p :
    With(w.heap[p].val, LAMBDA r :
    With(w.heap[r.obj].val[r.value + 1], LAMBDA element :
    LET object == IF IsNode(r.obj) THEN w.nodes[r.obj].obj ELSE r.obj
    IN
    With(NamesLookup(w, CString(r)), LAMBDA node :
    LET Share(q) == [AddReference(w, q) EXCEPT !.resultObj = q]
    IN CASE ~Ok(w) -> w
         [] Ok(w) /\ IsNode(p) ->
              IF w.nodes[p].type = "DEVICE" THEN [w EXCEPT !.resultObj = p]
              ELSE Share(w.nodes[p].obj)
         [] Ok(w) /\ IsObject(p) /\ TypeOf(w, p) = "STRING" ->
              IF node = 0 THEN Error(w, "NOT_FOUND") ELSE ReturnObject(ResolveNodeToValue(w, node))
         [] Ok(w) /\ IsReference(w, p, {"INDEX"}) ->
              IF r.target = "BUFFER_FIELD" THEN ReturnValue(w, Num(element))
              ELSE IF element = 0 THEN Error(w, "UNINITIALIZED_ELEMENT") ELSE Share(element)
         [] Ok(w) /\ IsReference(w, p, {"REFOF"}) -> Share(object)
         [] OTHER -> Error(w, "TYPE"))))))

\* AcpiExOpcode_1A_0T_1R
Opcode_1A_0T_1R(w) ==
    With(ResolveMultiple(w, Arg(w, 1)), LAMBDA m :
       CASE w.opcode = "LNot" -> ReturnValue(w, Truth(IntArg(w, 1) = 0))
         [] w.opcode \in {"Increment", "Decrement"} -> Step(w, IF w.opcode = "Increment" THEN 1 ELSE -1)
         [] w.opcode = "ObjectType" ->
              IF m.status # "OK" THEN Error(w, m.status) ELSE ReturnValue(w, Num(TypeNumber[m.type]))
         [] w.opcode = "SizeOf" ->
              IF m.status # "OK" THEN Error(w, m.status) ELSE ReturnValue(w, ObjectSize(w, m))
         [] w.opcode = "RefOf" -> ReturnObject(GetObjectReference(w, Arg(w, 1)))
         [] w.opcode = "DerefOf" -> DerefOf(w)
         [] OTHER -> Error(w, "BAD_OPCODE"))

\* Divide (AcpiExOpcode_2A_2T_1R): the remainder is stored first.
Opcode_2A_2T_1R(w) ==
    LET d == Divide(IntArg(w, 1), IntArg(w, 2))
    IN
    With(CreateValue(w, Num(d.quotient)), LAMBDA quotient :
    With(CreateValue(quotient, Num(d.remainder)), LAMBDA remainder :
    With(RemoveReference(Store(remainder, remainder.out, Arg(w, 3)), remainder.out), LAMBDA first :
       IF d.status # "OK" THEN Error(w, d.status)
       ELSE IF ~Ok(first) THEN RemoveReference(first, quotient.out)
       ELSE Returns(first, quotient.out))))

\* Index: a reference into the object, which it holds on to.
Limit == [STRING |-> "STRING_LIMIT", BUFFER |-> "BUFFER_LIMIT", PACKAGE |-> "PACKAGE_LIMIT"]

Index(w) ==
    LET object == Arg(w, 1)
        type == TypeOf(w, object)
    IN
    With(CreateInternalObject(w, "REFERENCE", [class |-> "INDEX", value |-> IntArg(w, 2),
             obj |-> object, target |-> IF type = "PACKAGE" THEN type ELSE "BUFFER_FIELD"]), LAMBDA ref :
       IF IntArg(w, 2) >= Len(w.heap[object].val) THEN Error(w, Limit[type])
       ELSE AddReference(ref, object))

\* AcpiExOpcode_2A_1T_1R
BinaryValue(w) ==
    LET d == Divide(IntArg(w, 1), IntArg(w, 2))
    IN CASE w.opcode \in MATH -> Num(DoMathOp(w.opcode, IntArg(w, 1), IntArg(w, 2)))
         [] w.opcode = "Mod" -> IF d.status # "OK" THEN Fail(d.status) ELSE Num(d.remainder)
         [] w.opcode = "Concatenate" -> DoConcatenate(ValArg(w, 1), ValArg(w, 2))
         [] w.opcode = "ToString" -> ToStringOp(w.heap[Arg(w, 1)].val, IntArg(w, 2))

Opcode_2A_1T_1R(w) ==
    CASE w.opcode \in MATH \cup {"Mod", "Concatenate", "ToString"} -> Made(w, BinaryValue(w))
      [] w.opcode = "Index" -> Index(w)
      [] OTHER -> Error(w, "BAD_OPCODE")

\* AcpiExOpcode_2A_0T_1R
Opcode_2A_0T_1R(w) ==
    With(DoLogicalOp(w.opcode, ValArg(w, 1), ValArg(w, 2)), LAMBDA c :
       IF w.opcode \in {"LAnd", "LOr"}
       THEN ReturnValue(w, Truth(DoLogicalNumericOp(w.opcode, IntArg(w, 1), IntArg(w, 2))))
       ELSE IF c.status # "OK" THEN Error(w, c.status) ELSE ReturnValue(w, Truth(c.result)))

\* AcpiExOpcode_3A_1T_1R and AcpiExOpcode_6A_0T_1R: Mid and Match.
Opcode_3A_1T_1R(w) == Made(w, Mid(ValArg(w, 1), IntArg(w, 2), IntArg(w, 3)))

Opcode_6A_0T_1R(w) ==
    LET elements == [i \in DOMAIN w.heap[Arg(w, 1)].val |->
                       LET p == w.heap[Arg(w, 1)].val[i]
                       IN IF p = 0 THEN [type |-> "NULL", val |-> 0] ELSE ValueOf(w, p)]
    IN ReturnValue(w, MatchOp(elements, IntArg(w, 2), ValArg(w, 3), IntArg(w, 4), ValArg(w, 5),
                              IntArg(w, 6)))

(***************************************************************************)
(* AcpiGbl_OpTypeDispatch.  The handlers of operators with a target end    *)
(* alike: what they made, their state's out, is stored to that operand.    *)
(***************************************************************************)
TargetOperand(opcode) ==
    CASE opcode \in {"Increment", "Decrement"} -> 1
      [] opcode \notin {"Store", "CondRefOf"} /\ OpType(opcode) = "1A_1T_1R" -> 2
      [] OpType(opcode) = "2A_1T_1R" -> 3
      [] OpType(opcode) \in {"2A_2T_1R", "3A_1T_1R"} -> 4
      [] OTHER -> 0

OpTypeDispatch(w) ==
    With(CASE OpType(w.opcode) = "1A_1T_1R" -> Opcode_1A_1T_1R(w)
           [] OpType(w.opcode) = "1A_0T_1R" -> Opcode_1A_0T_1R(w)
           [] OpType(w.opcode) = "2A_2T_1R" -> Opcode_2A_2T_1R(w)
           [] OpType(w.opcode) = "2A_1T_1R" -> Opcode_2A_1T_1R(w)
           [] OpType(w.opcode) = "2A_0T_1R" -> Opcode_2A_0T_1R(w)
           [] OpType(w.opcode) = "3A_1T_1R" -> Opcode_3A_1T_1R(w)
           [] OpType(w.opcode) = "6A_0T_1R" -> Opcode_6A_0T_1R(w)
           [] OTHER -> Error(w, "BAD_OPCODE"), LAMBDA made :
    LET target == TargetOperand(w.opcode)
    IN IF Ok(made) /\ target # 0 THEN StoreResult(made, made.out, target) ELSE made)

----------------------------------------------------------------------------
(* dspkginit.c, dsobject.c, dsopcode.c: buffers and packages *)

\* AcpiDsBuildInternalBufferObj: the longer of the declared length and the
\* initializer, padded with zeros.
BuildInternalBufferObj(w, op, length) ==
    LET list == IF Len(op.args) > 1 THEN op.args[2].val ELSE <<>>
        size == IF Len(list) > length THEN Len(list) ELSE length
    IN CreateValue(w, Data([i \in 1..size |-> IF i <= Len(list) THEN list[i] ELSE 0]))

\* AcpiDsResolvePackageElement: the name in element p is replaced by the value
\* of what it names; devices and methods stay references.
ResolvePackageElement(w, p, path) ==
    LET node == NamesLookup(w, path)
        named == [w EXCEPT !.heap[p].val.value = node]
    IN
    With(ResolveNodeToValue(named, node), LAMBDA value :
       IF node = 0 THEN Returns(RemoveReference(w, p), 0)
       ELSE IF w.nodes[node].type = "ANY" THEN Returns(w, 0)
       ELSE IF ~Ok(value) \/ w.nodes[node].type \in {"DEVICE", "METHOD"} THEN Returns(named, p)
       ELSE Returns(RemoveReference(value, p), value.out))

\* One element: a nested buffer or package is there already, a method is
\* referred to, a name is looked up, an expression is refused and anything
\* else is a constant.
PackageElement(w, arg) ==
    With(InitObjectFromOp(w, arg, IF arg.op = "ReturnValue" THEN "NamePath" ELSE arg.op), LAMBDA built :
       IF arg.op = "ReturnValue" /\ arg.node = 0
       THEN Returns(Error(RemoveReference(w, w.results[1]), "SUPPORT"), 0)
       ELSE IF arg.op = "ReturnValue" /\ IsObject(arg.node) THEN Returns(w, arg.node)
       ELSE IF Ok(built) /\ arg.op = "NamePath"
       THEN ResolvePackageElement(built, built.out, arg.val) ELSE built)

\* AcpiDsBuildInternalPackageObj: initializers that do not fit are dropped.
BuildInternalPackageObj(w, op, count) ==
    LET made == CreateInternalObject(w, "PACKAGE", [i \in 1..count |-> 0])
        package == made.out
    IN
    With(Tail(op.args), LAMBDA args :
    LET RECURSIVE Fill(_, _)
        Fill(v, i) ==
            IF i > Len(args) \/ v.status = "SUPPORT" THEN v
            ELSE IF i > count THEN Fill(RemoveReference(v, args[i].node), i + 1)
            ELSE With(PackageElement(v, args[i]), LAMBDA e :
                    Fill([e EXCEPT !.heap[package].val[i] = e.out], i + 1))
    IN Returns(Fill(made, 1), package))

\* AcpiDsEvalDataObjectOperands: the object belongs to the enclosing package,
\* if there is one, and is the op's result otherwise.
EvalDataObjectOperands(w) ==
    With(CreateOperand(w, w.op.args[1], w.op), LAMBDA size :
    With(ExResolveOperands(size, w.opcode), LAMBDA resolved :
    With(RemoveReference([resolved EXCEPT !.operands = <<>>], resolved.operands[1]), LAMBDA freed :
    With(IntArg(resolved, 1), LAMBDA length :
    With(IF w.opcode = "Buffer" THEN BuildInternalBufferObj(freed, w.op, length)
         ELSE BuildInternalPackageObj(freed, w.op, length), LAMBDA made :
    With([made EXCEPT !.op.node = made.out], LAMBDA built :
       IF ~Ok(size) THEN size
       ELSE IF ~Ok(resolved) THEN resolved
       ELSE IF ~Ok(built) \/ ParentOp(w).op \in {"Package", "VarPackage", "Name"} THEN built
       ELSE [built EXCEPT !.resultObj = made.out]))))))

----------------------------------------------------------------------------
(* dswexec.c, dscontrol.c *)

\* AcpiDsGetPredicateValue, of the result on the stack or of the op in hand.
GetPredicateValue(w0, hasResult) ==
    LET w == [w0 EXCEPT !.ctl[1].state = "NORMAL"]
    IN
    With(CreateOperand(w, w.op, ParentOp(w)), LAMBDA made :
    With(IF hasResult THEN ResultPop(w)
         ELSE IF Ok(made) THEN ResolveToValue(made, made.out) ELSE made, LAMBDA got :
    With(got.out, LAMBDA obj :
    With(ConvertToInteger(ObjectValue(got, obj), TRUE), LAMBDA v :
    With(v.val % (IntegerMax + 1), LAMBDA value :
    LET narrowed == IF ObjectValue(got, obj).type = "INTEGER"
                    THEN [got EXCEPT !.heap[obj].val = value] ELSE got
    IN IF ~Ok(got) THEN got
       ELSE IF Failed(v) THEN Error(RemoveReference(got, obj), v.val)
       ELSE [RemoveReference(narrowed, obj) EXCEPT
                !.ctl[1].value = value # 0, !.status = IF value # 0 THEN "OK" ELSE "FALSE"])))))

\* AcpiDsExecBeginControlOp: a While met again at its own start is the next
\* turn of the loop.
ExecBeginControlOp(w) ==
    LET start == w.pc - 1
        state == [start |-> start, end |-> w.pkgEnd, opcode |-> w.op.op, state |-> "CONDITIONAL",
                  value |-> FALSE, predicate |-> 0, turns |-> 0]
    IN CASE w.op.op = "While" /\ w.ctl # <<>> /\ w.ctl[1].start = start ->
              [w EXCEPT !.ctl[1].state = "CONDITIONAL"]
         [] w.op.op = "If" \/ (w.op.op = "While" /\ (w.ctl = <<>> \/ w.ctl[1].start # start)) ->
              [w EXCEPT !.ctl = <<state>> \o @]
         [] w.op.op = "Else" /\ w.lastPredicate -> Error(w, "TRUE")
         [] OTHER -> w

\* AcpiDsExecBeginOp: the first op below If or While is its predicate.
ExecBeginOp(w) ==
    LET ready == IF w.ctl # <<>> /\ w.ctl[1].state = "CONDITIONAL"
                 THEN [w EXCEPT !.ctl[1].state = "PREDICATE", !.ctl[1].predicate = w.op.start]
                 ELSE w
    IN IF OpClass(w.op.op) = "CONTROL" THEN ExecBeginControlOp(ready) ELSE ready

\* Return: of its operand, or of the result that is waiting.
EndReturn(w) ==
    With(CreateOperands(w, w.op.args), LAMBDA made :
    With(ResolveToValue(made, made.operands[1]), LAMBDA value :
    LET first == w.results[1]
    IN
    With(IF IsObject(first) /\ TypeOf(w, first) = "REFERENCE"
            /\ ~IsReference(w, first, {"INDEX"})
         THEN ResolveToValue(w, first) ELSE Returns(w, first), LAMBDA result :
       IF w.op.args # <<>>
       THEN IF ~Ok(made) THEN made
            ELSE IF ~Ok(value) THEN value
            ELSE [Error(value, "TERMINATE") EXCEPT !.returnDesc = value.out]
       ELSE IF w.results # <<>>
       THEN IF ~Ok(result) THEN result
            ELSE [Error(result, "TERMINATE") EXCEPT !.results[1] = result.out,
                                                     !.returnDesc = result.out]
       ELSE Error(w, "TERMINATE"))))

\* Break and Continue discard the control states inside the loop.
LeaveToWhile(w) ==
    LET RECURSIVE Pop(_)
        Pop(v) == IF v.ctl = <<>> \/ v.ctl[1].opcode = "While" THEN v
                  ELSE Pop([v EXCEPT !.ctl = Tail(@)])
    IN Pop(w)

\* AcpiDsExecEndControlOp
ExecEndControlOp(w) ==
    LET loop == LeaveToWhile(w)
    IN CASE w.op.op = "If" -> [w EXCEPT !.lastPredicate = w.ctl[1].value, !.ctl = Tail(@)]
         [] w.op.op \in {"Else", "Noop"} -> w
         [] w.op.op = "While" ->
              IF ~w.ctl[1].value THEN [w EXCEPT !.ctl = Tail(@)]
              ELSE IF w.ctl[1].turns = MaxLoopTurns THEN Error(w, "LOOP_TIMEOUT")
              ELSE [Error(w, "PENDING") EXCEPT !.lastWhile = w.ctl[1].start, !.ctl[1].turns = @ + 1]
         [] w.op.op = "Return" -> EndReturn(w)
         [] w.op.op \in {"Break", "Continue"} ->
              IF loop.ctl = <<>> THEN Error(loop, "NO_WHILE")
              ELSE [Error(loop, IF w.op.op = "Break" THEN "BREAK" ELSE "CONTINUE") EXCEPT
                      !.lastWhile = loop.ctl[1].end]
         [] OTHER -> Error(w, "BAD_OPCODE")

\* AcpiDsEvaluateNamePath: an integer is copied, so that a later store to the
\* name does not change the operand.
EvaluateNamePath(w) ==
    LET parent == ParentOp(w)
    IN
    With(CreateOperand(w, w.op, parent), LAMBDA made :
    LET type == TypeOf(made, made.operands[1])
    IN
    With(ResolveToValue(made, made.operands[1]), LAMBDA value :
    With(IF type = "INTEGER" THEN CopyObject(RemoveReference(value, value.out), value.out)
         ELSE value, LAMBDA copy :
    LET Result(v, p) == [ResultPush([v EXCEPT !.operands = <<>>], p) EXCEPT
                           !.resultObj = p, !.op.inStack = TRUE]
    IN IF IsNone(parent) \/ parent.op \in {"Package", "VarPackage", "RefOf"} THEN w
       ELSE IF ~Ok(made) THEN made
       ELSE IF w.op.target THEN Result(made, made.operands[1])
       ELSE IF ~Ok(value) THEN value
       ELSE Result(copy, copy.out))))

PushResult(w) == IF Ok(w) /\ w.resultObj # 0 THEN ResultPush(w, w.resultObj) ELSE w

\* An opcode of class EXECUTE.  A store of an unset local to itself is let pass.
ExecuteOp(w) ==
    With(CreateOperands(w, w.op.args), LAMBDA made :
    With(IF HasArgs(w.opcode) /\ w.opcode \notin NO_OPERAND_RESOLVE
         THEN ExResolveOperands(made, w.opcode) ELSE made, LAMBDA resolved :
    LET Local(p) == [class |-> made.heap[p].val.class, value |-> made.heap[p].val.value]
        selfStore == /\ resolved.status = "UNINITIALIZED_LOCAL"
                     /\ w.opcode = "Store"
                     /\ TypeOf(made, made.operands[1]) = "REFERENCE"
                     /\ TypeOf(made, made.operands[2]) = "REFERENCE"
                     /\ Local(made.operands[1]) = Local(made.operands[2])
    IN IF ~Ok(made) THEN made
       ELSE PushResult(ClearOperands(IF Ok(resolved) THEN OpTypeDispatch(resolved)
                                     ELSE IF selfStore THEN Error(resolved, "OK") ELSE resolved))))

\* AcpiDsDeleteResultIfNotUsed
DeleteResultIfNotUsed(w) ==
    LET popped == ResultPop(w)
    IN IF w.resultObj = 0 \/ IsResultUsed(w) \/ ~Ok(popped) THEN w
       ELSE Error(RemoveReference(popped, w.resultObj), w.status)

\* AcpiDsExecEndOp.  A call leaves its operands for the callee.
ExecEndOp(w0) ==
    With([w0 EXCEPT !.operands = <<>>, !.returnDesc = 0, !.resultObj = 0, !.status = "OK",
            !.target = IF ARGI[w0.opcode] \in {INVALID, <<>>} THEN "NONE"
                       ELSE Last(ARGI[w0.opcode])], LAMBDA w :
    With(OpType(w.opcode), LAMBDA type :
    With(CreateOperands(w, Tail(w.op.args)), LAMBDA args :
    With(DsResolveOperands(args), LAMBDA values :
    LET call == IF ~Ok(args) THEN args ELSE IF ~Ok(values) THEN ClearOperands(values)
                ELSE Error(values, "TRANSFER")
    IN
    With(CASE OpClass(w.opcode) = "ARGUMENT" ->
                IF w.opcode = "NamePath" THEN EvaluateNamePath(w) ELSE w
           [] OpClass(w.opcode) = "EXECUTE" -> ExecuteOp(w)
           [] OpClass(w.opcode) \notin {"ARGUMENT", "EXECUTE"} /\ type = "CONTROL" ->
                ExecEndControlOp(w)
           [] OpClass(w.opcode) \notin {"ARGUMENT", "EXECUTE"} /\ type = "METHOD_CALL" -> call
           [] OpClass(w.opcode) \notin {"ARGUMENT", "EXECUTE"} /\ type = "CREATE_OBJECT" ->
                PushResult(EvalDataObjectOperands(w))
           [] OTHER -> Error(w, "NOT_IMPLEMENTED"), LAMBDA done :
    With(done.resultObj, LAMBDA p :
    With(IF IsObject(p) /\ TypeOf(done, p) = "INTEGER"
         THEN [done EXCEPT !.heap[p].val = @ % (IntegerMax + 1)] ELSE done, LAMBDA cut :
    LET decided == IF /\ Ok(cut) /\ cut.ctl # <<>>
                      /\ cut.ctl[1].state = "PREDICATE" /\ cut.ctl[1].predicate = w.op.start
                   THEN [GetPredicateValue(cut, p # 0) EXCEPT !.resultObj = 0] ELSE cut
    IN IF type = "METHOD_CALL" /\ ParentOp(w).op \in {"Package", "VarPackage"}
       THEN [w EXCEPT !.op.node = w.op.args[1].node]
       ELSE IF done.status = "TRANSFER" THEN done
       ELSE [DeleteResultIfNotUsed(decided) EXCEPT !.operands = <<>>])))))))

----------------------------------------------------------------------------
(* psxface.c, psparse.c, dsmethod.c: evaluations and calls *)

\* AcpiDsCreateWalkState and AcpiDsInitAmlWalk
CreateWalkState(method, root, depth) ==
    [pc |-> place[method][1], end |-> place[method][2], pkgEnd |-> place[method][2], at |-> 0,
     op |-> NoOp, opcode |-> "None", info |-> "None", argTypes |-> <<>>, argCount |-> 0,
     arg |-> <<>>, scopes |-> InitScope(root, place[method][2]), ctl |-> <<>>, lastWhile |-> 0,
     callNode |-> 0, returnUsed |-> FALSE, pass |-> 3, module |-> FALSE, status |-> "OK",
     done |-> FALSE, params |-> Params, heap |-> <<>>, nodes |-> <<>>, depth |-> depth,
     target |-> "NONE", out |-> 0, operands |-> <<>>, results |-> <<>>, resultObj |-> 0,
     returnDesc |-> 0, lastPredicate |-> FALSE]

\* The walk state at work, with what it shares with the others.
Current == [Head(thread) EXCEPT !.heap = heap, !.nodes = nodes]

Share(w) == heap' = w.heap /\ nodes' = w.nodes
Alone(w) == [w EXCEPT !.heap = <<>>, !.nodes = <<>>]

NoOutcome == [status |-> "NONE", value |-> 0]

\* AcpiPsExecuteMethod: the caller's objects are held for the duration.
ExecuteMethod(method) ==
    /\ thread = <<>> /\ outcome = NoOutcome
    /\ LET w == [CreateWalkState(method, AllocOp("Scope", place[method][1]), 1) EXCEPT
                   !.heap = heap, !.nodes = nodes]
           held == FoldLeft(LAMBDA v, p : AddReference(v, p), MethodDataInit(w), passed)
       IN
       With(MethodDataInitArgs(held, passed), LAMBDA begun :
          thread' = <<Alone(begun)>> /\ Share(begun))
    /\ UNCHANGED <<aml, place, passed, outcome>>

\* One turn of AcpiPsParseLoop.
ParseLoop ==
    /\ thread # <<>> /\ ~Head(thread).done
    /\ With(ParseStep(Current), LAMBDA w :
          thread' = <<Alone(w)>> \o Tail(thread) /\ Share(w))
    /\ UNCHANGED <<aml, place, passed, outcome>>

\* AcpiDsCallControlMethod: the operands become the callee's arguments.
CallControlMethod ==
    /\ thread # <<>> /\ Head(thread).done /\ Head(thread).status = "TRANSFER"
    /\ LET w == Current
           count == Len(w.operands)
           next == [CreateWalkState(w.callNode, NoOp, w.depth + 1) EXCEPT
                      !.heap = heap, !.nodes = nodes]
       IN
       With(MethodDataInitArgs(MethodDataInit(next), w.operands), LAMBDA begun :
       With(ClearOperands([w EXCEPT !.heap = begun.heap, !.nodes = begun.nodes]), LAMBDA freed :
       LET refused == Error(w, IF count < Params[w.callNode] THEN "TOO_FEW_ARGUMENTS"
                                                              ELSE "TOO_MANY_ARGUMENTS")
       IN IF count # Params[w.callNode]
          THEN thread' = <<Alone(refused)>> \o Tail(thread) /\ UNCHANGED <<heap, nodes>>
          ELSE thread' = <<Alone(begun), Alone(freed)>> \o Tail(thread) /\ Share(freed)))
    /\ UNCHANGED <<aml, place, passed, outcome>>

\* The start of AcpiPsParseLoop for a method that is taken up again: when the
\* call was the predicate of an If or a While its value decides now.
RestartLoop(w0) ==
    LET w == [w0 EXCEPT !.op = NoOp, !.argTypes = <<>>, !.status = "OK", !.done = FALSE]
    IN
    With(GetPredicateValue(w, TRUE), LAMBDA value :
       IF ~HasCompletedScope(w) THEN w
       ELSE IF ParentOp(w).op \in {"If", "While"} /\ w.ctl # <<>> /\ w.ctl[1].state = "PREDICATE"
       THEN IF IsError(value.status) THEN [value EXCEPT !.done = TRUE]
            ELSE Ret(PopScope(NextParseState(value)), "OK")
       ELSE PopScope(w))

\* AcpiDsRestartControlMethod: the returned object goes to the caller's results.
RestartControlMethod(w, p) ==
    IF p = 0 THEN w
    ELSE IF w.returnUsed THEN [ResultPush(w, p) EXCEPT !.returnDesc = p]
    ELSE RemoveReference(w, p)

\* A method has ended: its locals and arguments are released, and its caller
\* takes up its work again or fails with it.
TerminateControlMethod ==
    /\ thread # <<>> /\ Head(thread).done /\ Head(thread).status # "TRANSFER"
    /\ With(MethodDataDeleteAll(Current), LAMBDA w :
       With(IF w.status = "TERMINATE" THEN "OK" ELSE w.status, LAMBDA status :
       With([thread[2] EXCEPT !.heap = w.heap, !.nodes = w.nodes], LAMBDA caller :
       With(IF status = "OK" THEN RestartLoop(RestartControlMethod(caller, w.returnDesc))
            ELSE [Error(RemoveReference(caller, w.returnDesc), status) EXCEPT !.done = TRUE], LAMBDA back :
       LET freed == FoldLeft(LAMBDA v, p : RemoveReference(v, p), w, passed)
       IN IF Len(thread) > 1
          THEN /\ thread' = <<Alone(back)>> \o SubSeq(thread, 3, Len(thread))
               /\ Share(back) /\ UNCHANGED outcome
          ELSE /\ thread' = <<>> /\ Share(freed)
               /\ outcome' = [status |-> status, value |-> w.returnDesc]))))
    /\ UNCHANGED <<aml, place, passed>>

-----------------------------------------------------------------------------
(***************************************************************************)
(* Methods for AmlExec to run, given as syntax trees that are encoded to   *)
(* byte code.  Two families: programs over integers with the control       *)
(* statements, whose meaning is also given here by structural recursion,   *)
(* and programs over strings, buffers, packages and references, run for    *)
(* their reference counts.                                                 *)
(***************************************************************************)

VARIABLE program     \* the choices the method body is made from

----------------------------------------------------------------------------
(* Syntax trees and their encoding *)

Tree(k, s, n, a) == [k |-> k, s |-> s, n |-> n, a |-> a]
N(n) == Tree("const", "", n, <<>>)
V(name) == Tree("var", name, 0, <<>>)
Op(name, args) == Tree("op", name, 0, args)
Null == Tree("null", "", 0, <<>>)
Str(bytes) == Tree("str", bytes, 0, <<>>)
Buf(size, bytes) == Tree("buf", bytes, size, <<>>)
Pkg(size, elements) == Tree("pkg", "", size, elements)
Call(name, args) == Tree("call", name, 0, args)
Block(name, args) == Tree("block", name, 0, args)

NameBytes == [N0 |-> <<78, 48, 95, 95>>, B0 |-> <<66, 48, 95, 95>>, P0 |-> <<80, 48, 95, 95>>,
              S0 |-> <<83, 48, 95, 95>>, M1 |-> <<77, 49, 95, 95>>, M2 |-> <<77, 50, 95, 95>>,
              D0 |-> <<68, 48, 95, 95>>, X0 |-> <<88, 48, 95, 95>>]

NodeOf == [N0 |-> -2, B0 |-> -3, P0 |-> -4, S0 |-> -5, M1 |-> -6, M2 |-> -7, D0 |-> -8]
Main == -9
McRootNode == -1

McNames == [b \in {NameBytes[x] : x \in DOMAIN NodeOf} |->
              NodeOf[CHOOSE x \in DOMAIN NodeOf : NameBytes[x] = b]]
McParams == [n \in {-6, -7, -9} |-> IF n = -7 THEN 0 ELSE 1]

OpBytes(name) == With(AmlOpcode[name], LAMBDA c :
                    IF c > 255 THEN <<c \div 256, c % 256>> ELSE <<c>>)

\* A package length that counts itself, in one byte or two.
Sized(bytes) == IF Len(bytes) < 63 THEN <<Len(bytes) + 1>> \o bytes
                ELSE <<64 + ((Len(bytes) + 2) % 16), (Len(bytes) + 2) \div 16>> \o bytes

RECURSIVE Encode(_)
Encode(x) ==
    LET args == FlattenSeq([i \in DOMAIN x.a |-> Encode(x.a[i])])
        number == CASE x.n = 0 -> <<0>>
                    [] x.n = 1 -> <<1>>
                    [] x.n \in 2..255 -> <<10, x.n>>
                    [] OTHER -> <<11, x.n % 256, x.n \div 256>>
    IN CASE x.k = "const" -> number
         [] x.k = "const8" -> <<x.n>>
         [] x.k = "null" -> <<0>>
         [] x.k = "var" -> IF x.s \in DOMAIN NameBytes THEN NameBytes[x.s] ELSE OpBytes(x.s)
         [] x.k = "op" -> OpBytes(x.s) \o args
         [] x.k = "str" -> <<13>> \o x.s \o <<0>>
         [] x.k = "buf" -> <<17>> \o Sized(number \o x.s)
         [] x.k = "pkg" -> <<18>> \o Sized(<<x.n>> \o args)
         [] x.k = "call" -> NameBytes[x.s] \o args
         [] x.k = "block" -> OpBytes(x.s) \o Sized(args)

EncodeAll(statements) == FlattenSeq([i \in DOMAIN statements |-> Encode(statements[i])])

----------------------------------------------------------------------------
(* The programs *)

L0 == V("Local0")
L1 == V("Local1")
L2 == V("Local2")
A0 == V("Arg0")
N0 == V("N0")
P0 == V("P0")
S0 == V("S0")
B0 == V("B0")
Set(value, place0) == Op("Store", <<value, place0>>)
Add(a, b, t) == Op("Add", <<a, b, t>>)
Is(a, b) == Op("LEqual", <<a, b>>)
If(c, body) == Block("If", <<c>> \o body)
Else(body) == Block("Else", body)
While(c, body) == Block("While", <<c>> \o body)
Give(x) == Op("Return", <<x>>)
Inc(x) == Op("Increment", <<x>>)
Dec(x) == Op("Decrement", <<x>>)
BREAK == Op("Break", <<>>)
CONTINUE == Op("Continue", <<>>)
NOOP == Op("Noop", <<>>)

M1Body == <<
    <<Set(A0, N0), Give(Add(A0, N(1), Null))>>,
    <<Give(Op("LLess", <<A0, N(3)>>))>>,
    <<If(A0, <<Give(A0)>>), Set(N(2), A0), Give(Op("Multiply", <<A0, N0, A0>>))>>,
    <<NOOP>> >>

Start == << N(0), N(3), A0, Add(N0, N(253), Null) >>

Control == <<
    <<If(Is(L0, N(3)), <<Set(N(1), N0)>>), Else(<<Set(N(2), N0)>>)>>,
    <<While(L0, <<Dec(L0), If(Is(L0, N(2)), <<BREAK>>), Inc(L1)>>)>>,
    <<While(Op("LLess", <<L1, N(3)>>),
            <<Inc(L1), If(Is(L1, N(2)), <<CONTINUE>>), Add(L0, N(1), L0)>>)>>,
    <<If(Call("M1", <<L0>>), <<Set(Call("M1", <<L1>>), L0)>>), Else(<<Inc(L1)>>)>>,
    <<While(Call("M1", <<L1>>), <<Inc(L1), If(Is(L1, N(3)), <<BREAK>>)>>)>>,
    <<If(N(0), <<Give(N(7))>>), Else(<<If(L0, <<Give(N(8))>>), Else(<<Set(N(9), L1)>>)>>)>>,
    <<While(Op("LNot", <<L1>>),
            <<While(N(1), <<If(L0, <<BREAK>>), Else(<<Inc(L0), CONTINUE>>)>>), Inc(L1)>>)>>,
    <<Call("M1", <<L0>>)>>,
    <<If(Op("LAnd", <<L0, L1>>), <<NOOP>>), While(N(1), <<If(N(1), <<Give(L0)>>)>>)>>,
    <<While(N(300), <<Add(L0, L0, L0)>>)>>,
    <<Set(Add(Call("M1", <<L0>>), Call("M1", <<N0>>), L1), L0)>> >>

----------------------------------------------------------------------------
(* The meaning of the integer programs.  env gives the variables (-1: not   *)
(* set); an outcome is how a statement ends: next, break, continue, return *)
(* or an error.                                                            *)

Wrap(n) == n % (IntegerMax + 1)
TRUTH(b) == IF b THEN IntegerMax ELSE 0

Compute(op, a, b) ==
    CASE op = "Add" -> Wrap(a + b)
      [] op = "Subtract" -> Wrap(a - b)
      [] op = "Multiply" -> Wrap(a * b)
      [] op = "LEqual" -> TRUTH(a = b)
      [] op = "LLess" -> TRUTH(a < b)
      [] op = "LAnd" -> TRUTH(a # 0 /\ b # 0)
      [] op = "LNot" -> TRUTH(a = 0)

Locals == {"Local0", "Local1", "Local2", "Arg0"}
Fresh(env, arg) == [x \in DOMAIN env |-> CASE x = "N0" -> env[x] [] x = "Arg0" -> arg [] OTHER -> -1]

RECURSIVE Value(_, _), Run(_, _, _)

\* [val, env]: val is -1 when the expression fails.
Value(x, env) ==
    LET first == Value(x.a[1], env)
        second == IF x.s = "LNot" THEN [val |-> 0, env |-> first.env] ELSE Value(x.a[2], first.env)
        value == Compute(x.s, first.val, second.val)
        bad == first.val = -1 \/ second.val = -1
        target == x.a[3]
        arg == Value(x.a[1], env)
    IN
    With(Run(M1Body[program.m1], Fresh(arg.env, arg.val), 0), LAMBDA called :
       CASE x.k = "const" -> [val |-> Wrap(x.n), env |-> env]
         [] x.k = "var" -> [val |-> env[x.s], env |-> env]
         [] x.k = "call" ->
              IF arg.val = -1 \/ called.how # "return" THEN [val |-> -1, env |-> env]
              ELSE [val |-> called.val, env |-> [arg.env EXCEPT !["N0"] = called.env["N0"]]]
         [] x.k = "op" ->
              IF bad THEN [val |-> -1, env |-> env]
              ELSE [val |-> value,
                    env |-> IF Len(x.a) = 3 /\ target.k = "var"
                            THEN [second.env EXCEPT ![target.s] = value] ELSE second.env])

Ends(how, env, val) == [how |-> how, env |-> env, val |-> val]

\* The statements body in env; turns is the count of the loop they are in.
Run(body, env, turns) ==
    IF body = <<>> THEN Ends("next", env, -1)
    ELSE LET x == Head(body)
         IN
         With(Value(x.a[1], env), LAMBDA first :
         LET isIf == x.k = "block" /\ x.s = "If"
             hasElse == Len(body) > 1 /\ body[2].k = "block" /\ body[2].s = "Else"
         IN
         With(IF first.val # 0 THEN Run(Tail(x.a), first.env, 0)
              ELSE IF hasElse THEN Run(body[2].a, first.env, 0) ELSE Ends("next", first.env, -1), LAMBDA inner :
         LET after == IF hasElse THEN Tail(Tail(body)) ELSE Tail(body)
         IN
         With(Run(Tail(x.a), first.env, 0), LAMBDA turn :
         With(Run(M1Body[program.m1], Fresh(first.env, first.val), 0), LAMBDA called :
         LET step == IF x.a[1].k = "var" /\ env[x.a[1].s] # -1
                     THEN Wrap(env[x.a[1].s] + (IF x.s = "Increment" THEN 1 ELSE -1)) ELSE -1
         IN CASE x.k = "op" /\ x.s = "Store" ->
                   IF first.val = -1 THEN Ends("error", env, -1)
                   ELSE Run(Tail(body), [first.env EXCEPT ![x.a[2].s] = first.val], 0)
              [] x.k = "op" /\ x.s \in {"Increment", "Decrement"} ->
                   IF step = -1 THEN Ends("error", env, -1)
                   ELSE Run(Tail(body), [env EXCEPT ![x.a[1].s] = step], 0)
              [] x.k = "op" /\ x.s = "Return" ->
                   IF first.val = -1 THEN Ends("error", env, -1) ELSE Ends("return", first.env, first.val)
              [] x.k = "op" /\ x.s = "Break" -> Ends("break", env, -1)
              [] x.k = "op" /\ x.s = "Continue" -> Ends("continue", env, -1)
              [] x.k = "op" /\ x.s = "Noop" -> Run(Tail(body), env, 0)
              [] isIf -> IF first.val = -1 THEN Ends("error", env, -1)
                         ELSE IF inner.how = "next" THEN Run(after, inner.env, 0) ELSE inner
              [] x.k = "block" /\ x.s = "While" ->
                   IF first.val = -1 THEN Ends("error", env, -1)
                   ELSE IF first.val = 0 THEN Run(Tail(body), first.env, 0)
                   ELSE IF turn.how = "break" THEN Run(Tail(body), turn.env, 0)
                   ELSE IF turn.how \in {"return", "error"} THEN turn
                   ELSE IF turns = MaxLoopTurns THEN Ends("error", turn.env, -1)
                   ELSE Run(body, turn.env, turns + 1)
              [] x.k = "call" ->
                   IF first.val = -1 \/ called.how = "error" THEN Ends("error", env, -1)
                   ELSE Run(Tail(body), [first.env EXCEPT !["N0"] = called.env["N0"]], 0)
              [] OTHER -> IF first.val = -1 \/ Value(x, env).val = -1 THEN Ends("error", env, -1)
                          ELSE Run(Tail(body), Value(x, env).env, 0)))))

----------------------------------------------------------------------------
\* Programs over integers: a start value, two statements, a method to call.
IntegerBody(p) ==
    <<Set(Start[p.start], L0), Set(N(0), L1)>> \o Control[p.first] \o Control[p.second]
    \o <<Give(Add(L0, Op("Multiply", <<L1, N(16), Null>>), Null))>>

IntegerPrograms == {p \in [kind : {"integer"}, start : DOMAIN Start, first : DOMAIN Control,
                            second : DOMAIN Control, m1 : DOMAIN M1Body] :
                      /\ p.start = 1 + ((p.first + p.second + p.m1) % 4)
                      /\ p.m1 = 1 + ((p.first + 3 * p.second) % 4)}

Index1(x, i) == Op("Index", <<x, N(i), Null>>)
Deref(x) == Op("DerefOf", <<x>>)
RefTo(x) == Op("RefOf", <<x>>)

Statement == <<
    Set(L0, L1),
    Set(L0, P0),
    Set(Index1(L0, 1), L1),
    Set(Deref(L1), L2),
    Set(Str(<<66>>), Index1(P0, 0)),
    Set(L0, Index1(P0, 1)),
    Set(N(9), Index1(L0, 0)),
    Set(RefTo(N0), L1),
    Op("CopyObject", <<P0, L0>>),
    Op("CopyObject", <<L0, N0>>),
    Set(Op("Concatenate", <<S0, B0, Null>>), L0),
    Set(Buf(3, <<1, 2>>), L0),
    Set(Call("M2", <<>>), L0),
    Call("M2", <<>>),
    Call("M1", <<RefTo(S0)>>),
    Call("M1", <<L0>>),
    If(Op("CondRefOf", <<N0, L2>>), <<Set(Deref(L2), L0)>>),
    If(Op("CondRefOf", <<V("X0"), L2>>), <<Give(L2)>>),
    Set(Op("SizeOf", <<P0>>), L1),
    Set(Op("Match", <<P0, Tree("const8", "", 1, <<>>), N(5), Tree("const8", "", 0, <<>>), N(0), N(0)>>), L1),
    Op("ToBuffer", <<B0, L0>>),
    Op("ToHexString", <<N0, S0>>),
    Op("Divide", <<N(9), N(2), L0, N0>>),
    Op("Divide", <<N(9), N(0), L0, L1>>),
    Set(Op("Mid", <<S0, N(0), N(1), Null>>), N0),
    Add(S0, N(1), B0),
    Set(L0, L0),
    Set(L2, L2),
    Inc(N0),
    Op("Index", <<P0, N(0), L1>>),
    Set(Deref(Index1(P0, 1)), L0),
    Set(Pkg(3, <<N0, S0, V("D0"), Buf(1, <<>>)>>), L0),
    Set(Pkg(3, <<V("X0"), V("M2"), Pkg(1, <<N(1)>>)>>), L1),
    Set(L0, V("Debug")),
    Set(Index1(P0, 7), L1),
    Set(L1, N0) >>

\* Programs over objects: two statements and what is returned.
ObjectBody(p) ==
    <<Set(Pkg(2, <<N(5), Str(<<65>>)>>), L0), Statement[p.first], Statement[p.second]>>
    \o (IF p.start = 1 THEN <<Give(L1)>> ELSE <<Give(P0)>>)

ObjectPrograms == {p \in [kind : {"object"}, start : {1, 2}, first : DOMAIN Statement,
                           second : DOMAIN Statement, m1 : {1}] :
                     p.start = 1 + ((p.first + p.second) % 2)}

Body(p) == IF p.kind = "integer" THEN IntegerBody(p) ELSE ObjectBody(p)

\* In the programs over objects M1 stores to its argument, through it if it is
\* a reference, and M2 returns a package it also leaves in a local.
M1For(p) == IF p.kind = "integer" THEN M1Body[p.m1] ELSE <<Set(Str(<<67>>), A0)>>
M2For == <<Set(Pkg(1, <<N(4)>>), L0), Give(L0)>>

Init ==
    /\ program \in IntegerPrograms \cup ObjectPrograms
    /\ With(EncodeAll(Body(program)), LAMBDA main :
       With(EncodeAll(M1For(program)), LAMBDA m1 :
       LET m2 == EncodeAll(M2For)
       IN /\ aml = main \o m1 \o m2 \o <<0, 0, 0, 0>>
          /\ place = [n \in {-6, -7, -9} |->
                        CASE n = -9 -> <<1, Len(main) + 1>>
                          [] n = -6 -> <<Len(main) + 1, Len(main \o m1) + 1>>
                          [] n = -7 -> <<Len(main \o m1) + 1, Len(main \o m1 \o m2) + 1>>]))
    /\ heap = <<[type |-> "INTEGER", val |-> 3, refs |-> 1, const |-> FALSE],
                [type |-> "BUFFER", val |-> <<1, 2>>, refs |-> 1, const |-> FALSE],
                [type |-> "PACKAGE", val |-> <<5, 6>>, refs |-> 1, const |-> FALSE],
                [type |-> "STRING", val |-> <<49, 50>>, refs |-> 1, const |-> FALSE],
                [type |-> "INTEGER", val |-> 5, refs |-> 1, const |-> FALSE],
                [type |-> "STRING", val |-> <<65>>, refs |-> 1, const |-> FALSE],
                [type |-> "INTEGER", val |-> 2, refs |-> 1, const |-> FALSE]>>
    /\ nodes = [n \in {-1, -2, -3, -4, -5, -6, -7, -8, -9} \cup MethodDataNodes(1)
                      \cup MethodDataNodes(2) |->
                  CASE n = -2 -> [type |-> "INTEGER", obj |-> 1]
                    [] n = -3 -> [type |-> "BUFFER", obj |-> 2]
                    [] n = -4 -> [type |-> "PACKAGE", obj |-> 3]
                    [] n = -5 -> [type |-> "STRING", obj |-> 4]
                    [] n \in {-6, -7, -9} -> [type |-> "METHOD", obj |-> 0]
                    [] n \in {-1, -8} -> [type |-> "DEVICE", obj |-> 0]
                    [] OTHER -> [type |-> "ANY", obj |-> 0]]
    /\ passed = <<7>>
    /\ thread = <<>>
    /\ outcome = NoOutcome

vars == <<aml, heap, nodes, thread, place, passed, outcome, program>>

Next == /\ \/ ExecuteMethod(Main)
           \/ ParseLoop
           \/ CallControlMethod
           \/ TerminateControlMethod
        /\ UNCHANGED program

Spec == Init /\ [][Next]_vars

----------------------------------------------------------------------------
(* Properties *)

(***************************************************************************)
(* The evaluation of a method over integers yields what its syntax means:  *)
(* the parser, the control states, the result stack and the calls together *)
(* amount to structured control flow.                                      *)
(***************************************************************************)
ExecutesMeaning ==
    (program.kind = "integer" /\ outcome # NoOutcome) =>
        LET start == [x \in {"Local0", "Local1", "Local2"} |-> -1] @@ [N0 |-> 3, Arg0 |-> 2]
        IN
        With(Run(Body(program), start, 0), LAMBDA meant :
           IF meant.how = "return"
           THEN /\ outcome.status = "OK" /\ outcome.value # 0
                /\ ValueOf([heap |-> heap], outcome.value) = Num(meant.val)
                /\ heap[nodes[-2].obj].val = meant.env["N0"]
           ELSE outcome.status # "OK")

\* The references held outside the heap.
OfPackages(ops) == FlattenSeq([i \in DOMAIN ops |->
    IF ops[i].op \in {"Package", "VarPackage"}
    THEN [j \in DOMAIN ops[i].args |-> ops[i].args[j].node] ELSE <<>>])

Owners == FlattenSeq([i \in DOMAIN thread |->
              LET w == thread[i]
              IN w.results \o w.operands
                 \o (IF w.done /\ w.returnDesc \notin {w.results[j] : j \in DOMAIN w.results}
                     THEN <<w.returnDesc>> ELSE <<>>)
                 \o OfPackages([j \in DOMAIN w.scopes |-> w.scopes[j].op])
                 \o (IF IsNone(w.op) THEN <<>> ELSE OfPackages(<<w.op>>))])
          \o passed \o (IF thread = <<>> THEN <<>> ELSE passed) \o <<outcome.value>>

OwnersOf(p) == Len(SelectSeq(Owners, LAMBDA q : q = p))
               + Cardinality({n \in DOMAIN nodes : nodes[n].obj = p})

\* The objects something points to.
Reached == {p \in {Owners[i] : i \in DOMAIN Owners} \cup {nodes[n].obj : n \in DOMAIN nodes} : p > 0}
           \cup UNION {{e \in {heap[p].val[i] : i \in DOMAIN heap[p].val} : e > 0} :
                         p \in {q \in DOMAIN heap : heap[q].type = "PACKAGE"}}

(***************************************************************************)
(* An object has at least as many references as there are pointers to it,  *)
(* so none is freed while it is in use (AcpiUtRemoveReference).            *)
(***************************************************************************)
CountsCover ==
    /\ \A p \in Reached : heap[p].type # "FREE"
    /\ \A p \in DOMAIN heap :
         IF heap[p].type = "FREE" THEN heap[p].refs = 0
         ELSE heap[p].refs >= OwnersOf(p) + SharedReferences(heap, p)

(***************************************************************************)
(* A method that ends without an error leaves no object that nobody owns.  *)
(***************************************************************************)
NothingLeaked ==
    (outcome.status = "OK") =>
        \A p \in DOMAIN heap :
            heap[p].type # "FREE" => heap[p].refs = OwnersOf(p) + SharedReferences(heap, p)
=============================================================================
