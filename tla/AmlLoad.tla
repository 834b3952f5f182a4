------------------------------- MODULE AmlLoad ------------------------------
(***************************************************************************)
(* Loading a definition block: the byte code of a table is executed at     *)
(* module level and its declarations are entered into the namespace.       *)
(*                                                                         *)
(* The parser is AmlParser; this module is the namespace and the two       *)
(* callbacks of the walk.  A walk state has these fields besides the       *)
(* parser's:                                                               *)
(*   nodes     the namespace: a sequence of [name, parent, type, owner,    *)
(*             obj], the root first, peers in the order they were entered  *)
(*   dscopes   WalkState->ScopeInfo: [node, type], the innermost first     *)
(*   found     what the last lookup returned                               *)
(*   owner     the owner ID of the table                                   *)
(*   done      AcpiPsParseLoop has returned                                *)
(* A name is its four bytes.  An attached object is the tuple of its       *)
(* values (empty: none).  Operands are constants: expressions are          *)
(* AmlExec's.  Left out: the branches for the compiler, the disassembler   *)
(* and acpiexec, the flags that only they read, and ACPI_NS_OVERRIDE and   *)
(* ACPI_NS_EARLY_INIT, which nothing in this build asks for.               *)
(***************************************************************************)
EXTENDS AmlParser, SequencesExt, Binding, FiniteSets, TLC

CONSTANT OsName     \* ACPI_OS_NAME, the value of \_OS_

LoadRoot == 1

NsNode(name, parent, type, owner, obj) ==
   [name |-> name, parent |-> parent, type |-> type, owner |-> owner, obj |-> obj]

\* utglobal.c: the names that exist before any table is loaded.
AcpiGbl_PreDefinedNames ==
   << [name |-> <<95, 71, 80, 69>>, type |-> "LOCAL_SCOPE", val |-> <<>>],    \* _GPE
      [name |-> <<95, 80, 82, 95>>, type |-> "LOCAL_SCOPE", val |-> <<>>],    \* _PR_
      [name |-> <<95, 83, 66, 95>>, type |-> "DEVICE", val |-> <<>>],         \* _SB_
      [name |-> <<95, 83, 73, 95>>, type |-> "LOCAL_SCOPE", val |-> <<>>],    \* _SI_
      [name |-> <<95, 84, 90, 95>>, type |-> "DEVICE", val |-> <<>>],         \* _TZ_
      [name |-> <<95, 82, 69, 86>>, type |-> "INTEGER", val |-> <<2>>],       \* _REV
      [name |-> <<95, 79, 83, 95>>, type |-> "STRING", val |-> OsName],       \* _OS_
      [name |-> <<95, 71, 76, 95>>, type |-> "MUTEX", val |-> <<0>>],         \* _GL_
      [name |-> <<95, 79, 83, 73>>, type |-> "METHOD", val |-> <<0, 0, 1, 0, 0>>] >>  \* _OSI

\* The level of a predefined mutex is one less than its value; \_OSI takes one
\* argument and is implemented here, not in byte code.
RootInitialize ==
   <<NsNode(<<ROOT_PREFIX, 95, 95, 95>>, NoNode, "DEVICE", 0, <<>>)>> \o
   [i \in DOMAIN AcpiGbl_PreDefinedNames |->
      LET p == AcpiGbl_PreDefinedNames[i] IN NsNode(p.name, LoadRoot, p.type, 0, p.val)]

----------------------------------------------------------------------------
(* dswscope.c *)

ScopeStackPush(w, node, type) ==
   [w EXCEPT !.dscopes = <<[node |-> node, type |-> type]>> \o @]

ScopeStackPop(w) ==
   IF w.dscopes = <<>> THEN Ret(w, "STACK_UNDERFLOW")
   ELSE [Ret(w, "OK") EXCEPT !.dscopes = Tail(@)]

----------------------------------------------------------------------------
(* nssearch.c *)

\* utascii.c, utstring.c: a character no name may have is replaced.
ValidNameChar(c, i) == c \in 65..90 \cup 48..57 \cup {95} \/ (c = 33 /\ i = 4)
RepairName(name) == [i \in 1..NAMESEG_SIZE |-> IF ValidNameChar(name[i], i) THEN name[i] ELSE 95]

\* The first match among the children.  An alias of a method is the method.
SearchOneScope(nodes, name, parent) ==
   LET hits == {n \in DOMAIN nodes : nodes[n].parent = parent /\ nodes[n].name = name}
       first == CHOOSE n \in hits : \A m \in hits : n <= m
   IN IF hits = {} THEN NoNode
      ELSE IF nodes[first].type = "LOCAL_METHOD_ALIAS" THEN nodes[first].obj[1] ELSE first

RECURSIVE SearchParentTree(_, _, _)
SearchParentTree(nodes, name, node) ==
   LET parent == nodes[node].parent
   IN
   With(SearchOneScope(nodes, name, parent), LAMBDA hit :
      IF parent = NoNode THEN NoNode
      ELSE IF hit # NoNode THEN hit ELSE SearchParentTree(nodes, name, parent))

\* nsalloc.c: a new node goes behind its peers and belongs to the table.
InstallNode(w, parent, name, type) ==
   [w EXCEPT !.nodes = Append(@, NsNode(name, parent, type, w.owner, <<>>)),
             !.found = Len(w.nodes) + 1]

SearchAndEnter(w, name0, node, mode, type, flags) ==
   LET name == RepairName(name0)
   IN
   With(SearchOneScope(w.nodes, name, node), LAMBDA here :
   With(IF mode # "LOAD_PASS1" /\ "SEARCH_PARENT" \in flags
        THEN SearchParentTree(w.nodes, name, node) ELSE NoNode, LAMBDA above :
      IF here # NoNode
      THEN [Ret(w, IF "ERROR_IF_FOUND" \in flags THEN "ALREADY_EXISTS" ELSE "OK")
              EXCEPT !.found = here]
      ELSE IF above # NoNode THEN [Ret(w, "OK") EXCEPT !.found = above]
      ELSE IF mode = "EXECUTE" THEN [Ret(w, "NOT_FOUND") EXCEPT !.found = NoNode]
      ELSE Ret(InstallNode(w, node, name, type), "OK")))

----------------------------------------------------------------------------
(* nsaccess.c *)

\* The scope a name is looked up in: the nearest that can hold names.
RECURSIVE PrefixNode(_, _)
PrefixNode(nodes, n) ==
   IF OpensScope(nodes[n].type) \/ nodes[n].type = "ANY" THEN n
   ELSE PrefixNode(nodes, nodes[n].parent)

\* [root, carats, names] of a path in byte code.
ParsedPath(path) ==
   LET plain(i) == path[i] \notin {ROOT_PREFIX, PARENT_PREFIX}
       front == (CHOOSE i \in DOMAIN path : plain(i) /\ \A j \in 1..(i - 1) : ~plain(j)) - 1
       c == path[front + 1]
       count == CASE c = 0 -> 0
                  [] c = DUAL_NAME_PREFIX -> 2
                  [] c = MULTI_NAME_PREFIX -> path[front + 2]
                  [] OTHER -> 1
       first == front + (CASE c = DUAL_NAME_PREFIX -> 2
                           [] c = MULTI_NAME_PREFIX -> 3
                           [] OTHER -> 1)
       names == [i \in 1..count |-> SubSeq(path, first + NAMESEG_SIZE * (i - 1),
                                           first + NAMESEG_SIZE * i - 1)]
       rooted == front > 0 /\ path[1] = ROOT_PREFIX
   IN [root |-> rooted, carats |-> IF rooted THEN 0 ELSE front, names |-> names]

RECURSIVE Climb(_, _, _)
Climb(nodes, n, carats) ==
   IF carats = 0 \/ n = NoNode THEN n ELSE Climb(nodes, nodes[n].parent, carats - 1)

\* An alias inside a path stands for the scope it is an alias of.
BrokenAlias(nodes, n) == nodes[n].type = "LOCAL_ALIAS" /\ nodes[n].obj = <<>>
ThroughAlias(nodes, n) ==
   IF nodes[n].type = "LOCAL_ALIAS" /\ OpensScope(nodes[nodes[n].obj[1]].type)
   THEN nodes[n].obj[1] ELSE n


\* The names in front of the last must exist when the flag says so.
SegmentMode(mode, flags, last) ==
   IF "PREFIX_MUST_EXIST" \in flags /\ ~last THEN "EXECUTE" ELSE mode

\* One name after the other, from node.  Only a single plain name is searched
\* for in the enclosing scopes, and only the last may be refused for existing.
LookupSegments(w0, node, names, upsearch, type, mode, flags) ==
   LET RECURSIVE Go(_, _, _)
       Go(w, cur, i) ==
          LET last == i = Len(names)
              local == (flags \ {"ERROR_IF_FOUND", "SEARCH_PARENT"})
                         \cup (IF last THEN flags \cap {"ERROR_IF_FOUND"} ELSE {})
                         \cup (IF last /\ upsearch THEN flags \cap {"SEARCH_PARENT"} ELSE {})
          IN
          With(SearchAndEnter(w, names[i], cur, SegmentMode(mode, flags, last),
                              IF last THEN type ELSE "ANY", local), LAMBDA s :
             IF s.status # "OK" \/ last THEN s
             ELSE IF BrokenAlias(s.nodes, s.found)
             THEN [Ret(s, "NOT_EXIST") EXCEPT !.found = NoNode]
             ELSE Go(s, ThroughAlias(s.nodes, s.found), i + 1))
   IN IF names = <<>> THEN [Ret(w0, "OK") EXCEPT !.found = node] ELSE Go(w0, node, 1)

\* A scope found or made for a declaration or a Scope becomes the current one.
OpenScope(w, type0, flags) ==
   LET type == IF type0 = "ANY" THEN w.nodes[w.found].type ELSE type0
   IN IF "DONT_OPEN_SCOPE" \notin flags /\ OpensScope(type)
      THEN ScopeStackPush(w, w.found, type) ELSE w

NsLookup(w, path, type, mode, flags) ==
   LET prefix == IF w.dscopes = <<>> THEN LoadRoot ELSE PrefixNode(w.nodes, w.dscopes[1].node)
   IN
   With(ParsedPath(path), LAMBDA p :
   With(IF path = <<>> \/ p.root THEN LoadRoot ELSE Climb(w.nodes, prefix, p.carats), LAMBDA start :
   With(IF path = <<>> THEN <<>> ELSE p.names, LAMBDA names :
   LET upsearch == ~p.root /\ p.carats = 0 /\ Len(names) = 1
   IN
   With(LookupSegments(w, start, names, upsearch, type, mode, flags), LAMBDA s :
      IF start = NoNode THEN [Ret(w, "NOT_FOUND") EXCEPT !.found = NoNode]
      ELSE IF s.status # "OK" THEN s
      ELSE OpenScope(s, IF path # <<>> /\ names = <<>> THEN "ANY" ELSE type, flags)))))

\* What the parser looks up where a name may be a call.
PathLookup(w, path) ==
   With(NsLookup(w, path, "ANY", "EXECUTE", {"SEARCH_PARENT", "DONT_OPEN_SCOPE"}), LAMBDA s :
      IF s.status = "OK" THEN s.found ELSE NoNode)

----------------------------------------------------------------------------
(* dsobject.c, excreate.c: the objects behind the names *)

Attached(w, n) == w.nodes[n].obj # <<>>
Attach(w, n, type, obj) == [w EXCEPT !.nodes[n].obj = obj, !.nodes[n].type = type]

ConstValue(op) == CASE op.op = "Zero" -> 0
                    [] op.op = "One" -> 1
                    [] OTHER -> op.val

DsCreateNode(w, n, op) ==
   IF Attached(w, n) \/ op.args = <<>> THEN Ret(w, "OK")
   ELSE LET arg == op.args[1]
        IN Ret(Attach(w, n, OpObjectType(arg.op),
                      IF arg.op = "String" THEN arg.val ELSE <<ConstValue(arg)>>), "OK")

\* An alias of an alias is an alias of what that one stands for.
CreateAlias(w, n, target0) ==
   LET isAlias == w.nodes[target0].type \in {"LOCAL_ALIAS", "LOCAL_METHOD_ALIAS"}
       target == IF isAlias THEN w.nodes[target0].obj[1] ELSE target0
   IN IF isAlias /\ ~Attached(w, target0) THEN Ret(w, "NULL_OBJECT")
      ELSE Ret(Attach(w, n, IF w.nodes[target].type = "METHOD" THEN "LOCAL_METHOD_ALIAS"
                            ELSE "LOCAL_ALIAS", <<target>>), "OK")

CreateMutex(w, n, level) == Ret(Attach(w, n, "MUTEX", <<level % 256>>), "OK")
CreateEvent(w, n) == Ret(Attach(w, n, "EVENT", <<0>>), "OK")
CreateProcessor(w, n, id, address, length) ==
   Ret(Attach(w, n, "PROCESSOR", <<id % 256, address, length % 256>>), "OK")
CreatePowerResource(w, n, level, order) ==
   Ret(Attach(w, n, "POWER", <<level % 256, order % 65536>>), "OK")

\* The flags: the low three bits count the arguments, bit 3 serializes, the
\* high four are the level of a serialized method.
CreateMethod(w, n, data, flags) ==
   LET serialized == (flags \div 8) % 2
   IN Ret(Attach(w, n, "METHOD", <<data[1], data[2], flags % 8, serialized,
                                   serialized * (flags \div 16)>>), "OK")

\* The address and the length come with the operands.
CreateRegion(w, n, space) ==
   IF Attached(w, n) THEN Ret(w, "OK")
   ELSE Ret(Attach(w, n, "REGION", <<space, 0, 0, w.dscopes[1].node>>), "OK")

EvalRegionOperands(w, n, address, length) ==
   IF ~Attached(w, n) THEN Ret(w, "NOT_EXIST")
   ELSE [Ret(w, "OK") EXCEPT !.nodes[n].obj = <<@[1], address, length, @[4]>>]

----------------------------------------------------------------------------
(* dsfield.c *)

FieldList(op) == SelectSeq(op.args, LAMBDA a : a.op \in {"NamedField", "ReservedField",
                                                         "AccessField", "ExtAccessField"})
FieldType(op) == CASE op.op = "Field" -> "LOCAL_REGION_FIELD"
                   [] op.op = "BankField" -> "LOCAL_BANK_FIELD"
                   [] OTHER -> "LOCAL_INDEX_FIELD"

\* Every name is entered first.  One that exists is left as it is.
InitFieldObjects(w0, op) ==
   FoldLeft(LAMBDA w, f :
              IF f.op = "NamedField"
              THEN NsLookup(w, f.val[1], FieldType(op), "LOAD_PASS1",
                            {"DONT_OPEN_SCOPE", "ERROR_IF_FOUND"})
              ELSE w,
            w0, FieldList(op))

\* exprep.c: a field needs its region, an index or bank register its object.
LoadFieldValue(w, info, pos, len, node) ==
   IF info.type # "LOCAL_INDEX_FIELD" /\ w.nodes[info.region].type # "REGION"
   THEN Ret(w, "OPERAND_TYPE")
   ELSE IF \E r \in info.registers : ~Attached(w, r) THEN Ret(w, "INTERNAL")
   ELSE Ret(Attach(w, node, w.nodes[node].type, info.refs \o <<pos, len>>), "OK")

\* The bits an element of the list takes.
Advance(f, pos) == CASE f.op = "NamedField" -> pos + f.val[2]
                     [] f.op = "ReservedField" -> pos + f.val
                     [] OTHER -> pos

GetFieldNames(w0, info, list) ==
   LET RECURSIVE Go(_, _, _)
       Go(w, pos, i) ==
          LET f == list[i]
          IN
          With(NsLookup(w, f.val[1], info.type, "EXECUTE", {"DONT_OPEN_SCOPE"}), LAMBDA s :
          With(IF Attached(s, s.found) THEN s
               ELSE LoadFieldValue(s, info, pos, f.val[2], s.found), LAMBDA p :
             IF i > Len(list) THEN Ret(w, "OK")
             ELSE IF f.op # "NamedField" THEN Go(w, Advance(f, pos), i + 1)
             ELSE IF s.status # "OK" THEN s
             ELSE IF p.status # "OK" THEN p ELSE Go(p, Advance(f, pos), i + 1)))
   IN Go(w0, 0, 1)

SearchFor(w, op, i, type) == NsLookup(w, op.args[i].val, type, "EXECUTE", {"SEARCH_PARENT"})

LoadCreateField(w, op) ==
   With(SearchFor(w, op, 1, "REGION"), LAMBDA r :
      IF r.status # "OK" THEN r
      ELSE GetFieldNames(r, [type |-> FieldType(op), region |-> r.found, registers |-> {},
                             refs |-> <<r.found>>], FieldList(op)))

CreateBankField(w, op) ==
   With(SearchFor(w, op, 1, "REGION"), LAMBDA r :
   With(SearchFor(r, op, 2, "ANY"), LAMBDA b :
      IF r.status # "OK" THEN r ELSE IF b.status # "OK" THEN b
      ELSE GetFieldNames(b, [type |-> FieldType(op), region |-> r.found,
                             registers |-> {r.found, b.found},
                             refs |-> <<r.found, b.found, 0>>], FieldList(op))))

CreateIndexField(w, op) ==
   With(SearchFor(w, op, 1, "ANY"), LAMBDA x :
   With(SearchFor(x, op, 2, "ANY"), LAMBDA d :
      IF x.status # "OK" THEN x ELSE IF d.status # "OK" THEN d
      ELSE GetFieldNames(d, [type |-> FieldType(op), region |-> NoNode,
                             registers |-> {x.found, d.found},
                             refs |-> <<x.found, d.found>>], FieldList(op))))

\* dsopcode.c: every field of the list gets the bank's value.
EvalBankFieldOperands(w, op) ==
   LET list == SelectSeq(FieldList(op), LAMBDA f : f.op = "NamedField")
       node(f) == NsLookup(w, f.val[1], "ANY", "EXECUTE", {"DONT_OPEN_SCOPE"}).found
       RECURSIVE Go(_, _)
       Go(v, i) == IF i > Len(list) THEN Ret(v, "OK")
                   ELSE IF ~Attached(v, node(list[i])) THEN Ret(v, "NOT_EXIST")
                   ELSE Go([v EXCEPT !.nodes[node(list[i])].obj[3] = ConstValue(op.args[3])], i + 1)
   IN Go(w, 1)

----------------------------------------------------------------------------
(* dswload2.c *)

ScopeTypes == {"ANY", "LOCAL_SCOPE", "DEVICE", "POWER", "PROCESSOR", "THERMAL"}

\* A Scope names what exists.  One over a plain value makes it a scope.
Load2Scope(w, path) ==
   With(NsLookup(w, path, "LOCAL_SCOPE", "EXECUTE", {"SEARCH_PARENT"}), LAMBDA s :
   With(s.nodes[s.found].type, LAMBDA type :
      IF s.status # "OK" \/ type \in ScopeTypes THEN s
      ELSE IF type \in {"INTEGER", "STRING", "BUFFER"}
      THEN [s EXCEPT !.nodes[s.found].type = "ANY", !.dscopes[1].type = "ANY"]
      ELSE IF type = "METHOD" /\ s.found = LoadRoot /\ w.module THEN s
      ELSE Ret(s, "OPERAND_TYPE")))

DeclareFlags(w) ==
   {"PREFIX_MUST_EXIST"} \cup (IF w.pass = 3 THEN {"ERROR_IF_FOUND"} ELSE {})
     \cup (IF w.opcode = "External" THEN {"DONT_OPEN_SCOPE"} ELSE {})

\* The name behind the opcode is read and entered, and the op is made.
Load2BeginNew(w) ==
   With(GetNextNamestring(w), LAMBDA n :
   With([w EXCEPT !.pc = n.pc], LAMBDA v :
   With(IF w.opcode = "Scope" THEN Load2Scope(v, n.val)
        ELSE NsLookup(v, n.val, OpObjectType(w.opcode), "LOAD_PASS2", DeclareFlags(w)), LAMBDA s :
      IF s.status # "OK" THEN s
      ELSE [s EXCEPT !.op = [AllocOp(w.opcode, w.at) EXCEPT !.node = s.found]])))

\* An op that has its node opens the node's scope.
Load2BeginOp(w) ==
   IF w.opcode \in NAMED /\ w.op.node # NoNode /\ OpensScope(OpObjectType(w.opcode))
   THEN Ret(ScopeStackPush(w, w.op.node, OpObjectType(w.opcode)), "OK") ELSE Ret(w, "OK")

CreateSimple(w, op) ==
   LET n == op.node
       value(i) == ConstValue(op.args[i])
   IN
   With(NsLookup(w, op.args[1].val, "ANY", "LOAD_PASS2",
                 {"SEARCH_PARENT", "DONT_OPEN_SCOPE"}), LAMBDA target :
      CASE op.op = "Processor" -> CreateProcessor(w, n, value(1), value(2), value(3))
        [] op.op = "PowerResource" -> CreatePowerResource(w, n, value(1), value(2))
        [] op.op = "Mutex" -> CreateMutex(w, n, value(1))
        [] op.op = "Event" -> CreateEvent(w, n)
        [] op.op = "Alias" -> IF target.status = "NOT_FOUND" THEN Ret(target, "NAME_NOT_FOUND")
                              ELSE IF target.status # "OK" THEN target
                              ELSE CreateAlias(target, n, target.found)
        [] OTHER -> Ret(w, "OK"))

CreateComplex(w, op) ==
   CASE op.op = "OperationRegion" -> CreateRegion(w, op.node, ConstValue(op.args[1]))
     [] op.op = "Name" -> DsCreateNode(w, op.node, op)
     [] op.op = "Method" -> IF Attached(w, op.node) THEN Ret(w, "OK")
                            ELSE CreateMethod(w, op.node, op.data, ConstValue(op.args[1]))

Load2EndOp(w0) ==
   LET op == w0.op
   IN
   With(IF OpensScope(OpObjectType(op.op)) THEN ScopeStackPop(w0) ELSE Ret(w0, "OK"), LAMBDA w :
   With(InitFieldObjects(w, op), LAMBDA entered :
      IF w.status # "OK" THEN w
      ELSE CASE OpType(op.op) = "NAMED_SIMPLE" -> CreateSimple(w, op)
             [] OpType(op.op) = "NAMED_COMPLEX" -> CreateComplex(w, op)
             [] op.op = "Field" -> LoadCreateField(entered, op)
             [] op.op = "BankField" -> CreateBankField(entered, op)
             [] op.op = "IndexField" -> CreateIndexField(entered, op)
             [] OTHER -> w))

----------------------------------------------------------------------------
(* dswexec.c: the callbacks of a table that is executed *)

\* The scope opened while the name was entered is closed and, with the op in
\* hand, opened again.
ExecBegin(w) ==
   With(Load2BeginNew(w), LAMBDA s :
   With(IF OpensScope(OpObjectType(w.opcode)) THEN ScopeStackPop(s) ELSE s, LAMBDA p :
      IF ~IsNone(w.op) THEN Load2BeginOp(w)
      ELSE IF s.status # "OK" THEN s
      ELSE IF p.op.op = "Scope" THEN ScopeStackPush(p, p.op.node, p.nodes[p.op.node].type)
      ELSE Load2BeginOp(p)))

ExecEnd(w) ==
   With(Load2EndOp(w), LAMBDA e :
   LET value(i) == ConstValue(w.op.args[i])
   IN IF OpClass(w.op.op) # "NAMED_OBJECT" THEN Ret(w, "OK")
      ELSE IF e.status # "OK" THEN e
      ELSE CASE w.op.op = "OperationRegion" -> EvalRegionOperands(e, w.op.node, value(2), value(3))
             [] w.op.op = "BankField" -> EvalBankFieldOperands(e, w.op)
             [] OTHER -> e)

----------------------------------------------------------------------------
(* psxface.c, dswstate.c: the walk of a table *)

VARIABLE load      \* the walk state

ExecuteTable(nodes, start, end, owner) ==
   [pc |-> start, end |-> end, pkgEnd |-> end, at |-> start, op |-> NoOp,
    opcode |-> "None", info |-> "None", argTypes |-> <<>>, argCount |-> 0, arg |-> <<>>,
    scopes |-> InitScope(AllocOp("Scope", start), end), ctl |-> <<>>, lastWhile |-> 0,
    callNode |-> NoNode, returnUsed |-> FALSE, pass |-> 3, module |-> TRUE,
    status |-> "OK", done |-> FALSE, params |-> <<>>,
    nodes |-> nodes, dscopes |-> <<[node |-> LoadRoot, type |-> "METHOD"]>>,
    found |-> NoNode, owner |-> owner]

ParseTable ==
   /\ ~load.done
   /\ load' = ParseStep(load)
   /\ UNCHANGED aml

-----------------------------------------------------------------------------
(***************************************************************************)
(* Two tables for AmlLoad to load, one after the other, given as trees of  *)
(* declarations that are encoded to byte code.  What they mean is defined  *)
(* here by structural recursion, on paths instead of nodes and scopes.     *)
(***************************************************************************)

CONSTANT Cases      \* pairs of tables with their meaning, McCases below

VARIABLE choice     \* what the two tables mean, and the one being loaded

McOsName == <<87>>

----------------------------------------------------------------------------
(* Declarations and their encoding *)

\* up: the carats in front of the names, or -1 for an absolute path
Path(up, names) == [up |-> up, names |-> names]
PlainPath(name) == Path(0, <<name>>)
NoPath == Path(0, <<>>)

\* k: the opcode; p: the declared name; q, r: names it refers to
LoadTree(k, p, q, r, n, list, body) ==
   [k |-> k, p |-> p, q |-> q, r |-> r, n |-> n, list |-> list, body |-> body]
Leaf(k, p, n) == LoadTree(k, p, NoPath, NoPath, n, <<>>, <<>>)
Inside(k, p, n, body) == LoadTree(k, p, NoPath, NoPath, n, <<>>, body)

AAAA == <<65, 65, 65, 65>>
BBBB == <<66, 66, 66, 66>>
XXXX == <<88, 88, 88, 88>>
YYYY == <<89, 89, 89, 89>>
ZZZZ == <<90, 90, 90, 90>>
VVVV == <<86, 86, 86, 86>>
WWWW == <<87, 87, 87, 87>>
RRRR == <<82, 82, 82, 82>>
Bad0 == <<98, 66, 66, 66>>     \* not a name character in front
SB == <<95, 83, 66, 95>>

LoadOpBytes(k) == LET c == AmlOpcode[k] IN IF c > 255 THEN <<c \div 256, c % 256>> ELSE <<c>>

PathBytes(p) ==
   (IF p.up = -1 THEN <<ROOT_PREFIX>> ELSE [i \in 1..p.up |-> PARENT_PREFIX]) \o
   (CASE Len(p.names) = 0 -> <<0>>
      [] Len(p.names) = 1 -> p.names[1]
      [] Len(p.names) = 2 -> <<DUAL_NAME_PREFIX>> \o p.names[1] \o p.names[2]
      [] OTHER -> <<MULTI_NAME_PREFIX, Len(p.names)>> \o FlattenSeq(p.names))

LoadSized(bytes) == IF Len(bytes) < 63 THEN <<Len(bytes) + 1>> \o bytes
                    ELSE <<64 + ((Len(bytes) + 2) % 16), (Len(bytes) + 2) \div 16>> \o bytes

\* A field list: [name, bits]; a gap has no name.
FieldBytes(list) ==
   FlattenSeq([i \in DOMAIN list |-> (IF list[i][1] = <<>> THEN <<0>> ELSE list[i][1])
                                       \o <<list[i][2]>>])

RECURSIVE EncodeDecl(_)
EncodeDecl(d) ==
   LET body == FlattenSeq([i \in DOMAIN d.body |-> EncodeDecl(d.body[i])])
       p == PathBytes(d.p)
       sized(bytes) == LoadOpBytes(d.k) \o LoadSized(bytes)
   IN CASE d.k = "Name" -> LoadOpBytes("Name") \o p \o <<10, d.n[1]>>
        [] d.k = "Mutex" -> LoadOpBytes("Mutex") \o p \o d.n
        [] d.k = "Event" -> LoadOpBytes("Event") \o p
        [] d.k = "Alias" -> LoadOpBytes("Alias") \o PathBytes(d.q) \o p
        [] d.k = "OperationRegion" ->
             LoadOpBytes("OperationRegion") \o p \o <<d.n[1], 10, d.n[2], 10, d.n[3]>>
        [] d.k \in {"Scope", "Device", "ThermalZone"} -> sized(p \o body)
        [] d.k = "Processor" -> sized(p \o <<d.n[1], d.n[2], 0, 0, 0, d.n[3]>> \o body)
        [] d.k = "PowerResource" -> sized(p \o <<d.n[1], d.n[2], 0>> \o body)
        [] d.k = "Method" -> sized(p \o d.n \o <<164, 0>>)
        [] d.k = "Field" -> sized(PathBytes(d.q) \o <<1>> \o FieldBytes(d.list))
        [] d.k = "IndexField" ->
             sized(PathBytes(d.q) \o PathBytes(d.r) \o <<1>> \o FieldBytes(d.list))
        [] d.k = "BankField" ->
             sized(PathBytes(d.q) \o PathBytes(d.r) \o <<10, d.n[1], 1>> \o FieldBytes(d.list))

EncodeTable(t) == FlattenSeq([i \in DOMAIN t |-> EncodeDecl(t[i])])

----------------------------------------------------------------------------
(* The tables *)

FieldOf(k, q, r, n, list) == LoadTree(k, NoPath, q, r, n, list, <<>>)

Leaves == <<
   <<Leaf("Name", PlainPath(AAAA), <<5>>)>>,
   <<Leaf("Mutex", PlainPath(BBBB), <<1>>), Leaf("Event", Path(1, <<BBBB>>), <<>>)>>,
   <<LoadTree("Alias", PlainPath(BBBB), PlainPath(AAAA), NoPath, <<>>, <<>>, <<>>)>>,
   <<LoadTree("Alias", Path(-1, <<SB, BBBB>>), Path(1, <<AAAA>>), NoPath, <<>>, <<>>, <<>>),
     LoadTree("Alias", PlainPath(XXXX), Path(-1, <<SB, BBBB>>), NoPath, <<>>, <<>>, <<>>)>>,
   <<Leaf("Method", PlainPath(AAAA), <<58>>),
     LoadTree("Alias", PlainPath(Bad0), PlainPath(AAAA), NoPath, <<>>, <<>>, <<>>)>>,
   <<Leaf("OperationRegion", PlainPath(RRRR), <<1, 16, 8>>),
     FieldOf("Field", PlainPath(RRRR), NoPath, <<>>, <<<<XXXX, 4>>, <<<<>>, 4>>, <<YYYY, 8>>>>)>>,
   <<FieldOf("IndexField", PlainPath(XXXX), PlainPath(YYYY), <<>>, <<<<VVVV, 8>>>>)>>,
   <<FieldOf("BankField", Path(-1, <<RRRR>>), PlainPath(XXXX), <<3>>, <<<<<<>>, 2>>, <<WWWW, 2>>>>)>>,
   <<FieldOf("Field", Path(1, <<RRRR>>), NoPath, <<>>, <<<<XXXX, 4>>>>)>>,
   <<Inside("Device", PlainPath(AAAA), <<>>, <<Leaf("Name", PlainPath(Bad0), <<7>>)>>),
     Inside("Scope", Path(0, <<AAAA>>), <<>>, <<Leaf("Name", Path(1, <<BBBB>>), <<8>>)>>)>>,
   <<Inside("PowerResource", PlainPath(BBBB), <<2, 3>>, <<Leaf("Name", Path(2, <<XXXX>>), <<9>>)>>)>>,
   <<Inside("Scope", Path(-1, <<AAAA, BBBB>>), <<>>, <<Leaf("Name", PlainPath(YYYY), <<1>>)>>)>> >>

Outer(i, body) ==
   CASE i = 1 -> Inside("Device", PlainPath(AAAA), <<>>, body)
     [] i = 2 -> Inside("Scope", Path(-1, <<SB>>), <<>>, body)
     [] i = 3 -> Inside("Device", Path(-1, <<SB, AAAA>>), <<>>, body)
     [] i = 4 -> Inside("Processor", PlainPath(BBBB), <<1, 20, 6>>, body)
     [] i = 5 -> Inside("ThermalZone", Path(-1, <<XXXX, AAAA>>), <<>>, body)
     [] i = 6 -> Inside("Scope", Path(0, <<SB, AAAA>>), <<>>, body)

\* A declaration that is refused with its body must not be the last of a scope:
\* the parser then goes on behind the scope without having closed it.
Closing == <<Leaf("Event", PlainPath(ZZZZ), <<>>)>>

Table1(c) == <<Outer(c.outer, Leaves[c.a] \o Leaves[c.b] \o Closing)>> \o Leaves[c.a]
Table2(c) == Leaves[c.b] \o <<Outer(1 + (c.outer % 6), Leaves[c.a] \o Closing)>>

----------------------------------------------------------------------------
(* The meaning of a table.  A namespace is a function from absolute paths   *)
(* to [type, owner, vals, refs], refs being paths.                         *)

Holds(type) == OpensScope(type) \/ type = "ANY"
Parent(path) == SubSeq(path, 1, Len(path) - 1)
Missing == <<<<0, 0, 0, 0>>>>

\* The object an alias of a method stands for is the method.
Real(ns, path) ==
   IF path \in DOMAIN ns /\ ns[path].type = "LOCAL_METHOD_ALIAS" THEN ns[path].refs[1] ELSE path

\* An alias that was refused stands for nothing.
Broken(ns, path) == ns[path].type = "LOCAL_ALIAS" /\ ns[path].refs = <<>>

\* Where a declaration of p made in scope puts its name: <<>> when it cannot.
RECURSIVE Into(_, _, _)
Into(ns, at, names) ==
   LET next == Real(ns, Append(at, RepairName(names[1])))
       through == IF ns[next].type = "LOCAL_ALIAS" /\ OpensScope(ns[ns[next].refs[1]].type)
                  THEN ns[next].refs[1] ELSE next
   IN IF Len(names) = 1 THEN Append(at, RepairName(names[1]))
      ELSE IF next \notin DOMAIN ns \/ Broken(ns, next) THEN Missing ELSE Into(ns, through, Tail(names))

LoadStart(scope, p) == IF p.up = -1 THEN <<>>
                   ELSE IF p.up > Len(scope) THEN Missing
                   ELSE SubSeq(scope, 1, Len(scope) - p.up)

Declared(ns, scope, p) ==
   IF LoadStart(scope, p) = Missing THEN Missing ELSE Into(ns, LoadStart(scope, p), p.names)

\* What p refers to from scope: a single plain name in the nearest scope around.
RECURSIVE Around(_, _, _)
Around(ns, scope, name) ==
   IF Append(scope, name) \in DOMAIN ns THEN Real(ns, Append(scope, name))
   ELSE IF scope = <<>> THEN Missing ELSE Around(ns, Parent(scope), name)

Meant(ns, scope, p) ==
   LET there == Declared(ns, scope, p)
   IN IF p.up = 0 /\ Len(p.names) = 1 THEN Around(ns, scope, RepairName(p.names[1]))
      ELSE IF there \in DOMAIN ns THEN Real(ns, there) ELSE Missing

Entry(type, owner, vals, refs) == [type |-> type, owner |-> owner, vals |-> vals, refs |-> refs]
Placed(ns, path, e) == (path :> e) @@ ns

\* The names of a list, and then their objects if what they stand on is there.
WithFields(ns0, scope, d, owner) ==
   LET type == FieldType([op |-> d.k])
       named == {i \in DOMAIN d.list : d.list[i][1] # <<>>}
       place(i) == Append(scope, d.list[i][1])
       ns == [x \in DOMAIN ns0 \cup {place(i) : i \in named} |->
                IF x \in DOMAIN ns0 THEN ns0[x] ELSE Entry(type, owner, <<>>, <<>>)]
       before(i) == FoldLeft(LAMBDA s, e : s + e[2], 0, SubSeq(d.list, 1, i - 1))
       q == Meant(ns, scope, d.q)
       r == Meant(ns, scope, d.r)
       full(x) == x \in DOMAIN ns /\ (ns[x].vals # <<>> \/ ns[x].refs # <<>>)
       sound == /\ q # Missing
                /\ d.k # "IndexField" => ns[q].type = "REGION"
                /\ d.k # "Field" => r # Missing /\ full(q) /\ full(r)
       refs == IF d.k = "Field" THEN <<q>> ELSE <<q, r>>
       fresh == {i \in named : ~full(place(i))}
       bits(i) == (IF d.k = "BankField" THEN d.n ELSE <<>>) \o <<before(i), d.list[i][2]>>
       done == [x \in DOMAIN ns |->
                  IF \E i \in fresh : place(i) = x
                  THEN LET i == CHOOSE i \in fresh : place(i) = x
                       IN [ns[x] EXCEPT !.vals = bits(i), !.refs = refs]
                  ELSE ns[x]]
   IN IF sound THEN done ELSE ns

RECURSIVE Declare(_, _, _, _)
Declare(ns, scope, d, owner) ==
   LET here == Declared(ns, scope, d.p)
       free == here # Missing /\ here \notin DOMAIN ns
       type == OpObjectType(d.k)
       vals == CASE d.k = "Method" -> <<2, d.n[1] % 8, (d.n[1] \div 8) % 2, d.n[1] \div 16>>
                 [] d.k = "Event" -> <<0>>
                 [] OTHER -> d.n
       kind == IF d.k = "Name" THEN "INTEGER" ELSE type
       refs == IF d.k = "OperationRegion" THEN <<scope>> ELSE <<>>
       made == Placed(ns, here, Entry(kind, owner, vals, refs))
       \* The object of a processor or power resource comes with its end.
       opened == Placed(ns, here, Entry(type, owner, <<>>, <<>>))
       run(n0, at) == FoldLeft(LAMBDA n, x : Declare(n, at, x, owner), n0, d.body)
       inner == run(opened, here)
       place == Meant(ns, scope, d.p)
       \* An alias of what does not exist makes a name of no type for it.
       aliased == Placed(ns, here, Entry(type, owner, <<>>, <<>>))
       source == Meant(aliased, scope, d.q)
       entered == Declared(aliased, scope, d.q)
       withSource == IF source # Missing THEN aliased
                     ELSE Placed(aliased, entered, Entry("ANY", owner, <<>>, <<>>))
       target0 == IF source # Missing THEN source ELSE entered
       target == IF withSource[target0].type = "LOCAL_ALIAS" /\ withSource[target0].refs # <<>>
                 THEN withSource[target0].refs[1] ELSE target0
   IN CASE d.k \in {"Field", "IndexField", "BankField"} -> WithFields(ns, scope, d, owner)
        [] d.k = "Scope" ->
             IF place = Missing THEN ns
             ELSE run(IF ns[place].type \in {"INTEGER", "STRING"}
                      THEN [ns EXCEPT ![place].type = "ANY"] ELSE ns, place)
        [] d.k = "Alias" ->
             IF ~free THEN ns
             ELSE IF target0 = Missing THEN aliased
             ELSE IF Broken(withSource, target0) THEN withSource
             ELSE Placed(withSource, here,
                       Entry(IF withSource[target].type = "METHOD" THEN "LOCAL_METHOD_ALIAS"
                             ELSE "LOCAL_ALIAS", owner, <<>>, <<target>>))
        [] OTHER -> IF ~free THEN ns
                    ELSE IF d.k \in {"Device", "ThermalZone"} THEN inner
                    ELSE IF d.k \in {"Processor", "PowerResource"}
                    THEN [inner EXCEPT ![here].vals = d.n]
                    ELSE made

Meaning(ns, t, owner) == FoldLeft(LAMBDA n, d : Declare(n, <<>>, d, owner), ns, t)

Seed == [x \in {<<>>} \cup {<<p.name>> : p \in {AcpiGbl_PreDefinedNames[i] :
                                                i \in DOMAIN AcpiGbl_PreDefinedNames}} |->
           IF x = <<>> THEN Entry("DEVICE", 0, <<>>, <<>>)
           ELSE LET i == CHOOSE i \in DOMAIN AcpiGbl_PreDefinedNames :
                            AcpiGbl_PreDefinedNames[i].name = x[1]
                    p == AcpiGbl_PreDefinedNames[i]
                IN Entry(p.type, 0, IF p.type = "METHOD" THEN Tail(p.val) ELSE p.val, <<>>)]

\* A Scope over something that cannot be one is left to a run of its own.
RECURSIVE ScopesSound(_, _, _, _)
ScopesSound(ns, scope, t, owner) ==
   IF t = <<>> THEN TRUE ELSE
   LET d == t[1]
       place == Meant(ns, scope, d.p)
       at == IF d.k = "Scope" THEN place ELSE Declared(ns, scope, d.p)
       bad == /\ d.k = "Scope" /\ place # Missing
              /\ ns[place].type \notin ScopeTypes \cup {"INTEGER", "STRING"}
       enter == IF d.k = "Scope" \/ d.body = <<>> THEN ns
                ELSE Placed(ns, at, Entry(OpObjectType(d.k), owner, <<>>, <<>>))
       goes == at # Missing /\ (d.k = "Scope" \/ at \notin DOMAIN ns)
   IN /\ ~bad
      /\ (d.body # <<>> /\ goes) => ScopesSound(enter, at, d.body, owner)
      /\ ScopesSound(Declare(ns, scope, d, owner), scope, Tail(t), owner)

----------------------------------------------------------------------------
(* The run *)

LoadChoices == [outer : 1..6, a : DOMAIN Leaves, b : DOMAIN Leaves]

McCases ==
   LET First(c) == Meaning(Seed, Table1(c), 1)
       sound == {c \in LoadChoices : /\ ScopesSound(Seed, <<>>, Table1(c), 1)
                                     /\ ScopesSound(First(c), <<>>, Table2(c), 2)}
   IN {[aml |-> <<EncodeTable(Table1(c)), EncodeTable(Table2(c))>>,
        meaning |-> <<First(c), Meaning(First(c), Table2(c), 2)>>] : c \in sound}

LoadInit ==
   \E c \in Cases :
      /\ choice = [meaning |-> c.meaning, table |-> 1]
      /\ aml = c.aml[1] \o c.aml[2] \o <<0>>
      /\ load = ExecuteTable(RootInitialize, 1, Len(c.aml[1]) + 1, 1)

NextTable ==
   /\ load.done /\ choice.table = 1
   /\ choice' = [choice EXCEPT !.table = 2]
   /\ load' = ExecuteTable(load.nodes, load.end, Len(aml), 2)
   /\ UNCHANGED aml

LoadNext == (ParseTable /\ UNCHANGED choice) \/ NextTable

----------------------------------------------------------------------------
(* Properties *)

RECURSIVE PathOf(_, _)
PathOf(nodes, n) == IF nodes[n].parent = NoNode THEN <<>>
                    ELSE Append(PathOf(nodes, nodes[n].parent), nodes[n].name)

NodeView(nodes, n) ==
   LET o == nodes[n].obj
       refs == CASE nodes[n].type \in {"LOCAL_ALIAS", "LOCAL_METHOD_ALIAS",
                                       "LOCAL_REGION_FIELD"} -> {1}
                 [] nodes[n].type \in {"LOCAL_BANK_FIELD", "LOCAL_INDEX_FIELD"} -> {1, 2}
                 [] nodes[n].type = "REGION" -> {4}
                 [] OTHER -> {}
       skip == IF nodes[n].type = "METHOD" THEN {1} ELSE {}
       pick(S) == LET keep == SelectSeq([i \in 1..Len(o) |-> i], LAMBDA i : i \in S)
                  IN [j \in DOMAIN keep |-> o[keep[j]]]
       nodeRefs == pick(refs)
   IN IF o = <<>> THEN Entry(nodes[n].type, nodes[n].owner, <<>>, <<>>)
      ELSE Entry(nodes[n].type, nodes[n].owner, pick(DOMAIN o \ (refs \cup skip)),
                 [j \in DOMAIN nodeRefs |-> PathOf(nodes, nodeRefs[j])])

NamespaceView ==
   [x \in {PathOf(load.nodes, n) : n \in DOMAIN load.nodes} |->
      NodeView(load.nodes, CHOOSE n \in DOMAIN load.nodes : PathOf(load.nodes, n) = x)]

\* After a table has been executed (AcpiPsExecuteTable) the namespace holds what
\* the table's declarations say and nothing else: every name in the scope the
\* declaration names, with its type, its owner and its object, each reference
\* to the node that name means there; a second declaration of a name changes
\* nothing, is skipped with its body, and does not disturb what follows it.
NamespaceAsDeclared ==
   load.done => NamespaceView = choice.meaning[choice.table]

\* The scope stack of the namespace (dswscope.c) follows the parser's own stack
\* of open ops (psscope.c): at every point between two ops it holds the nodes of
\* the open ops that open a scope, in order, on top of the scope of the table.
ScopesFollowParser ==
   LET open == SelectSeq((IF IsNone(load.op) THEN <<>> ELSE <<load.op>>) \o
                         [i \in 1..(Len(load.scopes) - 1) |-> load.scopes[i].op],
                         LAMBDA o : OpensScope(OpObjectType(o.op)))
   IN [i \in DOMAIN load.dscopes |-> load.dscopes[i].node] =
         [i \in DOMAIN open |-> open[i].node] \o <<LoadRoot>>
=============================================================================
