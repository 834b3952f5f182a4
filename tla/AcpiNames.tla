------------------------------ MODULE AcpiNames -----------------------------
(***************************************************************************)
(* Pathnames: from a node to its path (nsnames.c) and from a path through  *)
(* its internal form back to a node (nsutils.c, the lookup of nsaccess.c,  *)
(* AcpiGetHandle and AcpiGetName of nsxfname.c).                           *)
(*                                                                         *)
(* The namespace is a sequence of nodes [parent, name]; node 1 is the      *)
(* root.  Characters are their codes, a C string is its characters without *)
(* the terminator.  The memory a name is built in is a sequence of bytes   *)
(* whose length is what was allocated.                                     *)
(***************************************************************************)
EXTENDS Integers, Sequences, SequencesExt, Binding, FiniteSets

CONSTANTS SegSize,      \* ACPI_NAMESEG_SIZE: characters in a name segment, 4 in the code
          NoBuffer, AllocateBuffer, AllocateLocal    \* the lengths with a meaning of their own

ROOT_PREFIX == 92      \* also '\'
PARENT_PREFIX == 94    \* also '^'
DUAL_PREFIX == 46      \* also '.', the path separator
MULTI_PREFIX == 47
UNDERSCORE == 95
NUL == 0
NoNode == 0
RootNode == 1

ToUpper(c) == IF c \in 97..122 THEN c - 32 ELSE c

\* The character at a place of a C string, 1-based.
At(s, i) == IF i \in DOMAIN s THEN s[i] ELSE NUL

----------------------------------------------------------------------------
(* nsnames.c *)

\* The characters of a name from its end, without the underscores that end it
\* when these are not wanted.
SegmentReversed(name, noTrailing) ==
   LET last == IF noTrailing /\ \E i \in DOMAIN name : name[i] # UNDERSCORE
               THEN CHOOSE i \in DOMAIN name : name[i] # UNDERSCORE /\ \A j \in (i + 1)..Len(name) : name[j] = UNDERSCORE
               ELSE IF noTrailing THEN 0 ELSE Len(name)
   IN Reverse(SubSeq(name, 1, last))

RECURSIVE PathReversed(_, _, _, _)
PathReversed(nodes, node, n, noTrailing) ==
   IF n \in {RootNode, NoNode} THEN <<ROOT_PREFIX>>
   ELSE (IF n # node THEN <<DUAL_PREFIX>> ELSE <<>>) \o SegmentReversed(nodes[n].name, noTrailing)
        \o PathReversed(nodes, node, nodes[n].parent, noTrailing)

\* AcpiNsBuildNormalizedPath: what is put in a buffer of that size, and the size
\* needed.  Built from the node up, then turned round if all of it was put.
NsBuildNormalizedPath(nodes, node, size, noTrailing) ==
   LET reversed == IF node = NoNode THEN <<>> ELSE PathReversed(nodes, node, node, noTrailing)
   IN
   With(Len(reversed), LAMBDA length :
   With(SubSeq(reversed, 1, IF length < size THEN length ELSE size), LAMBDA kept :
   With(IF node # NoNode /\ length <= size THEN Reverse(kept) ELSE kept, LAMBDA text :
      [length |-> length + 1, text |-> IF length < size THEN Append(text, NUL) ELSE text])))

\* AcpiUtInitializeBuffer: [st, length, room], room being the bytes that may be written.
UtInitializeBuffer(length, required) ==
   CASE required = 0 -> [st |-> "BAD_PARAMETER", length |-> length, room |-> 0]
     [] required # 0 /\ length = NoBuffer -> [st |-> "BUFFER_OVERFLOW", length |-> required, room |-> 0]
     [] required # 0 /\ length \in {AllocateBuffer, AllocateLocal} -> [st |-> "OK", length |-> required, room |-> required]
     [] OTHER -> [st |-> IF length < required THEN "BUFFER_OVERFLOW" ELSE "OK", length |-> required, room |-> length]

\* A pointer is there unless one is to be allocated.
UtValidateBuffer(length, pointer) ==
   IF length \in {NoBuffer, AllocateBuffer, AllocateLocal} \/ pointer THEN "OK" ELSE "BAD_PARAMETER"

NsHandleToPathname(nodes, node, length, noTrailing) ==
   With(NsBuildNormalizedPath(nodes, node, 0, noTrailing).length, LAMBDA required :
   With(UtInitializeBuffer(length, required), LAMBDA b :
      [st |-> b.st, length |-> b.length, room |-> b.room,
       text |-> IF b.st = "OK" THEN NsBuildNormalizedPath(nodes, node, required, noTrailing).text ELSE <<>>]))

NsHandleToName(nodes, node, length) ==
   LET b == UtInitializeBuffer(length, SegSize + 1)
   IN [st |-> b.st, length |-> b.length, room |-> b.room,
       text |-> IF b.st = "OK" THEN Append(nodes[node].name, NUL) ELSE <<>>]

AcpiGetName(nodes, node, type, length, pointer) ==
   LET r == IF type = "SINGLE" THEN NsHandleToName(nodes, node, length)
            ELSE NsHandleToPathname(nodes, node, length, type = "FULL_NO_TRAILING")
   IN IF UtValidateBuffer(length, pointer) # "OK"
      THEN [st |-> "BAD_PARAMETER", length |-> length, room |-> 0, text |-> <<>>] ELSE r

----------------------------------------------------------------------------
(* nsutils.c *)

PrefixLength(path, c) == IF \A i \in DOMAIN path : path[i] = c THEN Len(path)
                         ELSE (CHOOSE i \in DOMAIN path : path[i] # c /\ \A j \in 1..(i - 1) : path[j] = c) - 1

\* AcpiNsGetInternalNameLength
NsGetInternalNameLength(path) ==
   LET full == At(path, 1) = ROOT_PREFIX
       skip == PrefixLength(path, IF full THEN ROOT_PREFIX ELSE PARENT_PREFIX)
       rest == SubSeq(path, skip + 1, Len(path))
       segments == IF rest = <<>> THEN 0 ELSE 1 + Len(SelectSeq(rest, LAMBDA c : c = DUAL_PREFIX))
       carats == IF full THEN 0 ELSE skip
   IN [full |-> full, carats |-> carats, segments |-> segments, rest |-> rest,
       length |-> SegSize * segments + 4 + carats]


NamePrefix(segments) ==
   CASE segments <= 1 -> <<>>
     [] segments = 2 -> <<DUAL_PREFIX>>
     [] OTHER -> <<MULTI_PREFIX, segments>>

IsEnd(c) == c \in {DUAL_PREFIX, NUL}

\* The segments one after the other, each filled up with underscores; the place
\* in the path after a segment must hold a separator or the end.
RECURSIVE BuildSegments(_, _, _)
BuildSegments(rest, from, segments) ==
   LET size == CHOOSE k \in 0..SegSize : /\ \A i \in 0..(k - 1) : ~IsEnd(At(rest, from + i))
                                         /\ k < SegSize => IsEnd(At(rest, from + k))
       name == [i \in 1..SegSize |-> IF i <= size THEN ToUpper(At(rest, from + i - 1)) ELSE UNDERSCORE]
       more == BuildSegments(rest, from + size + 1, segments - 1)
   IN IF segments = 0 THEN [st |-> "OK", bytes |-> <<>>]
      ELSE IF ~IsEnd(At(rest, from + size)) THEN [st |-> "BAD_PATHNAME", bytes |-> name]
      ELSE [st |-> more.st, bytes |-> name \o more.bytes]

NsBuildInternalName(info) ==
   LET prefix == (IF info.full THEN <<ROOT_PREFIX>> ELSE [i \in 1..info.carats |-> PARENT_PREFIX]) \o NamePrefix(info.segments)
   IN
   With(BuildSegments(info.rest, 1, info.segments), LAMBDA built :
      [st |-> built.st,
       bytes |-> IF built.st = "OK" THEN Append(prefix \o built.bytes, NUL) ELSE prefix \o built.bytes])

NsInternalizeName(path) ==
   IF path = <<>> THEN [st |-> "BAD_PARAMETER", bytes |-> <<>>]
   ELSE NsBuildInternalName(NsGetInternalNameLength(path))

\* AcpiNsExternalizeName of a terminated internal name.  A segment's characters
\* are legal here, so AcpiUtRepairName leaves them alone.
NsExternalizeName(name) ==
   With(IF At(name, 1) = ROOT_PREFIX THEN 1
        ELSE IF At(name, 1) = PARENT_PREFIX THEN PrefixLength(name, PARENT_PREFIX) ELSE 0, LAMBDA prefix :
   With(At(name, prefix + 1), LAMBDA c :
   With(CASE c = MULTI_PREFIX -> At(name, prefix + 2)
          [] c = DUAL_PREFIX -> 2
          [] c = NUL -> 0
          [] OTHER -> 1, LAMBDA segments :
   With(prefix + (CASE c = MULTI_PREFIX -> 2 [] c = DUAL_PREFIX -> 1 [] OTHER -> 0), LAMBDA names :
   LET Segment(i) == (IF i > 1 THEN <<DUAL_PREFIX>> ELSE <<>>) \o SubSeq(name, names + (i - 1) * SegSize + 1, names + i * SegSize)
   IN [text |-> SubSeq(name, 1, prefix) \o FlattenSeq([i \in 1..segments |-> Segment(i)]),
       required |-> prefix + SegSize * segments + (IF segments > 0 THEN segments - 1 ELSE 0) + 1]))))

\* A handle that is not given stands for the root.
NsValidateHandle(node) == IF node = NoNode THEN RootNode ELSE node

ChildNamed(nodes, parent, name) ==
   LET hits == {i \in DOMAIN nodes : nodes[i].parent = parent /\ nodes[i].name = name}
   IN IF hits = {} THEN NoNode ELSE CHOOSE i \in hits : TRUE

RECURSIVE Descend(_, _, _)
Descend(nodes, node, names) ==
   IF names = <<>> \/ node = NoNode THEN node
   ELSE Descend(nodes, ChildNamed(nodes, node, SubSeq(names, 1, SegSize)), SubSeq(names, SegSize + 1, Len(names)))

RECURSIVE Ancestor(_, _, _)
Ancestor(nodes, node, n) == IF n = 0 \/ node = NoNode THEN node ELSE Ancestor(nodes, nodes[node].parent, n - 1)

\* AcpiNsLookup of an internal name without a search of the parents.
NsLookup(nodes, scope, name) ==
   LET start == IF At(name, 1) = ROOT_PREFIX THEN RootNode
                ELSE Ancestor(nodes, NsValidateHandle(scope), PrefixLength(name, PARENT_PREFIX))
       prefix == IF At(name, 1) = ROOT_PREFIX THEN 1 ELSE PrefixLength(name, PARENT_PREFIX)
   IN
   With(At(name, prefix + 1), LAMBDA c :
   With(prefix + (CASE c = MULTI_PREFIX -> 2 [] c = DUAL_PREFIX -> 1 [] OTHER -> 0), LAMBDA names :
   LET segments == CASE c = MULTI_PREFIX -> At(name, prefix + 2) [] c = DUAL_PREFIX -> 2 [] c = NUL -> 0 [] OTHER -> 1
   IN Descend(nodes, start, SubSeq(name, names + 1, names + segments * SegSize))))

\* AcpiNsGetNode: [st, node].
NsGetNode(nodes, prefix, path) ==
   With(NsInternalizeName(path), LAMBDA internal :
   With(NsLookup(nodes, prefix, internal.bytes), LAMBDA found :
      IF path = <<ROOT_PREFIX>> THEN [st |-> "OK", node |-> RootNode]
      ELSE IF internal.st # "OK" THEN [st |-> internal.st, node |-> NoNode]
      ELSE [st |-> IF found = NoNode THEN "NOT_FOUND" ELSE "OK", node |-> found]))

\* AcpiGetHandle: a relative path needs a parent.
AcpiGetHandle(nodes, parent, path) ==
   IF At(path, 1) # ROOT_PREFIX /\ parent = NoNode THEN [st |-> "BAD_PARAMETER", node |-> NoNode]
   ELSE NsGetNode(nodes, parent, path)

-----------------------------------------------------------------------------
(***************************************************************************)
(* Every small namespace and every short path in it.                       *)
(***************************************************************************)

CONSTANTS MaxNodes, MaxPath

VARIABLES nodes,    \* the namespace
          path      \* a path a caller asks for

vars == <<nodes, path>>

A == 65
b == 98
Names == {<<A, UNDERSCORE>>, <<A, 66>>}
Alphabet == {ROOT_PREFIX, PARENT_PREFIX, DUAL_PREFIX, A, b}

Init == nodes = <<[parent |-> NoNode, name |-> <<ROOT_PREFIX, UNDERSCORE>>]>> /\ path = <<>>

\* A table declares a name.
Declare == \E p \in DOMAIN nodes : \E n \in Names :
   /\ path = <<>> /\ Len(nodes) < MaxNodes
   /\ ChildNamed(nodes, p, n) = NoNode
   /\ nodes' = Append(nodes, [parent |-> p, name |-> n]) /\ UNCHANGED path

\* The caller's path has one more character.
Spell == /\ Len(nodes) = MaxNodes /\ Len(path) < MaxPath
         /\ \E c \in Alphabet : path' = Append(path, c)
         /\ UNCHANGED nodes

Next == Declare \/ Spell
Spec == Init /\ [][Next]_vars

----------------------------------------------------------------------------
\* A path's names: the parts between separators, in upper case and filled up.
Parts(rest) ==
   LET cut == {0, Len(rest) + 1} \cup {i \in DOMAIN rest : rest[i] = DUAL_PREFIX}
       cuts == SetToSortSeq(cut, <)
   IN IF rest = <<>> THEN <<>> ELSE [i \in 1..(Len(cuts) - 1) |-> SubSeq(rest, cuts[i] + 1, cuts[i + 1] - 1)]
Filled(part) == [i \in 1..SegSize |-> IF i <= Len(part) THEN ToUpper(part[i]) ELSE UNDERSCORE]

RECURSIVE Follow(_, _)
Follow(node, parts) == IF parts = <<>> \/ node = NoNode THEN node
                       ELSE Follow(ChildNamed(nodes, node, Filled(Head(parts))), Tail(parts))

Meaning(handle, p) ==
   LET full == p[1] = ROOT_PREFIX
       skip == PrefixLength(p, IF full THEN ROOT_PREFIX ELSE PARENT_PREFIX)
   IN
   With(Parts(SubSeq(p, skip + 1, Len(p))), LAMBDA parts :
      IF ~full /\ handle = NoNode THEN NoNode
      ELSE IF \E i \in DOMAIN parts : Len(parts[i]) > SegSize THEN NoNode
      ELSE Follow(IF full THEN RootNode ELSE Ancestor(nodes, handle, skip), parts))

\* AcpiGetHandle finds the node a path means, from every handle: through the
\* length AcpiNsGetInternalNameLength computes, which the internal name never
\* exceeds, the prefixes AcpiNsBuildInternalName chooses by the number of
\* segments, and the lookup that reads them back.
PathMeansNode ==
   path # <<>> =>
      /\ \A h \in {NoNode} \cup DOMAIN nodes : AcpiGetHandle(nodes, h, path).node = Meaning(h, path)
      /\ With(NsInternalizeName(path), LAMBDA i :
         With(NsExternalizeName(Front(i.bytes)), LAMBDA x :
            /\ Len(i.bytes) <= NsGetInternalNameLength(path).length
            /\ i.st = "OK" => Len(x.text) + 1 = x.required /\ NsInternalizeName(x.text).bytes = i.bytes))

\* A caller that asks AcpiGetName how long a path is (ACPI_NO_BUFFER), and then
\* asks again with a buffer of that length, gets the whole terminated path, no
\* byte of it outside the buffer, and AcpiGetHandle leads from it back to the
\* node; one byte less is refused with the same length.
PathRoundTrip ==
   path = <<>> => \A n \in DOMAIN nodes : \A type \in {"FULL", "FULL_NO_TRAILING"} :
      With(AcpiGetName(nodes, n, type, NoBuffer, FALSE), LAMBDA need :
      With(AcpiGetName(nodes, n, type, need.length, TRUE), LAMBDA got :
      With(AcpiGetName(nodes, n, type, need.length - 1, TRUE), LAMBDA short :
         /\ need.st = "BUFFER_OVERFLOW"
         /\ got.st = "OK" /\ Len(got.text) <= got.room /\ Last(got.text) = NUL
         /\ AcpiGetHandle(nodes, NoNode, Front(got.text)) = [st |-> "OK", node |-> n]
         /\ short.st = "BUFFER_OVERFLOW" /\ short.length = need.length)))
=============================================================================
