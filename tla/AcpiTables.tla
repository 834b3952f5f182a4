----------------------------- MODULE AcpiTables -----------------------------
(***************************************************************************)
(* ACPICA's table manager (tables/tbdata.c, tbinstal.c, tbutils.c,         *)
(* tbxface.c, tbxfload.c, tbfind.c), with the loading of a table into the  *)
(* namespace (namespace/nsload.c, nsparse.c) and the Load and LoadTable    *)
(* operators (executer/exconfig.c).                                        *)
(*                                                                         *)
(* A step is a critical section of ACPI_MTX_TABLES or the work between     *)
(* two of them.  A table's bytes are its content, a number: 1 is the DSDT. *)
(* A pointer is 0, a mapping or heap buffer of `live`, or the caller's own *)
(* copy of a table, which stays where it is.  The list never holds an      *)
(* uninstalled entry, so growing it moves nothing; the kernel overrides no *)
(* table and an allocation succeeds.                                       *)
(***************************************************************************)
EXTENDS Sequences, Naturals, FiniteSetsExt

-----------------------------------------------------------------------------
(***************************************************************************)
(* ACPICA's owner identifiers (utilities/utownerid.c).  Every loaded       *)
(* table and every executing control method owns the namespace nodes it    *)
(* creates through such an identifier.  The allocator keeps a bit mask per *)
(* word of MaskWidth bits and rotates through the words so that an         *)
(* identifier is not reused at once.  Identifier 0 means "none", and the   *)
(* last bit of the last word is permanently taken.                         *)
(***************************************************************************)

CONSTANTS NumMasks,      \* ACPI_NUM_OWNERID_MASKS (128 in the build)
          MaskWidth      \* bits per mask word (32 in the build)

ASSUME OwnerIdAssumption == NumMasks \in Nat \ {0} /\ MaskWidth \in Nat \ {0}

\* AcpiGbl_OwnerIdMask, AcpiGbl_LastOwnerIdIndex, AcpiGbl_NextOwnerIdOffset.
OwnerIdInit ==
  [mask |-> [j \in 0 .. NumMasks - 1 |->
               IF j = NumMasks - 1 THEN {MaskWidth - 1} ELSE {}],
   last |-> 0, next |-> 0]

\* The identifier of bit k of word j.
OwnerIdOf(j, k) == (k + 1) + MaskWidth * j

\* The identifiers in use, the permanently taken one excluded.
OwnerIdsInUse(s) ==
  UNION {{OwnerIdOf(j, k) : k \in s.mask[j]} : j \in 0 .. NumMasks - 1}
    \ {NumMasks * MaskWidth}

\* The free bits in the order the two nested loops meet them, as a number:
\* the word is (last + i) modulo NumMasks, the first word starts at `next`
\* and is looked at once more, from bit 0, at the end.
FreeScan(s) ==
  {p \in s.next .. ((NumMasks + 1) * MaskWidth) - 1 :
     p % MaskWidth \notin s.mask[(s.last + (p \div MaskWidth)) % NumMasks]}

\* AcpiUtAllocateOwnerId: id 0 stands for AE_OWNER_ID_LIMIT.
AllocateOwnerId(s) ==
  IF FreeScan(s) = {} THEN [id |-> 0, s |-> [s EXCEPT !.next = 0]]
  ELSE LET p == Min(FreeScan(s))
           j == (s.last + (p \div MaskWidth)) % NumMasks
           k == p % MaskWidth
       IN [id |-> OwnerIdOf(j, k),
           s  |-> [mask |-> [s.mask EXCEPT ![j] = @ \cup {k}],
                   last |-> j, next |-> k + 1]]

\* AcpiUtReleaseOwnerId: releasing 0 or a free identifier changes nothing.
ReleaseOwnerId(s, id) ==
  IF id = 0 THEN s
  ELSE [s EXCEPT !.mask[(id - 1) \div MaskWidth] = @ \ {(id - 1) % MaskWidth}]

-----------------------------------------------------------------------------

CONSTANTS TbThread,       \* callers of the table manager
          Client,         \* the callers that get and put tables
          Unloader,       \* the callers that unload tables
          Firmware,       \* tables of the root table: 1 .. Firmware
          DataTables,     \* those of them without AML code
          Contents,       \* the contents a caller may load
          LoadKinds,      \* subset of {"AcpiLoadTable", "Load", "LoadTable"}
          FailKinds,      \* those, and "boot", whose tables may fail to parse
          MaxLoads,       \* loads a caller attempts
          MaxUnloads,     \* unloads a caller attempts
          Validations,    \* ACPI_MAX_TABLE_VALIDATIONS, 65535 in the build
          MaxPtr          \* mappings and buffers at one time

VARIABLES tables,   \* AcpiGbl_RootTableList.Tables
          live,     \* live mappings and heap buffers: pointer -> content
          broken,   \* a buffer was freed twice
          nodes,    \* namespace nodes: pairs of an owner and a content
          ids,      \* the owner identifiers
          call,     \* what a caller is doing
          got,      \* the pointer a caller has from AcpiGetTable, or 0
          loads,    \* loads a caller has left
          unloads   \* unloads a caller has left

tableVars == <<tables, live, broken, nodes, ids, call, got, loads, unloads>>

Free == [at |-> "idle", kind |-> "", table |-> 0, ptr |-> 0, id |-> 0]
At(t, where) == call[t].at = where
Goto(t, where) == call' = [call EXCEPT ![t].at = where]

CallerPtr(c) == MaxPtr + c
FreshPtr == Min((1 .. MaxPtr) \ DOMAIN live)
WithPtr(l, p, c) == [q \in DOMAIN l \cup {p} |-> IF q = p THEN c ELSE l[q]]
WithoutPtr(l, p) == [q \in DOMAIN l \ {p} |-> l[q]]

\* what a pointer shows: the bytes of freed memory are not those of a table
Bytes(p) == IF p > MaxPtr THEN p - MaxPtr ELSE IF p \in DOMAIN live THEN live[p] ELSE 0

-----------------------------------------------------------------------------
(* Descriptors. *)

\* AcpiTbInitTableDescriptor
Descriptor(c, origin, p) ==
  [content |-> c, origin |-> origin, ptr |-> IF origin = "physical" THEN 0 ELSE p,
   count |-> 0, loaded |-> FALSE, owner |-> 0]

\* AcpiTbGetTable: the descriptor and the memory after it.  A descriptor is
\* mapped on its first use and then counted, up to a limit where it sticks.
GetTable(d) ==
  LET map == d.count = 0 /\ d.ptr = 0
      p   == IF map THEN FreshPtr ELSE d.ptr
  IN  [d |-> [d EXCEPT !.ptr = p,
                       !.count = IF @ < Validations THEN @ + 1 ELSE @],
       m |-> IF map THEN WithPtr(live, p, d.content) ELSE live]

\* AcpiTbPutTable and AcpiTbInvalidateTable: a count below 0 wraps to the
\* limit, and a count at the limit stays.
PutTable(d) ==
  LET left  == IF d.count < Validations
                 THEN (d.count + Validations) % (Validations + 1) ELSE d.count
      unmap == left = 0 /\ d.ptr # 0 /\ d.origin = "physical"
  IN  [d |-> [d EXCEPT !.count = left, !.ptr = IF unmap THEN 0 ELSE @],
       m |-> IF unmap THEN WithoutPtr(live, d.ptr) ELSE live]

\* AcpiGetTableByIndex: the caller's pointer is the descriptor's.
GetByIndex(i) ==
  LET g == GetTable(tables[i])
  IN  tables' = [tables EXCEPT ![i] = g.d] /\ live' = g.m

\* AcpiTbCheckDuplication and AcpiTbCompareTables: the first table with the
\* same bytes, or 0.
Duplicate(c) ==
  LET shown(d) == IF d.origin = "physical" THEN d.content ELSE Bytes(d.ptr)
      same == {i \in DOMAIN tables : shown(tables[i]) = c}
  IN  IF same = {} THEN 0 ELSE Min(same)

-----------------------------------------------------------------------------
(* After AcpiInitializeTables: the tables of the root table are listed,    *)
(* none is mapped.  Caller 1 is the kernel's start-up, in AcpiLoadTables.  *)

TablesInit ==
  /\ tables = [i \in 1 .. Firmware |-> Descriptor(i, "physical", 0)]
  /\ live = <<>> /\ broken = FALSE /\ nodes = {} /\ ids = OwnerIdInit
  /\ call = [t \in TbThread |->
               IF t = 1 THEN [Free EXCEPT !.at = "validate", !.kind = "boot", !.table = 1]
               ELSE Free]
  /\ got = [t \in TbThread |-> 0]
  /\ loads = [t \in TbThread |-> MaxLoads]
  /\ unloads = [t \in TbThread |-> MaxUnloads]

Booted == call[1].kind # "boot"

\* AcpiTbLoadNamespace, one table: AcpiTbValidateTable maps it uncounted.
BootValidate(t) ==
  /\ At(t, "validate")
  /\ LET i == call[t].table
         p == FreshPtr
     IN  IF tables[i].ptr # 0 THEN UNCHANGED <<tables, live>>
         ELSE tables' = [tables EXCEPT ![i].ptr = p]
              /\ live' = WithPtr(live, p, tables[i].content)
  /\ Goto(t, "check")
  /\ UNCHANGED <<broken, nodes, ids, got, loads, unloads>>

\* AcpiGetTable: a caller may ask for any table of the root table.
ClientGet(t, i) ==
  /\ At(t, "idle") /\ t \in Client /\ got[t] = 0
  /\ GetByIndex(i)
  /\ got' = [got EXCEPT ![t] = tables'[i].ptr]
  /\ UNCHANGED <<broken, nodes, ids, call, loads, unloads>>

\* AcpiPutTable: the first descriptor with this pointer.
ClientPut(t) ==
  /\ got[t] # 0 /\ At(t, "idle")
  /\ LET at == {i \in DOMAIN tables : tables[i].ptr = got[t]}
         i  == Min(at)
         g  == PutTable(tables[i])
     IN  IF at = {} THEN UNCHANGED <<tables, live>>
         ELSE tables' = [tables EXCEPT ![i] = g.d] /\ live' = g.m
  /\ got' = [got EXCEPT ![t] = 0]
  /\ UNCHANGED <<broken, nodes, ids, call, loads, unloads>>

-----------------------------------------------------------------------------
(* Loading. *)

\* AcpiExLoadOp frees its buffer after any failure, also that of a table it
\* has put on the list.  Its callers are assumed to run it while nobody else
\* loads or unloads, and (FailKinds) on tables that parse.
Apart(kind) ==
  \A u \in TbThread : IF kind = "Load" THEN At(u, "idle") ELSE call[u].kind # "Load"

\* AcpiLoadTable passes the caller's own table; AcpiExLoadOp copies the
\* table into a buffer.
LoadBegin(t, kind, c) ==
  /\ At(t, "idle") /\ Booted /\ loads[t] > 0 /\ kind # "LoadTable" /\ Apart(kind)
  /\ LET p == IF kind = "Load" THEN FreshPtr ELSE CallerPtr(c)
     IN  /\ live' = IF kind = "Load" THEN WithPtr(live, p, c) ELSE live
         /\ call' = [call EXCEPT ![t] = [at |-> "install", kind |-> kind, table |-> c,
                                         ptr |-> p, id |-> 0]]
  /\ loads' = [loads EXCEPT ![t] = @ - 1]
  /\ UNCHANGED <<tables, broken, nodes, ids, got, unloads>>

\* AcpiExLoadTableOp: AcpiTbFindTable maps, uncounted, the table it finds.
FindTable(t, i) ==
  /\ At(t, "idle") /\ Booted /\ loads[t] > 0 /\ Apart("LoadTable")
  /\ LET p == FreshPtr
     IN  IF tables[i].ptr # 0 THEN UNCHANGED <<tables, live>>
         ELSE tables' = [tables EXCEPT ![i].ptr = p]
              /\ live' = WithPtr(live, p, tables[i].content)
  /\ call' = [call EXCEPT ![t] = [Free EXCEPT !.at = "get", !.kind = "LoadTable",
                                              !.table = i]]
  /\ loads' = [loads EXCEPT ![t] = @ - 1]
  /\ UNCHANGED <<broken, nodes, ids, got, unloads>>

Origin(kind) == IF kind = "Load" THEN "buffer" ELSE "caller"

\* ACPI_FREE
FreeBuffer(p) ==
  /\ live' = WithoutPtr(live, p)
  /\ broken' = (broken \/ p \notin DOMAIN live)

\* Where a failed load goes: AcpiExLoadOp deletes the buffer it allocated.
Failed(t) == IF call[t].kind = "Load" THEN "discard" ELSE "return"

\* AcpiTbInstallStandardTable: a loaded duplicate is an error; an unloaded one
\* is loaded again and takes the place of the new table, whose buffer
\* AcpiTbUninstallTable frees.
InstallTable(t) ==
  LET c == call[t].table
      i == Duplicate(c)
  IN  /\ At(t, "install")
      /\ \/ /\ i = 0
            /\ tables' = Append(tables, Descriptor(c, Origin(call[t].kind), call[t].ptr))
            /\ call' = [call EXCEPT ![t].at = "get", ![t].table = Len(tables) + 1]
            /\ UNCHANGED <<live, broken>>
         \/ /\ i # 0 /\ tables[i].loaded
            /\ Goto(t, Failed(t))
            /\ UNCHANGED <<tables, live, broken>>
         \/ /\ i # 0 /\ ~tables[i].loaded
            /\ IF call[t].kind = "Load" THEN FreeBuffer(call[t].ptr)
               ELSE UNCHANGED <<live, broken>>
            /\ call' = [call EXCEPT ![t].at = "get", ![t].table = i]
            /\ UNCHANGED tables
      /\ UNCHANGED <<nodes, ids, got, loads, unloads>>

\* AcpiTbLoadTable: the reference it takes is never put back.
LoadGet(t) ==
  /\ At(t, "get")
  /\ GetByIndex(call[t].table)
  /\ Goto(t, "check")
  /\ UNCHANGED <<broken, nodes, ids, got, loads, unloads>>

\* AcpiNsLoadTable: AcpiTbIsTableLoaded
LoadCheck(t) ==
  /\ At(t, "check")
  /\ Goto(t, IF tables[call[t].table].loaded THEN Failed(t) ELSE "owner")
  /\ UNCHANGED <<tables, live, broken, nodes, ids, got, loads, unloads>>

\* Mutant: an identifier the table already has is replaced.
LoadOwnerAlways(t) ==
  LET i == call[t].table
      a == AllocateOwnerId(ids)
  IN  /\ At(t, "owner")
      /\ ids' = a.s
      /\ tables' = [tables EXCEPT ![i].owner = a.id]
      /\ Goto(t, IF a.id = 0 THEN Failed(t) ELSE "map")
      /\ UNCHANGED <<live, broken, nodes, got, loads, unloads>>

\* AcpiTbAllocateOwnerId: a table that has an identifier gets no other
LoadOwner(t) ==
  LET i == call[t].table
      a == AllocateOwnerId(ids)
  IN  /\ At(t, "owner")
      /\ IF tables[i].owner # 0
           THEN UNCHANGED <<tables, ids>> /\ Goto(t, Failed(t))
           ELSE /\ ids' = a.s
                /\ tables' = [tables EXCEPT ![i].owner = a.id]
                /\ Goto(t, IF a.id = 0 THEN Failed(t) ELSE "map")
      /\ UNCHANGED <<live, broken, nodes, got, loads, unloads>>

\* AcpiNsExecuteTable takes a reference that is never put back, and reads
\* the identifier the new nodes get.
LoadMap(t) ==
  /\ At(t, "map")
  /\ GetByIndex(call[t].table)
  /\ call' = [call EXCEPT ![t].at = "parse", ![t].id = tables[call[t].table].owner]
  /\ UNCHANGED <<broken, nodes, ids, got, loads, unloads>>

\* AcpiPsExecuteTable: nodes appear; the table may fail after the first ones.
LoadParse(t) ==
  /\ At(t, "parse")
  /\ nodes' = nodes \cup {<<call[t].id, Bytes(tables[call[t].table].ptr)>>}
  /\ \/ Goto(t, "loaded")
     \/ call[t].kind \in FailKinds /\ Goto(t, "undo")
  /\ UNCHANGED <<tables, live, broken, ids, got, loads, unloads>>

\* AcpiTbSetTableLoadedFlag, then AcpiTbGetOwnerId and the load event
LoadDone(t) ==
  /\ At(t, "loaded")
  /\ tables' = [tables EXCEPT ![call[t].table].loaded = TRUE]
  /\ Goto(t, "return")
  /\ UNCHANGED <<live, broken, nodes, ids, got, loads, unloads>>

Disown(id) == {n \in nodes : n[1] # id \/ id = 0}

\* AcpiNsLoadTable after a failed parse: AcpiNsDeleteNamespaceByOwner
LoadUndo(t) ==
  /\ At(t, "undo")
  /\ nodes' = Disown(tables[call[t].table].owner)
  /\ Goto(t, "disown")
  /\ UNCHANGED <<tables, live, broken, ids, got, loads, unloads>>

\* AcpiTbReleaseOwnerId, which also clears the table's identifier
ReleaseOwner(t, then) ==
  LET i == call[t].table
  IN  /\ ids' = ReleaseOwnerId(ids, tables[i].owner)
      /\ tables' = [tables EXCEPT ![i].owner = 0]
      /\ Goto(t, then)
      /\ UNCHANGED <<live, broken, nodes, got, loads, unloads>>

LoadDisown(t) == At(t, "disown") /\ ReleaseOwner(t, Failed(t))

\* AcpiExLoadOp: "Delete allocated table buffer"
LoadDiscard(t) ==
  /\ At(t, "discard")
  /\ FreeBuffer(call[t].ptr)
  /\ Goto(t, "return")
  /\ UNCHANGED <<tables, nodes, ids, got, loads, unloads>>

\* The call returns; AcpiTbLoadNamespace goes on with the next table of AML.
LoadReturn(t) ==
  LET more == {i \in call[t].table + 1 .. Firmware : i \notin DataTables}
  IN  /\ At(t, "return")
      /\ call' = [call EXCEPT ![t] =
                    IF @.kind = "boot" /\ more # {}
                      THEN [@ EXCEPT !.at = "validate", !.table = Min(more), !.id = 0]
                      ELSE Free]
      /\ UNCHANGED <<tables, live, broken, nodes, ids, got, loads, unloads>>

-----------------------------------------------------------------------------
(* Unloading. *)

\* AcpiUnloadTable and AcpiUnloadParentTable refuse the DSDT; AcpiTbUnloadTable
\* refuses a table that is not loaded and takes a reference for the event.
\* A caller unloads a table only when no other call on that table is under way.
UnloadBegin(t, i) ==
  /\ At(t, "idle") /\ Booted /\ t \in Unloader /\ unloads[t] > 0
  /\ \A u \in TbThread : call[u].table # i \/ At(u, "install")
  /\ i # 1 /\ tables[i].loaded
  /\ call' = [call EXCEPT ![t] = [Free EXCEPT !.at = "notify", !.kind = "unload", !.table = i]]
  /\ unloads' = [unloads EXCEPT ![t] = @ - 1]
  /\ UNCHANGED <<tables, live, broken, nodes, ids, got, loads>>

UnloadNotify(t) ==
  /\ At(t, "notify")
  /\ GetByIndex(call[t].table)
  /\ Goto(t, "whose")
  /\ UNCHANGED <<broken, nodes, ids, got, loads, unloads>>

\* AcpiTbDeleteNamespaceByOwner reads the identifier under the table mutex
\* and deletes under the namespace lock.
UnloadWhose(t) ==
  /\ At(t, "whose")
  /\ call' = [call EXCEPT ![t].at = "delete", ![t].id = tables[call[t].table].owner]
  /\ UNCHANGED <<tables, live, broken, nodes, ids, got, loads, unloads>>

UnloadDelete(t) ==
  /\ At(t, "delete")
  /\ nodes' = Disown(call[t].id)
  /\ Goto(t, "release")
  /\ UNCHANGED <<tables, live, broken, ids, got, loads, unloads>>

UnloadRelease(t) == At(t, "release") /\ ReleaseOwner(t, "unflag")

UnloadFlag(t) ==
  /\ At(t, "unflag")
  /\ tables' = [tables EXCEPT ![call[t].table].loaded = FALSE]
  /\ Goto(t, "return")
  /\ UNCHANGED <<live, broken, nodes, ids, got, loads, unloads>>

TablesNext ==
  \E t \in TbThread :
    \/ BootValidate(t) \/ ClientPut(t) \/ (\E i \in 1 .. Firmware : ClientGet(t, i))
    \/ \E kind \in LoadKinds, c \in Contents : LoadBegin(t, kind, c)
    \/ "LoadTable" \in LoadKinds /\ \E i \in DOMAIN tables : FindTable(t, i)
    \/ InstallTable(t) \/ LoadGet(t) \/ LoadCheck(t) \/ LoadOwner(t) \/ LoadMap(t)
    \/ LoadParse(t) \/ LoadDone(t) \/ LoadUndo(t) \/ LoadDisown(t) \/ LoadDiscard(t)
    \/ LoadReturn(t)
    \/ (\E i \in DOMAIN tables : UnloadBegin(t, i)) \/ UnloadNotify(t) \/ UnloadWhose(t)
    \/ UnloadDelete(t) \/ UnloadRelease(t) \/ UnloadFlag(t)

-----------------------------------------------------------------------------
(* Properties. *)

\* The tables i whose load or unload is between its steps.
Busy(i) == \E t \in TbThread :
             call[t].table = i /\ call[t].at \in {"map", "parse", "loaded", "undo", "disown",
                                                  "delete", "release", "unflag"}

\* The namespace holds exactly the loaded tables, each under an identifier of
\* its own: the identifiers handed out are those of the list, without
\* repetition; a node belongs to the table whose identifier it has; and a table
\* that no one is loading or unloading has its nodes if and only if it is
\* flagged as loaded (AcpiNsLoadTable, AcpiTbUnloadTable).
NamespaceMatchesTables ==
  LET owned == {i \in DOMAIN tables : tables[i].owner # 0}
  IN  /\ OwnerIdsInUse(ids) = {tables[i].owner : i \in owned}
      /\ \A i, j \in owned : tables[i].owner = tables[j].owner => i = j
      /\ \A n \in nodes : \E i \in owned : n = <<tables[i].owner, tables[i].content>>
      /\ \A i \in DOMAIN tables : ~Busy(i) =>
           (tables[i].loaded <=> <<tables[i].owner, tables[i].content>> \in nodes)

\* No table pointer outlives its memory: the pointer of an installed table and
\* the one a caller has from AcpiGetTable and has not put back show the table's
\* bytes, and no buffer is freed twice (AcpiTbGetTable, AcpiTbPutTable,
\* AcpiTbInstallStandardTable, AcpiExLoadOp).
TablePointersLive ==
  /\ ~broken
  /\ \A i \in DOMAIN tables : tables[i].ptr # 0 => Bytes(tables[i].ptr) = tables[i].content
  /\ \A t \in TbThread : got[t] # 0 => \E i \in DOMAIN tables : tables[i].ptr = got[t]
=============================================================================
