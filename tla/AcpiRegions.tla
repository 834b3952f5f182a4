----------------------------- MODULE AcpiRegions ----------------------------
(***************************************************************************)
(* Operation regions and the address space handlers that serve them:       *)
(* installing and removing a handler (evhandler.c, evxfregn.c), attaching, *)
(* detaching and dispatching a region and running _REG (evregion.c), the   *)
(* set-up of a region (evrgnini.c), the mappings of memory regions         *)
(* (exregion.c), the address of a PCI region (hwpci.c) and the list of     *)
(* address ranges (utaddress.c).                                           *)
(*                                                                         *)
(* Calls are made one after the other; a _REG method may access the region *)
(* it is told of, so that a call runs inside another.  Allocations succeed.*)
(***************************************************************************)
EXTENDS Integers, Sequences, FiniteSets, SequencesExt, Binding

CONSTANTS Devices,      \* device nodes, in the order of the namespace; 0 is the root
          ParentOf,     \* the device a device is below
          Bridge,       \* the device that is a PCI root bridge
          RegOf,        \* per device: "none", "quiet" or "touches", its _REG method
          Regions,      \* region nodes
          DeviceOf,     \* the device a region is declared in
          SpaceOf,      \* its address space: "MEMORY", "PCI" or "EC"
          Base, Extent, \* the addresses of a memory region
          PageSize,     \* most that is mapped at once
          NONE          \* a null pointer

VARIABLE s   \* handlers and regions; the list of ranges; contexts and mappings that
             \* exist; phase: how far ACPICA is initialised; told: what _REG heard
             \* last, orphans: _REG run for no region, wrong: an access went wrong

Root == 0
Nodes == {Root} \cup Devices

RECURSIVE Path(_)
Path(n) == IF n = Root THEN <<Root>> ELSE <<n>> \o Path(ParentOf[n])
Below(n) == {d \in Nodes : n \in Range(Path(d))}

\* AcpiGbl_NamespaceInitialized.
Ready(st) == st.phase \in {"loaded", "running"}

NoRegion == [live |-> FALSE, handler |-> NONE, setup |-> FALSE, context |-> NONE, connected |-> FALSE]

----------------------------------------------------------------------------
(* Handlers.  A handler is named by [node, space, fn]; handlers[h] is its  *)
(* list of regions, the references to it and whether it is on its node.    *)

Handler(node, space, fn) == [node |-> node, space |-> space, fn |-> fn]

\* AcpiEvFindRegionHandler in the list of a node: none or one.
EvFindRegionHandler(st, node, space) ==
   {h \in DOMAIN st.handlers : h.node = node /\ h.space = space /\ st.handlers[h].installed}

Nearest(st, node, space) ==
   LET with == SelectSeq(Path(node), LAMBDA n : EvFindRegionHandler(st, n, space) # {})
   IN IF with = <<>> THEN {} ELSE EvFindRegionHandler(st, with[1], space)

AddReference(st, h) == [st EXCEPT !.handlers[h].refs = @ + 1]
RemoveReference(st, h) ==
   IF st.handlers[h].refs > 1 THEN [st EXCEPT !.handlers[h].refs = @ - 1]
   ELSE [st EXCEPT !.handlers = [x \in DOMAIN @ \ {h} |-> @[x]]]

\* AcpiEvAttachRegion.
EvAttachRegion(st, h, r) ==
   IF st.regions[r].handler # NONE THEN st
   ELSE AddReference([st EXCEPT !.handlers[h].list = <<r>> \o @, !.regions[r].handler = h], h)

----------------------------------------------------------------------------
(* exregion.c: memory.  A context is [kind, maps, current]. *)

Covers(m, address, length) == address >= m.at /\ address + length <= m.at + m.length

\* AcpiExSystemMemorySpaceHandler: the mapping used last, another, or a new one
\* from the address to the end of the region, a page at most.
MappingFor(context, region, address, length) ==
   LET fits == {i \in DOMAIN context.maps : Covers(context.maps[i], address, length)}
       rest == Base[region] + Extent[region] - address
       new == [at |-> address, length |-> IF rest > PageSize THEN PageSize ELSE rest]
   IN IF context.current # 0 /\ context.current \in fits THEN context
      ELSE IF fits # {} THEN [context EXCEPT !.current = CHOOSE i \in fits : \A j \in fits : i <= j]
      ELSE [context EXCEPT !.maps = <<new>> \o @, !.current = 1]

ExSystemMemorySpaceHandler(st, r, address, length) ==
   LET before == st.regions[r].context
   IN
   With(MappingFor(before, r, address, length), LAMBDA context :
   LET m == context.maps[context.current]
   IN [st EXCEPT !.regions[r].context = context,
                 !.mapped = @ + Len(context.maps) - Len(before.maps),
                 !.wrong = @ \/ ~ Covers(m, address, length)])

----------------------------------------------------------------------------
(* evrgnini.c, evregion.c and evhandler.c *)

NewContext(kind) == [kind |-> kind, maps |-> <<>>, current |-> 0]
Allocated == {"MEMORY", "PCI"}

\* Set-up with ACPI_REGION_DEACTIVATE: mappings and context go.
RegionDeactivate(st, h, r) ==
   LET context == st.regions[r].context
       freed == context # NONE /\ context.kind \in Allocated /\ h.fn = "default"
   IN [st EXCEPT !.regions[r].context = NONE,
                 !.mapped = @ - (IF freed THEN Len(context.maps) ELSE 0),
                 !.contexts = @ - (IF freed THEN 1 ELSE 0)]

RECURSIVE EvAddressSpaceDispatch(_, _, _, _), EvExecuteRegMethod(_, _, _), EvDetachRegion(_, _), InstallOn(_, _, _),
          EvInstallSpaceHandler(_, _, _, _), EvExecuteRegMethods(_, _, _), EvPciConfigRegionSetup(_, _, _)

\* AcpiEvExecuteRegMethod: only once the namespace is initialised, with a handler,
\* and when it is news to the device.
EvExecuteRegMethod(st, r, function) ==
   LET told == [st EXCEPT !.told[r] = function]
       ran == IF RegOf[DeviceOf[r]] = "touches" THEN EvAddressSpaceDispatch(told, r, Base[r], 1) ELSE told
   IN IF \/ ~ Ready(st) \/ st.regions[r].handler = NONE
         \/ RegOf[DeviceOf[r]] = "none"
         \/ st.regions[r].connected = (function = "CONNECT")
      THEN st
      ELSE [ran EXCEPT !.regions[r].connected = (function = "CONNECT")]

\* Mutant: the region lets go of its handler before _REG is told.
DetachSilent(st, r) ==
   LET h == st.regions[r].handler
       off == [st EXCEPT !.handlers[h].list = SelectSeq(@, LAMBDA x : x # r)]
       told == EvExecuteRegMethod([off EXCEPT !.regions[r].handler = NONE], r, "DISCONNECT")
       undone == IF told.regions[r].setup
                 THEN [RegionDeactivate(told, h, r) EXCEPT !.regions[r].setup = FALSE] ELSE told
   IN IF h = NONE THEN st ELSE RemoveReference(undone, h)

\* AcpiEvDetachRegion: off the handler's list, _REG told, set-up undone.
EvDetachRegion(st, r) ==
   LET h == st.regions[r].handler
       off == [st EXCEPT !.handlers[h].list = SelectSeq(@, LAMBDA x : x # r)]
       told == EvExecuteRegMethod(off, r, "DISCONNECT")
       undone == IF told.regions[r].setup
                 THEN [RegionDeactivate(told, h, r) EXCEPT !.regions[r].setup = FALSE] ELSE told
   IN IF h = NONE THEN st
      ELSE RemoveReference([undone EXCEPT !.regions[r].handler = NONE], h)

\* AcpiEvPciConfigRegionSetup with ACPI_REGION_ACTIVATE: below a root bridge the
\* default handler is installed on the bridge; when that set the region up, there
\* is nothing left to do.
EvPciConfigRegionSetup(st, h, r) ==
   With(IF h.node = Root /\ Bridge \in Range(Path(DeviceOf[r]))
        THEN EvExecuteRegMethods(EvInstallSpaceHandler(st, Bridge, "PCI", "default"), Bridge, "PCI") ELSE st, LAMBDA installed :
      IF installed.regions[r].setup THEN [st |-> installed, context |-> NONE]
      ELSE [st |-> [installed EXCEPT !.contexts = @ + 1], context |-> NewContext("PCI")])

\* The set-up of a handler: [st, context].
RegionActivate(st, h, r) ==
   IF h.fn # "default" THEN [st |-> st, context |-> NewContext("HANDLER")]
   ELSE IF h.space = "PCI" THEN EvPciConfigRegionSetup(st, h, r)
   ELSE [st |-> [st EXCEPT !.contexts = @ + 1], context |-> NewContext("MEMORY")]

\* AcpiEvAddressSpaceDispatch: the set-up before the first access, then the access.
EvAddressSpaceDispatch(st, r, address, length) ==
   LET h == st.regions[r].handler
       a == RegionActivate(st, h, r)
   IN
   With(IF st.regions[r].setup THEN st
        ELSE IF a.st.regions[r].setup THEN a.st
        ELSE [a.st EXCEPT !.regions[r].setup = TRUE, !.regions[r].context = IF @ = NONE THEN a.context ELSE @], LAMBDA up :
      IF h = NONE THEN st
      ELSE IF h.fn = "default" /\ h.space = "MEMORY" THEN ExSystemMemorySpaceHandler(up, r, address, length)
      ELSE [up EXCEPT !.wrong = @ \/ up.regions[r].context = NONE])

\* The walk of AcpiEvInstallHandler below a node: regions of the space change
\* hands, and a device with a handler of its own keeps its branch.
InstallOn(st, h, node) ==
   LET regions == SelectSeq(SetToSortSeq(Regions, <), LAMBDA r : DeviceOf[r] = node /\ st.regions[r].live /\ SpaceOf[r] = h.space)
       moved == FoldLeft(LAMBDA x, r : EvAttachRegion(EvDetachRegion(x, r), h, r), st, regions)
       children == SelectSeq(SetToSortSeq(Devices, <), LAMBDA d : ParentOf[d] = node)
   IN FoldLeft(LAMBDA x, d : IF EvFindRegionHandler(x, d, h.space) = {} THEN InstallOn(x, h, d) ELSE x, moved, children)

\* AcpiEvInstallSpaceHandler: nothing when the node has a handler for the space.
EvInstallSpaceHandler(st, node, space, fn) ==
   LET h == Handler(node, space, fn)
       entry == [list |-> <<>>, refs |-> 1, installed |-> TRUE]
       with == [st EXCEPT !.handlers = [x \in DOMAIN @ \cup {h} |-> IF x = h THEN entry ELSE @[x]]]
   IN IF EvFindRegionHandler(st, node, space) # {} THEN st ELSE InstallOn(with, h, node)

\* AcpiEvExecuteOrphanRegMethod: a device with a _REG but no region of the space.
EvExecuteOrphanRegMethod(st, node, space) ==
   IF /\ node # Root /\ RegOf[node] # "none"
      /\ \A r \in Regions : DeviceOf[r] = node /\ st.regions[r].live => SpaceOf[r] # space
   THEN [st EXCEPT !.orphans = @ \cup {node}] ELSE st

\* AcpiEvExecuteRegMethods with CONNECT: every region of the space below the node,
\* whoever serves it.
EvExecuteRegMethods(st, node, space) ==
   LET regions == SelectSeq(SetToSortSeq(Regions, <), LAMBDA r : DeviceOf[r] \in Below(node) /\ st.regions[r].live /\ SpaceOf[r] = space)
   IN
   With(FoldLeft(LAMBDA x, r : EvExecuteRegMethod(x, r, "CONNECT"), st, regions), LAMBDA ran :
      IF space = "MEMORY" THEN st
      ELSE IF space = "EC" THEN EvExecuteOrphanRegMethod(ran, node, space) ELSE ran)

----------------------------------------------------------------------------
(* hwpci.c.  A chain lists the nodes between the root bridge and a region, *)
(* from above: [device, adr, bridge, secondary], adr NONE without an _ADR. *)
(* Configuration space is a function from <<bus, adr>> to a node.          *)

\* AcpiHwGetPciDeviceInfo: a node that is no PCI device is passed over; below a
\* bridge the bus is the one behind it.
HwGetPciDeviceInfo(id, node, config) ==
   LET here == IF id.isBridge THEN id.next ELSE id.bus
       at == config[<<here, node.adr>>]
   IN IF ~ node.device \/ node.adr = NONE THEN id
      ELSE IF ~ at.bridge THEN [id EXCEPT !.adr = node.adr, !.bus = here, !.isBridge = FALSE]
      ELSE [bus |-> at.primary, adr |-> node.adr, isBridge |-> TRUE, next |-> at.secondary]

\* AcpiHwDerivePciId: AcpiHwBuildPciList and AcpiHwProcessPciList.
HwDerivePciId(bus, adr, chain, config) ==
   FoldLeft(LAMBDA id, node : HwGetPciDeviceInfo(id, node, config), [bus |-> bus, adr |-> adr, isBridge |-> TRUE, next |-> bus], chain)

----------------------------------------------------------------------------
(* The calls *)

\* AcpiInstallAddressSpaceHandler.
AcpiInstallAddressSpaceHandler(node, space, fn) ==
   /\ fn = "default" => space # "EC"
   /\ IF EvFindRegionHandler(s, node, space) # {} THEN s' = s
      ELSE s' = EvExecuteRegMethods(EvInstallSpaceHandler(s, node, space, fn), node, space)

\* AcpiRemoveAddressSpaceHandler: every region is detached, then the handler goes.
RECURSIVE DetachAll(_, _)
DetachAll(st, h) == IF st.handlers[h].list = <<>> THEN st ELSE DetachAll(EvDetachRegion(st, st.handlers[h].list[1]), h)

AcpiRemoveAddressSpaceHandler(node, space, fn) ==
   LET h == Handler(node, space, fn)
   IN /\ h \in DOMAIN s.handlers /\ s.handlers[h].installed
      /\ s' = RemoveReference([DetachAll(s, h) EXCEPT !.handlers[h].installed = FALSE], h)

\* AcpiEvInstallRegionHandlers, when AcpiLoadTables begins.
EvInstallRegionHandlers ==
   /\ s.phase = "boot"
   /\ s' = FoldLeft(LAMBDA x, space : EvInstallSpaceHandler(x, Root, space, "default"), [s EXCEPT !.phase = "loading"],
                    <<"MEMORY", "PCI">>)

\* AcpiLoadTables ends.
NamespaceInitialized == s.phase = "loading" /\ s' = [s EXCEPT !.phase = "loaded"]

\* AcpiEvInitializeOpRegions: the regions of the spaces with a default handler.
EvHasDefaultHandler(space) == {h \in EvFindRegionHandler(s, Root, space) : h.fn = "default"} # {}
EvInitializeOpRegions ==
   /\ s.phase = "loaded"
   /\ s' = FoldLeft(LAMBDA x, space : IF EvHasDefaultHandler(space) THEN EvExecuteRegMethods(x, Root, space) ELSE x,
                    [s EXCEPT !.phase = "running"], <<"MEMORY", "PCI">>)

\* AcpiUtAddAddressRange and AcpiUtRemoveAddressRange.
UtAddAddressRange(st, r) == IF SpaceOf[r] = "MEMORY" THEN [st EXCEPT !.ranges = <<r>> \o @] ELSE st
UtRemoveAddressRange(st, r) ==
   LET at == SelectInSeq(st.ranges, LAMBDA x : x = r) IN IF at = 0 THEN st ELSE [st EXCEPT !.ranges = RemoveAt(@, at)]

\* A region is declared: its range, and AcpiEvInitializeRegion with the nearest
\* handler on the way to the root.
EvInitializeRegion(r) ==
   LET new == UtAddAddressRange([s EXCEPT !.regions[r].live = TRUE], r)
       near == Nearest(new, DeviceOf[r], SpaceOf[r])
   IN /\ ~ s.regions[r].live
      /\ s' = IF near = {} THEN new
              ELSE EvExecuteRegMethod(EvAttachRegion(new, CHOOSE h \in near : TRUE, r), r, "CONNECT")

\* AcpiUtDeleteInternalObj of a region: no _REG; a default handler undoes the set-up.
DeleteRegion(r) ==
   LET h == s.regions[r].handler
       off == [s EXCEPT !.handlers[h].list = SelectSeq(@, LAMBDA x : x # r)]
       undone == IF h.fn = "default" THEN RegionDeactivate(off, h, r) ELSE off
       gone == IF h = NONE THEN s ELSE RemoveReference(undone, h)
   IN /\ s.regions[r].live
      /\ s' = [UtRemoveAddressRange(gone, r) EXCEPT !.regions[r] = NoRegion, !.told[r] = "never"]

Access(r, address, length) ==
   /\ s.regions[r].live
   /\ s' = EvAddressSpaceDispatch(s, r, address, length)

-----------------------------------------------------------------------------
(***************************************************************************)
(* AcpiRegions with a root bridge, a device below it, and four regions:    *)
(* handlers come and go in every order while regions are declared, used    *)
(* and deleted, before and after the tables are loaded.                    *)
(***************************************************************************)

CONSTANTS Handlers   \* the handlers that may be installed

VARIABLE chain   \* the nodes above a PCI region

\* Bridges have the buses 1, 2, 3 behind them in the order of the chain.
ChainNode(i, device, adr, bridge) == [device |-> device, adr |-> adr, bridge |-> bridge, secondary |-> i]
Chains == UNION {{[i \in 1..n |-> ChainNode(i, d[i], a[i], b[i])] :
                    d \in [1..n -> BOOLEAN], a \in [1..n -> {1, 2, NONE}], b \in [1..n -> BOOLEAN]} : n \in 1..3}
PciNode(c, i) == c[i].device /\ c[i].adr # NONE
\* A device sits on the bus behind the last bridge above it, or on bus 0.
BusOf(c, i) ==
   LET above == {j \in 1..(i - 1) : PciNode(c, j) /\ c[j].bridge}
   IN IF above = {} THEN 0 ELSE CHOOSE j \in above : \A k \in above : k <= j
Config(c) ==
   [x \in (0..3) \X {1, 2, NONE} |->
      LET at == {i \in DOMAIN c : PciNode(c, i) /\ BusOf(c, i) = x[1] /\ c[i].adr = x[2]}
          i == CHOOSE j \in at : TRUE
      IN IF at = {} THEN [bridge |-> FALSE, primary |-> 0, secondary |-> 0]
         ELSE [bridge |-> c[i].bridge, primary |-> x[1], secondary |-> i]]
\* A chain in which a bridge has the nodes below it behind it.
Sound(c) == \A i, j \in DOMAIN c : i # j /\ PciNode(c, i) /\ PciNode(c, j) /\ BusOf(c, i) = BusOf(c, j) => c[i].adr # c[j].adr

Init ==
   /\ chain \in {<<>>} \cup {c \in Chains : Sound(c)}
   /\ s = [handlers |-> <<>>, regions |-> [r \in Regions |-> NoRegion], ranges |-> <<>>, contexts |-> 0, mapped |-> 0,
           phase |-> "boot", told |-> [r \in Regions |-> "never"], orphans |-> {}, wrong |-> FALSE]

\* The memory region exists without the ones in other spaces: they share no handler.
Together(r) == \A q \in Regions : s.regions[q].live => (SpaceOf[q] = "MEMORY") = (SpaceOf[r] = "MEMORY")

Next ==
   /\ chain = <<>> /\ UNCHANGED chain
   /\ \/ EvInstallRegionHandlers \/ NamespaceInitialized
      \/ \E h \in Handlers : Ready(s) /\ AcpiInstallAddressSpaceHandler(h[1], h[2], h[3])
      \/ \E h \in Handlers \cup {<<1, "PCI", "default">>} : Ready(s) /\ AcpiRemoveAddressSpaceHandler(h[1], h[2], h[3])
      \/ EvInitializeOpRegions
      \/ \E r \in Regions : s.phase # "boot" /\ Together(r) /\ EvInitializeRegion(r)
      \/ \E r \in Regions : DeleteRegion(r)
      \/ \E r \in Regions, address \in 1..4, length \in {1, 2} :
            /\ address + length <= Base[r] + Extent[r]
            /\ SpaceOf[r] # "MEMORY" => address = 1 /\ length = 1
            /\ Access(r, address, length)

Spec == Init /\ [][Next]_<<s, chain>>

MappedOf(r) == IF s.regions[r].context = NONE THEN 0 ELSE Len(s.regions[r].context.maps)
----------------------------------------------------------------------------
(* A region is on the list of the handler it points to and on no other,    *)
(* and a handler is referenced once by its node and once by each region on *)
(* its list, so that it is deleted exactly when the last of them lets go.  *)
HandlersLinked ==
   /\ \A r \in Regions : s.regions[r].handler # NONE => s.regions[r].handler \in DOMAIN s.handlers
   /\ \A h \in DOMAIN s.handlers :
         /\ IsInjective(s.handlers[h].list)
         /\ Range(s.handlers[h].list) = {r \in Regions : s.regions[r].handler = h}
         /\ s.handlers[h].refs = Len(s.handlers[h].list) + (IF s.handlers[h].installed THEN 1 ELSE 0)

(* The scoping rule for handlers: a region is served by the handler of its *)
(* space that is nearest above it, in whatever order handlers were         *)
(* installed and regions declared, or by none once its own was removed.    *)
ScopeKept ==
   \A r \in Regions : s.regions[r].handler # NONE => s.regions[r].handler \in Nearest(s, DeviceOf[r], SpaceOf[r])

(* The contexts and mappings that exist are those of the regions that are  *)
(* set up: none is lost when a handler is replaced, also when the set-up   *)
(* of a PCI region itself installs a handler whose _REG method uses the    *)
(* region.  Every access lies inside the mapping it is made through, and   *)
(* the list of ranges holds the memory regions there are.                  *)
ContextsExact ==
   /\ s.contexts = Cardinality({r \in Regions : s.regions[r].context # NONE /\ s.regions[r].context.kind \in Allocated})
   /\ s.mapped = FoldSet(LAMBDA r, n : n + MappedOf(r), 0, Regions)
   /\ \A r \in Regions : s.regions[r].setup => s.regions[r].handler # NONE
   /\ ~ s.wrong
   /\ IsInjective(s.ranges) /\ Range(s.ranges) = {r \in Regions : s.regions[r].live /\ SpaceOf[r] = "MEMORY"}

(* What a device was told of a region last is true: connected while a      *)
(* handler serves it, disconnected once none does.                         *)
RegTold ==
   \A r \in Regions : s.regions[r].live /\ (SpaceOf[r] = "EC" \/ (SpaceOf[r] = "PCI" /\ s.phase = "running")) /\ RegOf[DeviceOf[r]] # "none" =>
      s.told[r] = "CONNECT" <=> s.regions[r].handler # NONE

(* The address AcpiHwDerivePciId finds for a region is that of the nearest *)
(* PCI device above it, on the bus it really sits on, whatever bridges and *)
(* nodes without an address lie between it and the root bridge.            *)
PciIdDerived ==
   LET pci == {i \in DOMAIN chain : PciNode(chain, i)}
       last == CHOOSE i \in pci : \A j \in pci : j <= i
   IN
   With(HwDerivePciId(0, 0, chain, Config(chain)), LAMBDA id :
      pci # {} => id.adr = chain[last].adr /\ id.bus = BusOf(chain, last))

-----------------------------------------------------------------------------
(***************************************************************************)
(* Access to a register named by an ACPI generic address: the splitting of *)
(* one register into accesses of a legal width (hardware/hwregs.c), and    *)
(* the I/O port accesses with their table of protected ports               *)
(* (hardware/hwvalid.c), which the SystemIO region handler uses as well    *)
(* (executer/exregion.c).                                                  *)
(*                                                                         *)
(* A value is the set of the positions of its one bits, and a space is the *)
(* set of its one bits, bit b of the byte at address a being 8 * a + b.    *)
(***************************************************************************)

MEMORY == "SystemMemory"
IO == "SystemIO"

OK == "AE_OK"

\* AcpiOsReadMemory, AcpiOsReadPort: one access of w bits.
OsRead(space, a, w) == {b \in 0 .. w - 1 : 8 * a + b \in space}

Bits(a, w) == 8 * a .. 8 * a + w - 1

\* The bits that a value puts in place of those of an access.
Placed(a, w, value) == {8 * a + b : b \in value \cap 0 .. w - 1}

-----------------------------------------------------------------------------
(* The ports.                                                              *)

UINT16_MAX == 65535

\* AcpiProtectedPorts: first and last port, and whether the row counts for
\* every BIOS or only for one that asked for Windows XP through _OSI.
ProtectedPorts ==
    <<<<0, 15, FALSE>>, <<32, 33, TRUE>>, <<64, 67, FALSE>>, <<72, 75, FALSE>>,
      <<112, 113, FALSE>>, <<116, 118, FALSE>>, <<129, 131, FALSE>>,
      <<135, 135, FALSE>>, <<137, 139, FALSE>>, <<143, 143, FALSE>>,
      <<144, 145, FALSE>>, <<147, 148, FALSE>>, <<150, 151, FALSE>>,
      <<160, 161, TRUE>>, <<192, 223, FALSE>>, <<1232, 1233, TRUE>>,
      <<3320, 3327, FALSE>>>>

PortRow == DOMAIN ProtectedPorts

FirstPort(i) == ProtectedPorts[i][1]
LastPort(i) == ProtectedPorts[i][2]
Denies(i, xp) == ProtectedPorts[i][3] \/ xp

\* The four ways in which a request meets a row.
Overlaps(a, last, i) == a <= LastPort(i) /\ last >= FirstPort(i)

\* AcpiHwValidateIoRequest: the rows are tried in order until one ends at or
\* after the end of the request.
HwValidateIoRequest(a, w, xp) ==
    LET last == a + (w \div 8) - 1
        tried(i) == \A j \in 1 .. i - 1 : last > LastPort(j)
    IN IF w \notin {8, 16, 32} THEN "AE_BAD_PARAMETER"
       ELSE IF last > UINT16_MAX THEN "AE_LIMIT"
       ELSE IF a > LastPort(17) THEN OK
       ELSE IF \E i \in PortRow : tried(i) /\ Overlaps(a, last, i) /\ Denies(i, xp)
            THEN "AE_AML_ILLEGAL_ADDRESS"
       ELSE OK

\* AcpiGbl_TruncateIoAddresses.
Truncated(a, truncate) == IF truncate THEN a % (UINT16_MAX + 1) ELSE a

\* What AcpiHwReadPort and AcpiHwWritePort do about a request: one access of
\* its width, or, where it meets a protected port, a byte access to each of
\* its ports that is not protected.
PortAccess(a, w, xp) ==
    LET status == HwValidateIoRequest(a, w, xp)
    IN IF status = OK THEN [status |-> OK, parts |-> {<<a, w>>}]
       ELSE IF status # "AE_AML_ILLEGAL_ADDRESS" THEN [status |-> status, parts |-> {}]
       ELSE [status |-> OK,
             parts |-> {<<p, 8>> : p \in {q \in a .. a + (w \div 8) - 1 :
                                            HwValidateIoRequest(q, 8, xp) = OK}}]

\* AcpiHwReadPort: the bytes not read are zero.
HwReadPort(space, address, w, xp, truncate) ==
    LET a == Truncated(address, truncate)
        access == PortAccess(a, w, xp)
    IN [status |-> access.status,
        value |-> UNION {{b + 8 * (p[1] - a) : b \in OsRead(space, p[1], p[2])} :
                            p \in access.parts},
        touched |-> UNION {Bits(p[1], p[2]) : p \in access.parts}]

\* AcpiHwWritePort.
HwWritePort(space, address, w, value, xp, truncate) ==
    LET a == Truncated(address, truncate)
        access == PortAccess(a, w, xp)
        touched == UNION {Bits(p[1], p[2]) : p \in access.parts}
    IN [status |-> access.status,
        space |-> (space \ touched) \cup (Placed(a, w, value) \cap touched),
        touched |-> touched]

\* AcpiExSystemIoSpaceHandler.
ExSystemIoSpaceHandler(function, space, a, w, value, xp, truncate) ==
    IF function = "read" THEN HwReadPort(space, a, w, xp, truncate)
    ELSE HwWritePort(space, a, w, value \cap 0 .. 31, xp, truncate)

-----------------------------------------------------------------------------
(* The registers: [space, address, width, offset, access].                 *)

PowersOf2 == {1, 2, 4, 8, 16, 32, 64, 128, 256}

\* ACPI_ROUND_UP_POWER_OF_TWO_8, in a byte: 256, and what follows from the
\* mask of zero minus one, become 0.
RoundUpPowerOfTwo8(n) ==
    IF n = 0 THEN 0
    ELSE (CHOOSE p \in PowersOf2 : p >= n /\ \A q \in PowersOf2 : q >= n => p <= q) % 256

\* The width halves until the address is a multiple of it.
RECURSIVE Aligned(_, _)
Aligned(a, w) == IF a % (w \div 8) = 0 THEN w ELSE Aligned(a, w \div 2)

\* AcpiHwGetAccessBitWidth.
HwGetAccessBitWidth(reg, max) ==
    LET span == RoundUpPowerOfTwo8(reg.offset + reg.width)
        w == IF reg.offset = 0 /\ reg.width \in {8, 16, 32, 64, 128} THEN reg.width
             ELSE IF reg.access # 0 THEN 2 ^ (reg.access + 2)
             ELSE IF span <= 8 THEN 8
             ELSE Aligned(reg.address, span)
        limit == IF reg.space = IO THEN 32 ELSE max
    IN IF w < limit THEN w ELSE limit

RoundUp(n, w) == ((n + w - 1) \div w) * w

\* AcpiHwValidateRegister.  The rounded width is kept in a byte.
HwValidateRegister(reg, max) ==
    IF reg.address = 0 THEN "AE_BAD_ADDRESS"
    ELSE IF reg.space \notin {MEMORY, IO} \/ reg.access > 4 THEN "AE_SUPPORT"
    ELSE IF max < RoundUp(reg.offset + reg.width, HwGetAccessBitWidth(reg, max)) % 256
         THEN "AE_SUPPORT"
    ELSE OK

\* Mutant: the unit in which the register begins is left out.
UnitsPastOffset(reg) ==
    LET w == HwGetAccessBitWidth(reg, 64)
    IN {i \in 0 .. 63 : i * w < reg.offset + reg.width /\ i * w >= reg.offset}

\* The access units of a register: those that end after its first bit.
Units(reg) ==
    LET w == HwGetAccessBitWidth(reg, 64)
    IN {i \in 0 .. 63 : i * w < reg.offset + reg.width /\ (i + 1) * w > reg.offset}

UnitAddress(reg, i) == reg.address + i * (HwGetAccessBitWidth(reg, 64) \div 8)

\* The result of the last access stands for all of them: an address beyond
\* the last port stays beyond it in the units that follow.
LastStatus(status) ==
    IF DOMAIN status = {} THEN OK
    ELSE status[CHOOSE i \in DOMAIN status : \A j \in DOMAIN status : j <= i]

\* AcpiHwRead.
HwRead(space, reg, xp, truncate) ==
    LET w == HwGetAccessBitWidth(reg, 64)
        one(i) == IF reg.space = MEMORY
                  THEN [status |-> OK, value |-> OsRead(space, UnitAddress(reg, i), w),
                        touched |-> Bits(UnitAddress(reg, i), w)]
                  ELSE HwReadPort(space, UnitAddress(reg, i), w, xp, truncate)
    IN IF HwValidateRegister(reg, 64) # OK
       THEN [status |-> HwValidateRegister(reg, 64), value |-> {}, touched |-> {}]
       ELSE [status |-> LastStatus([i \in Units(reg) |-> one(i).status]),
             value |-> UNION {{b + i * w : b \in one(i).value} : i \in Units(reg)},
             touched |-> UNION {one(i).touched : i \in Units(reg)}]

\* AcpiHwWrite: each unit takes the bits of the value at its own position.
HwWrite(space, reg, value, xp, truncate) ==
    LET w == HwGetAccessBitWidth(reg, 64)
        part(i) == {b - i * w : b \in value \cap i * w .. (i + 1) * w - 1}
        one(i) == IF reg.space = MEMORY
                  THEN [status |-> OK, touched |-> Bits(UnitAddress(reg, i), w)]
                  ELSE LET r == HwWritePort(space, UnitAddress(reg, i), w, part(i), xp, truncate)
                       IN [status |-> r.status, touched |-> r.touched]
        touched == UNION {one(i).touched : i \in Units(reg)}
        base(i) == IF reg.space = IO THEN Truncated(UnitAddress(reg, i), truncate)
                   ELSE UnitAddress(reg, i)
        placed == UNION {Placed(base(i), w, part(i)) : i \in Units(reg)}
    IN IF HwValidateRegister(reg, 64) # OK
       THEN [status |-> HwValidateRegister(reg, 64), space |-> space, touched |-> {}]
       ELSE [status |-> LastStatus([i \in Units(reg) |-> one(i).status]),
             space |-> (space \ touched) \cup (placed \cap touched),
             touched |-> touched]

-----------------------------------------------------------------------------
(***************************************************************************)
(* Registers and ports chosen around every boundary that the code tells    *)
(* apart.  A job writes a value and reads it back.                         *)
(***************************************************************************)

CONSTANTS Offset, Width, Address, Port

VARIABLES job, wrote, read

vars == <<job, wrote, read>>

\* What the space holds before: a pattern in which neighbours differ.
Space(j) == {b \in 8 * j.address - 16 .. 8 * j.address + 80 : b % 3 = 0}

\* The value written: every bit, or a pattern that does not follow Space.
Value == {0 .. 63, {b \in 0 .. 63 : (b \div 2) % 2 = 0}}

RegisterJob ==
    [kind : {"register"}, space : {MEMORY, IO, "PCI_Config"}, address : Address,
     offset : Offset, width : Width, access : 0 .. 5, value : Value,
     xp : {FALSE}, truncate : {FALSE}]

PortJob ==
    [kind : {"port"}, space : {IO}, address : Port, offset : {0}, width : {8, 16, 32, 64},
     access : {0}, value : Value, xp : BOOLEAN, truncate : BOOLEAN]

NotYet == [status |-> "none"]

RegsInit == job = [kind |-> "none"] /\ wrote = NotYet /\ read = NotYet

Choose(j) ==
    /\ job = [kind |-> "none"]
    /\ job' = j
    /\ UNCHANGED <<wrote, read>>

Write ==
    /\ job.kind # "none" /\ wrote = NotYet
    /\ wrote' = IF job.kind = "register"
                THEN HwWrite(Space(job), job, job.value, job.xp, job.truncate)
                ELSE ExSystemIoSpaceHandler("write", Space(job), job.address, job.width,
                                            job.value, job.xp, job.truncate)
    /\ UNCHANGED <<job, read>>

Read ==
    /\ job.kind # "none" /\ wrote # NotYet /\ read = NotYet
    /\ read' = IF job.kind = "register"
               THEN HwRead(wrote.space, job, job.xp, job.truncate)
               ELSE ExSystemIoSpaceHandler("read", wrote.space, job.address, job.width,
                                           job.value, job.xp, job.truncate)
    /\ UNCHANGED <<job, wrote>>

RegsNext == (\E j \in RegisterJob \cup PortJob : Choose(j)) \/ Write \/ Read

Done == read # NotYet

\* A register reads back as it was written: its own bits come back at their
\* place (they are not moved down by the offset), every access is to bytes
\* that hold a bit of the register or share an aligned unit of the access
\* width with one, and the bits outside the accesses keep their value.
\* AcpiHwWrite and AcpiHwRead in hardware/hwregs.c.
RegisterExact ==
    Done /\ job.kind = "register" /\ read.status = OK /\ wrote.status = OK =>
        LET own == job.offset .. job.offset + job.width - 1
            at == {8 * job.address + b : b \in own}
            unit == HwGetAccessBitWidth(job, 64)
        IN /\ read.value \cap own = job.value \cap own
           /\ at \subseteq wrote.touched
           /\ job.width # 0 =>
                \A b \in wrote.touched : \E c \in at : b - c < unit /\ c - b < unit
           /\ read.touched = wrote.touched
           /\ wrote.space \ wrote.touched = Space(job) \ wrote.touched
           /\ job.offset # 0 /\ job.access = 0 => job.address % (unit \div 8) = 0

\* The ports a request names, after truncation.
Named(j) ==
    LET a == IF j.truncate THEN j.address % 65536 ELSE j.address
    IN a .. a + (j.width \div 8) - 1

\* The ports of the table that are closed to this BIOS.
Closed(j) == {p \in Named(j) : \E i \in PortRow : FirstPort(i) <= p /\ p <= LastPort(i) /\ Denies(i, j.xp)}

\* A port access touches no protected port, and every other port it names:
\* those read back what was written, the protected ones read as zero.
\* A request that reaches beyond port 65535, or whose width is not one of a
\* port access, touches nothing.  AcpiHwReadPort, AcpiHwWritePort and
\* AcpiHwValidateIoRequest in hardware/hwvalid.c.
PortsProtected ==
    Done /\ job.kind = "port" =>
        LET named == Named(job)
            legal == job.width # 64 /\ \A p \in named : p <= 65535
            open == IF legal THEN named \ Closed(job) ELSE {}
            base == CHOOSE p \in named : \A q \in named : p <= q
        IN /\ wrote.touched = UNION {8 * p .. 8 * p + 7 : p \in open}
           /\ read.touched = wrote.touched
           /\ (read.status = OK) <=> legal
           /\ read.value = {b \in job.value \cap 0 .. job.width - 1 : base + (b \div 8) \in open}
=============================================================================
