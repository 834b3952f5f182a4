------------------------------- MODULE AcpiGpe ------------------------------
(***************************************************************************)
(* The general purpose events (GPEs) of ACPICA: how blocks of GPEs come    *)
(* and go on the list of their interrupt (evgpeblk.c, evgpeutil.c,         *)
(* evgpeinit.c), and the calls with which drivers count references, mask a *)
(* GPE and make it a wake source (evxfgpe.c, evgpe.c).  What the interrupt *)
(* does with a GPE that fires, and the handlers drivers install, are in    *)
(* AcpiEvents; the status registers matter to nothing here.                *)
(*                                                                         *)
(* Every call runs to its end under the events or namespace mutex or the   *)
(* GPE lock, so it is one action.  A block is named by its place: the two  *)
(* blocks of the FADT, and one for every device that may be given one.     *)
(***************************************************************************)
EXTENDS Naturals, Sequences, FiniteSets, SequencesExt

CONSTANTS
  Width,      \* GPEs in a register: ACPI_GPE_REGISTER_WIDTH
  Sci,        \* the interrupt of the FADT's blocks
  Irqs,       \* the interrupts a block device may be given, Sci among them
  Devices,    \* the GPE block devices
  Consumers,  \* the devices that may wake the machine
  MaxCount,   \* the largest RuntimeCount: ACPI_UINT8_MAX
  MaxCalls,   \* bound on the calls of a behaviour
  None

VARIABLES
  xrupts,   \* AcpiGbl_GpeXruptListHead: [irq, hooked, head], in list order
  next,     \* Next of every block
  prev,     \* Previous of every block
  block,    \* the block at every place, or None
  pointer,  \* AcpiGbl_GpeFadtBlocks and the devices' Device.GpeBlock
  attached, \* the devices whose node has an object
  total,    \* AcpiCurrentGpeCount
  allInit,  \* AcpiGbl_AllGpesInitialized
  methods,  \* the methods of the namespace, in the order of the walk
  fadt,     \* the FADT
  stage,    \* "gpe0", "gpe1": AcpiEvGpeInitialize is at that block;
            \* then "awake", "off" (all disabled) or "asleep" (wake GPEs on)
  stuck,    \* ACPI_MTX_NAMESPACE was left held by a call that returned
  raw,      \* the GPEs AcpiSetGpe was used on
  calls     \* calls so far

vars == <<xrupts, next, prev, block, pointer, attached, total, allInit,
          methods, fadt, stage, stuck, raw, calls>>

Places == {"gpe0", "gpe1"} \cup Devices
FadtPlaces == {"gpe0", "gpe1"}

(***************************************************************************)
(* An event and the bits its register keeps for it.                        *)
(***************************************************************************)
FreshEvent ==
  [dispatch |-> "none",   \* the dispatch type of Flags
   level |-> FALSE,       \* ACPI_GPE_LEVEL_TRIGGERED
   method |-> None,       \* Dispatch.MethodNode
   notify |-> {},         \* Dispatch.NotifyList
   canWake |-> FALSE, auto |-> FALSE,
   count |-> 0,           \* RuntimeCount
   held |-> 0,            \* references drivers took and did not give back
   dispatching |-> FALSE, \* DisableForDispatch
   run |-> FALSE, mask |-> FALSE, wake |-> FALSE,
   hw |-> FALSE]          \* the bit of the enable register

\* AcpiHwLowSetGpe: the enable bit, unless the GPE is masked.
LowSetGpe(e, on) == IF e.mask THEN e ELSE [e EXCEPT !.hw = on]

\* AcpiEvAddGpeReference, for a GPE below its limit.
AddReference(e) ==
  LET more == [e EXCEPT !.count = @ + 1, !.run = TRUE] IN
  IF e.count = 0 THEN LowSetGpe(more, TRUE) ELSE more

\* AcpiEvRemoveGpeReference: nothing (AE_LIMIT) without a reference.
RemoveReference(e) ==
  CASE e.count = 0 -> e
    [] e.count = 1 -> LowSetGpe([e EXCEPT !.count = 0, !.run = FALSE], FALSE)
    [] OTHER -> [e EXCEPT !.count = @ - 1]

(***************************************************************************)
(* Lists of blocks, and walks over them.                                   *)
(***************************************************************************)

\* The blocks met from b along Next, at most n of them.
Follow(b, n) ==
  LET walk[k \in 0..n] ==
        IF k = 0 THEN <<b>>
        ELSE LET w == walk[k-1]
                 then == next[w[Len(w)]]
             IN IF then = None THEN w ELSE Append(w, then)
  IN IF b = None THEN <<>> ELSE walk[n]

\* AcpiEvWalkGpeList: every interrupt, every block of its list.
WalkGpeList ==
  FlattenSeq([i \in DOMAIN xrupts |->
                Follow(xrupts[i].head, Cardinality(Places))])

\* AcpiEvLowGetGpeInfo: the event a number means in a block, or None.
LowGetGpeInfo(number, b) ==
  IF block[b] = None \/ number < block[b].base THEN None
  ELSE LET index == number - block[b].base IN
       IF index \notin DOMAIN block[b].events THEN None ELSE index

\* AcpiEvGetGpeEventInfo: without a device the FADT's blocks in turn, with
\* one the block of the device.
GetGpeEventInfo(device, number) ==
  LET in(b) == IF pointer[b] = None THEN None
               ELSE LowGetGpeInfo(number, pointer[b])
  IN IF device # None THEN <<device, in(device)>>
     ELSE IF in("gpe0") # None THEN <<"gpe0", in("gpe0")>>
     ELSE <<"gpe1", in("gpe1")>>

(***************************************************************************)
(* The methods that handle GPEs.                                           *)
(***************************************************************************)

\* AcpiEvMatchGpeMethod for method m and block b: the events afterwards.  A
\* name that is not _Lxx or _Exx is no GPE method; a method for a number
\* outside the block, or of a GPE that already has a handler or a method, is
\* ignored.
MatchGpeMethod(m, b) ==
  LET index == m.number - b.base
      e == b.events[index]
      off == LowSetGpe(e, FALSE)
  IN IF \/ m.type \notin {"L", "E"}
        \/ m.number < b.base
        \/ index \notin DOMAIN b.events
     THEN b
     ELSE IF e.dispatch \in {"handler", "method"} THEN b
     ELSE [b EXCEPT !.events[index] =
             [off EXCEPT !.dispatch = "method", !.method = m,
                         !.level = @ \/ m.type = "L", !.notify = {}]]

\* The namespace walk under the block's node: the methods of its scope, and
\* with an owner only those of that table.  \_GPE is the FADT blocks' node.
MatchMethods(b, place, known, owner) ==
  LET scope == IF place \in FadtPlaces THEN "GPE" ELSE place
      mine == SelectSeq(known, LAMBDA m:
                /\ m.scope = scope
                /\ owner = None \/ m.owner = owner)
  IN FoldLeft(LAMBDA acc, m: MatchGpeMethod(m, acc), b, mine)

(***************************************************************************)
(* Creating and deleting blocks.                                           *)
(***************************************************************************)

\* AcpiEvGetGpeXruptBlock: the interrupt's entry, appended if there is none;
\* an interrupt other than the SCI gets a handler of its own.
GetGpeXruptBlock(irq) ==
  IF \E i \in DOMAIN xrupts : xrupts[i].irq = irq THEN xrupts
  ELSE Append(xrupts, [irq |-> irq, hooked |-> irq # Sci, head |-> None])

\* AcpiEvInstallGpeBlock: the block becomes the last of its interrupt's list.
InstallGpeBlock(place, irq) ==
  LET list == GetGpeXruptBlock(irq)
      at == CHOOSE i \in DOMAIN list : list[i].irq = irq
      chain == Follow(list[at].head, Cardinality(Places))
  IN IF chain = <<>>
     THEN /\ xrupts' = [list EXCEPT ![at].head = place]
          /\ next' = [next EXCEPT ![place] = None]
          /\ prev' = [prev EXCEPT ![place] = None]
     ELSE /\ xrupts' = list
          /\ next' = [next EXCEPT ![Last(chain)] = place, ![place] = None]
          /\ prev' = [prev EXCEPT ![place] = Last(chain)]

\* AcpiEvCreateGpeInfoBlocks and AcpiEvCreateGpeBlock: a block whose GPEs are
\* disabled and clear, its methods matched.
NewBlock(place, registers, base, irq) ==
  MatchMethods([base |-> base, irq |-> irq, ready |-> FALSE,
                events |-> [i \in 0..(registers * Width - 1) |-> FreshEvent]],
               place, methods, None)

\* AcpiEvCreateGpeBlock; the caller's pointer is set last.
CreateGpeBlock(place, registers, base, irq) ==
  /\ InstallGpeBlock(place, irq)
  /\ block' = [block EXCEPT ![place] = NewBlock(place, registers, base, irq)]
  /\ pointer' = [pointer EXCEPT ![place] = place]
  /\ allInit' = FALSE
  /\ total' = total + registers * Width

\* AcpiEvDeleteGpeXrupt: the SCI's entry stays with an empty list, another's
\* handler is removed and the entry unlinked.
DeleteGpeXrupt(irq) ==
  IF irq = Sci
  THEN [i \in DOMAIN xrupts |->
          IF xrupts[i].irq = irq THEN [xrupts[i] EXCEPT !.head = None]
          ELSE xrupts[i]]
  ELSE SelectSeq(xrupts, LAMBDA x : x.irq # irq)

\* Mutant: the next block keeps its pointer to the deleted one.
DeleteGpeBlockForward(b) ==
  /\ IF prev[b] = None /\ next[b] = None
     THEN xrupts' = DeleteGpeXrupt(block[b].irq)
     ELSE xrupts' = IF prev[b] # None THEN xrupts
                    ELSE [i \in DOMAIN xrupts |->
                            IF xrupts[i].irq = block[b].irq
                            THEN [xrupts[i] EXCEPT !.head = next[b]]
                            ELSE xrupts[i]]
  /\ next' = [p \in Places |-> IF p # b /\ prev[b] = p THEN next[b]
                               ELSE IF p = b THEN None ELSE next[p]]
  /\ prev' = [prev EXCEPT ![b] = None]
  /\ total' = total - Cardinality(DOMAIN block[b].events)
  /\ block' = [block EXCEPT ![b] = None]

\* AcpiEvDeleteGpeBlock: the block is disabled and unlinked, the interrupt
\* given up with its last block.
DeleteGpeBlock(b) ==
  /\ IF prev[b] = None /\ next[b] = None
     THEN /\ xrupts' = DeleteGpeXrupt(block[b].irq)
          /\ UNCHANGED <<next, prev>>
     ELSE /\ xrupts' = IF prev[b] # None THEN xrupts
                       ELSE [i \in DOMAIN xrupts |->
                               IF xrupts[i].irq = block[b].irq
                               THEN [xrupts[i] EXCEPT !.head = next[b]]
                               ELSE xrupts[i]]
          /\ next' = [p \in Places |->
                        CASE p = b -> None
                          [] p # b /\ prev[b] = p -> next[b]
                          [] OTHER -> next[p]]
          /\ prev' = [p \in Places |->
                        CASE p = b -> None
                          [] p # b /\ next[b] = p -> prev[b]
                          [] OTHER -> prev[p]]
  /\ total' = total - Cardinality(DOMAIN block[b].events)
  /\ block' = [block EXCEPT ![b] = None]

(***************************************************************************)
(* Start-up and tables.                                                    *)
(***************************************************************************)
Call == calls < MaxCalls /\ calls' = calls + 1
Running == stage \in {"awake", "off", "asleep"}

\* The part of AcpiEvGpeInitialize about GPE block 0.
GpeInitialize0 ==
  /\ stage = "gpe0" /\ stage' = "gpe1"
  /\ IF fadt.count0 > 0 THEN CreateGpeBlock("gpe0", fadt.count0, 0, Sci)
     ELSE UNCHANGED <<xrupts, next, prev, block, pointer, allInit, total>>
  /\ UNCHANGED <<attached, methods, fadt, stuck, raw, calls>>

\* Whether block 1 begins at a number of block 0.
Overlaps(f) == f.count0 > 0 /\ f.count0 * Width - 1 >= f.base1

\* The part about GPE block 1, which is ignored if it overlaps block 0.
GpeInitialize1 ==
  /\ stage = "gpe1" /\ stage' = "awake"
  /\ IF fadt.count1 > 0 /\ ~Overlaps(fadt)
     THEN CreateGpeBlock("gpe1", fadt.count1, fadt.base1, Sci)
     ELSE UNCHANGED <<xrupts, next, prev, block, pointer, allInit, total>>
  /\ UNCHANGED <<attached, methods, fadt, stuck, raw, calls>>

\* A table is loaded: its methods are new in the namespace and
\* AcpiEvUpdateGpes matches them with every block on the lists.  A method for
\* a GPE that notifies devices would take it over (AcpiEvMatchGpeMethod does
\* not ask); such tables are left out.
LoadTable(t) ==
  LET known == methods \o t.methods IN
  /\ Running /\ Call /\ ~stuck
  /\ t.owner \notin {methods[i].owner : i \in DOMAIN methods}
  /\ \A i \in DOMAIN t.methods, b \in ToSet(WalkGpeList) :
       LET g == LowGetGpeInfo(t.methods[i].number, b) IN
       g # None => block[b].events[g].dispatch # "notify"
  /\ methods' = known
  /\ block' = [b \in Places |->
                 IF b \in ToSet(WalkGpeList)
                 THEN MatchMethods(block[b], b, known, t.owner)
                 ELSE block[b]]
  /\ UNCHANGED <<xrupts, next, prev, pointer, attached, total, allInit, fadt,
                 stage, stuck, raw>>

\* AcpiInstallGpeBlock for a device without an object.
AcpiInstallGpeBlock(d, registers, irq) ==
  /\ Running /\ Call /\ ~stuck
  /\ IF d \in attached
     THEN UNCHANGED <<xrupts, next, prev, block, pointer, attached, total,
                      allInit>>
     ELSE /\ CreateGpeBlock(d, registers, 0, irq)
          /\ attached' = attached \cup {d}
  /\ UNCHANGED <<methods, fadt, stage, stuck, raw>>

\* AcpiRemoveGpeBlock; a device without a block is refused by a return that
\* keeps the namespace mutex.
AcpiRemoveGpeBlock(d) ==
  /\ Running /\ Call /\ ~stuck
  /\ IF pointer[d] = None
     THEN /\ stuck' = TRUE
          /\ UNCHANGED <<xrupts, next, prev, block, pointer, total, raw>>
     ELSE /\ DeleteGpeBlock(pointer[d])
          /\ pointer' = [pointer EXCEPT ![d] = None]
          /\ raw' = {g \in raw : g[1] # d}
          /\ UNCHANGED stuck
  /\ UNCHANGED <<attached, allInit, methods, fadt, stage>>

\* AcpiEvInitializeGpeBlock, once for a block: every GPE with a method that
\* is no wake source gets a reference.
InitializeGpeBlock(b) ==
  IF b.ready THEN b
  ELSE [b EXCEPT !.ready = TRUE,
          !.events = [i \in DOMAIN b.events |->
            LET e == b.events[i] IN
            IF e.dispatch # "method" \/ e.canWake \/ e.count = MaxCount THEN e
            ELSE [AddReference(e) EXCEPT !.auto = TRUE]]]

\* AcpiUpdateAllGpes.
AcpiUpdateAllGpes ==
  /\ Running /\ Call
  /\ block' = [b \in Places |->
                 IF ~allInit /\ b \in ToSet(WalkGpeList)
                 THEN InitializeGpeBlock(block[b]) ELSE block[b]]
  /\ allInit' = TRUE
  /\ UNCHANGED <<xrupts, next, prev, pointer, attached, total, methods, fadt,
                 stage, stuck, raw>>

(***************************************************************************)
(* The drivers' calls about one GPE, each under the GPE lock; a number     *)
(* that means no GPE is AE_BAD_PARAMETER.                                  *)
(***************************************************************************)
EventInfo(device, number) ==
  LET g == GetGpeEventInfo(device, number) IN block[g[1]].events[g[2]]

SetEventInfo(device, number, new) ==
  LET g == GetGpeEventInfo(device, number) IN
  /\ Running /\ Call /\ g[2] # None
  /\ block' = [block EXCEPT ![g[1]].events[g[2]] = new]
  /\ UNCHANGED <<xrupts, next, prev, pointer, attached, total, allInit,
                 methods, fadt, stage, stuck>>

\* AcpiEnableGpe: refused without a way to handle the GPE, and at the limit.
EnableGpe(e) ==
  IF e.dispatch = "none" \/ e.count = MaxCount THEN e
  ELSE [AddReference(e) EXCEPT !.held = @ + 1]

AcpiEnableGpe(device, number) ==
  /\ SetEventInfo(device, number, EnableGpe(EventInfo(device, number)))
  /\ UNCHANGED raw

\* AcpiDisableGpe, by a driver that holds a reference.
DisableGpe(e) == [RemoveReference(e) EXCEPT !.held = @ - 1]

AcpiDisableGpe(device, number) ==
  /\ GetGpeEventInfo(device, number)[2] # None /\ EventInfo(device, number).held > 0
  /\ SetEventInfo(device, number, DisableGpe(EventInfo(device, number)))
  /\ UNCHANGED raw

\* AcpiSetGpe: the enable bit, past the references.
SetGpe(e, on) == [LowSetGpe(e, on) EXCEPT !.dispatching = ~on]

AcpiSetGpe(device, number, on) ==
  /\ SetEventInfo(device, number, SetGpe(EventInfo(device, number), on))
  /\ raw' = raw \cup {GetGpeEventInfo(device, number)}

\* AcpiEvMaskGpe: masking a masked GPE, and unmasking another, is refused.
MaskGpe(e, on) ==
  IF e.mask = on THEN e
  ELSE IF on THEN [LowSetGpe(e, FALSE) EXCEPT !.mask = TRUE]
  ELSE LET open == [e EXCEPT !.mask = FALSE] IN
       IF e.count > 0 /\ ~e.dispatching THEN LowSetGpe(open, TRUE) ELSE open

AcpiMaskGpe(device, number, on) ==
  /\ SetEventInfo(device, number, MaskGpe(EventInfo(device, number), on))
  /\ UNCHANGED raw

\* AcpiMarkGpeForWake.
MarkGpeForWake(e) == [e EXCEPT !.canWake = TRUE]

AcpiMarkGpeForWake(device, number) ==
  /\ SetEventInfo(device, number, MarkGpeForWake(EventInfo(device, number)))
  /\ UNCHANGED raw

\* AcpiSetupGpeForWake: a GPE nothing handles will notify the device, one
\* that was enabled for its method loses that reference; a device is put on
\* the list once.
SetupGpeForWake(e, consumer) ==
  LET f == CASE e.dispatch = "none" ->
                  [e EXCEPT !.dispatch = "notify", !.level = TRUE,
                            !.canWake = FALSE, !.auto = FALSE]
             [] e.dispatch # "none" /\ e.auto ->
                  [RemoveReference(e) EXCEPT !.auto = FALSE]
             [] OTHER -> e
  IN IF f.dispatch # "notify" THEN [f EXCEPT !.canWake = TRUE]
     ELSE IF consumer \in f.notify THEN f
     ELSE [f EXCEPT !.notify = @ \cup {consumer}, !.canWake = TRUE]

AcpiSetupGpeForWake(device, number, consumer) ==
  /\ SetEventInfo(device, number, SetupGpeForWake(EventInfo(device, number), consumer))
  /\ UNCHANGED raw

\* AcpiSetGpeWakeMask: only for a GPE that can wake (else AE_TYPE).
SetGpeWakeMask(e, on) == IF e.canWake THEN [e EXCEPT !.wake = on] ELSE e

AcpiSetGpeWakeMask(device, number, on) ==
  /\ SetEventInfo(device, number, SetGpeWakeMask(EventInfo(device, number), on))
  /\ UNCHANGED raw

\* AcpiGetGpeDevice: the block that holds the index-th GPE of the walk, None
\* (AE_NOT_EXIST) past the count.
GetGpeDevice(index) ==
  LET size(b) == Cardinality(DOMAIN block[b].events)
      walk == WalkGpeList
      step(acc, b) == IF acc.found # None THEN acc
                      ELSE [base |-> acc.base + size(b),
                            found |-> IF index < acc.base + size(b) THEN b
                                      ELSE None]
  IN IF index >= total THEN None
     ELSE FoldLeft(step, [base |-> 0, found |-> None], walk).found

(***************************************************************************)
(* All GPEs at once, in the order in which a sleep and a wake-up use them. *)
(***************************************************************************)
AllGpes == UNION {{b} \X DOMAIN block[b].events : b \in ToSet(WalkGpeList)}

\* The GPEs in on are enabled in hardware, the others disabled.
SetAll(on) ==
  LET walk == ToSet(WalkGpeList) IN
  block' = [b \in Places |->
              IF b \notin walk THEN block[b]
              ELSE [block[b] EXCEPT !.events =
                      [i \in DOMAIN @ |-> [@[i] EXCEPT !.hw = <<b, i>> \in on]]]]

Switch(from, to) ==
  /\ stage \in from /\ stage' = to /\ Call
  /\ UNCHANGED <<xrupts, next, prev, pointer, attached, total, allInit,
                 methods, fadt, stuck, raw>>

AcpiDisableAllGpes ==
  SetAll({}) /\ Switch({"awake", "asleep"}, "off")

AcpiEnableAllWakeupGpes ==
  SetAll({g \in AllGpes : block[g[1]].events[g[2]].wake}) /\ Switch({"off"}, "asleep")

\* A register none of whose GPEs is referenced is not written.
EnabledAtRuntime(es, i) ==
  LET register == {j \in DOMAIN es : j \div Width = i \div Width} IN
  IF \A j \in register : ~es[j].run THEN es[i].hw
  ELSE es[i].run /\ ~es[i].mask

AcpiEnableAllRuntimeGpes ==
  SetAll({g \in AllGpes : EnabledAtRuntime(block[g[1]].events, g[2])}) /\ Switch({"off"}, "awake")

(***************************************************************************)
(* Properties.                                                             *)
(***************************************************************************)
Linked == {b \in Places : block[b] # None}

\* Whatever blocks were added and removed, each block stands exactly once on
\* the lists, on that of its interrupt, linked both ways; an interrupt other
\* than the SCI has a block and its handler; the pointers to blocks are to
\* those on the lists; AcpiCurrentGpeCount counts their GPEs, and below it
\* every index has a device; and no number means a GPE of both FADT blocks.
BlocksSound ==
  Running =>
  LET walk == WalkGpeList
      device == [index \in 0..(total + 1) |-> GetGpeDevice(index)]
  IN
  /\ ToSet(walk) = Linked /\ Len(walk) = Cardinality(Linked)
  /\ \A i \in DOMAIN xrupts :
       LET chain == Follow(xrupts[i].head, Cardinality(Places)) IN
       /\ xrupts[i].irq # Sci => chain # <<>> /\ xrupts[i].hooked
       /\ \A k \in DOMAIN chain :
            /\ block[chain[k]].irq = xrupts[i].irq
            /\ prev[chain[k]] = IF k = 1 THEN None ELSE chain[k-1]
  /\ {pointer[p] : p \in Places} \ {None} = Linked
  /\ \A index \in 0..(total + 1) : (device[index] # None) <=> index < total
  /\ \A b \in Linked :
       Cardinality({index \in DOMAIN device : device[index] = b})
         = Cardinality(DOMAIN block[b].events)
  /\ \A number \in 0..(total + 8) :
       \/ block["gpe0"] = None \/ LowGetGpeInfo(number, "gpe0") = None
       \/ block["gpe1"] = None \/ LowGetGpeInfo(number, "gpe1") = None

\* The runtime count of a GPE is the references drivers hold and the one
\* AcpiUpdateAllGpes took for its method, which no second call takes or gives
\* back again; only a GPE made a wake source wakes the machine, and the
\* devices to notify are those of a GPE without method.
ReferencesExact ==
  \A b \in Linked : \A i \in DOMAIN block[b].events :
    LET e == block[b].events[i] IN
    /\ e.count = e.held + IF e.auto THEN 1 ELSE 0
    /\ e.run <=> e.count > 0
    /\ e.auto => e.dispatch = "method" /\ e.method.number = block[b].base + i
    /\ e.wake => e.canWake
    /\ (e.notify # {}) <=> (e.dispatch = "notify")
    /\ e.dispatch = "method" => (e.level <=> e.method.type = "L")

\* While the machine runs, a GPE is enabled in the hardware exactly when it is
\* referenced and not masked, in whatever order it was masked, referenced and
\* the machine slept; one driven by AcpiSetGpe is at least off while masked.
RunsAsReferenced ==
  stage = "awake" =>
  \A b \in Linked : \A i \in DOMAIN block[b].events :
    LET e == block[b].events[i] IN
    IF <<b, i>> \in raw THEN e.mask => ~e.hw
    ELSE e.hw <=> e.count > 0 /\ ~e.mask

-----------------------------------------------------------------------------
(***************************************************************************)
(* Two workloads for the GPE model: blocks come and go on two interrupts,  *)
(* and drivers call about the GPEs of one FADT register.                   *)
(***************************************************************************)

CONSTANT Kind   \* "blocks" or "drivers", chosen by the initial state

VARIABLE work

gpeVars == <<vars, work>>

SmallFadts == [count0 : 0..1, count1 : 0..1, base1 : {1, 2}]
OneFadt == {[count0 |-> 1, count1 |-> 0, base1 |-> 0]}

Method(scope, type, number, owner) ==
  [scope |-> scope, type |-> type, number |-> number, owner |-> owner]

Dsdt == <<Method("GPE", "L", 0, "dsdt"), Method("GPE", "x", 1, "dsdt"),
          Method("d1", "E", 1, "dsdt")>>
Ssdt == [owner |-> "ssdt",
         methods |-> <<Method("GPE", "E", 1, "ssdt"),
                       Method("GPE", "E", 0, "ssdt"),
                       Method("d2", "L", 0, "ssdt")>>]
SmallTables == {Ssdt}

GpeInit ==
  /\ work \in Kind
  /\ fadt \in (IF work = "blocks" THEN SmallFadts ELSE OneFadt)
  /\ xrupts = <<>>
  /\ next = [p \in Places |-> None] /\ prev = [p \in Places |-> None]
  /\ block = [p \in Places |-> None] /\ pointer = [p \in Places |-> None]
  /\ attached = {} /\ total = 0 /\ allInit = FALSE
  /\ methods = Dsdt /\ stage = "gpe0" /\ stuck = FALSE /\ raw = {}
  /\ calls = 0

Asked == {<<None, n>> : n \in 0..1}

GpeNext ==
  /\ UNCHANGED work
  /\ \/ GpeInitialize0
     \/ GpeInitialize1
     \/ \E t \in SmallTables : LoadTable(t)
     \/ AcpiUpdateAllGpes
     \/ /\ work = "blocks"
        /\ \/ \E d \in Devices, irq \in Irqs : AcpiInstallGpeBlock(d, 1, irq)
           \/ \E d \in Devices : AcpiRemoveGpeBlock(d)
     \/ /\ work = "drivers"
        /\ \E g \in Asked :
             \/ AcpiEnableGpe(g[1], g[2])
             \/ AcpiDisableGpe(g[1], g[2])
             \/ AcpiMarkGpeForWake(g[1], g[2])
             \/ \E on \in BOOLEAN :
                  \/ AcpiSetGpe(g[1], g[2], on)
                  \/ AcpiMaskGpe(g[1], g[2], on)
                  \/ AcpiSetGpeWakeMask(g[1], g[2], on)
             \/ \E c \in Consumers : AcpiSetupGpeForWake(g[1], g[2], c)
     \/ /\ work = "drivers"
        /\ \/ AcpiDisableAllGpes
           \/ AcpiEnableAllWakeupGpes
           \/ AcpiEnableAllRuntimeGpes
=============================================================================
