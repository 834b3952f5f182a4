------------------------------- MODULE MCAcpi -------------------------------
(***************************************************************************)
(* One instance of each part of ACPICA whose callers interleave or whose   *)
(* calls come in every order: the threads of the interpreter, the table    *)
(* manager, the walks of the namespace, operation regions with their       *)
(* handlers, registers and ports, and GPE blocks.  A behaviour belongs to  *)
(* one part; the others are idle.                                          *)
(***************************************************************************)
EXTENDS AcpiTables, TLC

CONSTANTS t1, t2, i1, i2, i3, None

VARIABLES part,
          interp, th, mx, md, owners, created, glAcquired, unbalanced,    \* AcpiExec
          tree, walking, walk, reader, log, before,                       \* AcpiWalk
          s, chain, job, wrote, read,                                     \* AcpiRegions
          xrupts, next, prev, block, pointer, attached, total, allInit,   \* AcpiGpe
          methods, fadt, stage, stuck, raw, calls, work

Exec == INSTANCE AcpiExec WITH
            Thread <- {t1, t2}, Method <- {"m1", "m2", "m3"}, Mutex <- {"x1", "gl"}, GL <- "gl",
            OwnerId <- {i1, i2, i3},
            Level <- "m1" :> 1 @@ "m2" :> 0 @@ "m3" :> 0 @@ "x1" :> 2 @@ "gl" :> 0,
            Body <- "m1" :> {"x1"} @@ "m2" :> {"call", "gl"} @@ "m3" :> {"field", "sleep", "error"},
            Declared <- {"m1"}, Creator <- {"m2"}, AutoSerialize <- TRUE, Name <- {"n"},
            MethodLimit <- 2, MaxNesting <- 2, ids <- owners, nodes <- created
Walk == INSTANCE AcpiWalk WITH
            Root <- 0, NoNode <- -1, Answers <- {"OK", "CTRL_DEPTH", "CTRL_TERMINATE"},
            MaxNodes <- 3, nodes <- tree, job <- walking
Regions == INSTANCE AcpiRegions WITH
            Devices <- {1, 2}, ParentOf <- <<0, 1>>, Bridge <- 1, RegOf <- <<"quiet", "touches">>,
            Regions <- {1, 2, 3, 4}, DeviceOf <- <<2, 1, 2, 2>>,
            SpaceOf <- <<"PCI", "PCI", "EC", "MEMORY">>, Base <- <<0, 0, 0, 1>>,
            Extent <- <<4, 4, 4, 4>>, PageSize <- 2, NONE <- None,
            Handlers <- {<<1, "PCI", "user">>, <<2, "EC", "user">>, <<0, "EC", "user">>,
                         <<2, "MEMORY", "user">>},
            Offset <- {0, 1, 9, 33}, Width <- {0, 1, 8, 20, 64}, Address <- {0, 257, 258},
            Port <- {14, 15, 16, 29, 30, 31, 32, 33, 34, 66, 134, 136, 142, 146, 148, 149, 151, 157,
                     160, 223, 1229, 1231, 1233, 3317, 3326, 3328, 65532, 65533, 65535, 65566}
Gpe == INSTANCE AcpiGpe WITH
            Width <- 2, Sci <- 9, Irqs <- {9, 5}, Devices <- {"d1", "d2", "d3"},
            Consumers <- {"lid"}, MaxCount <- 2, MaxCalls <- 5, Kind <- {"blocks", "drivers"}

----------------------------------------------------------------------------
(* One part at a time *)

IdleExec == interp = 0 /\ th = 0 /\ mx = 0 /\ md = 0 /\ owners = 0 /\ created = 0
            /\ glAcquired = 0 /\ unbalanced = 0
IdleTables == tables = 0 /\ live = 0 /\ broken = 0 /\ nodes = 0 /\ ids = 0 /\ call = 0
              /\ got = 0 /\ loads = 0 /\ unloads = 0
IdleWalk == tree = 0 /\ walking = 0 /\ walk = 0 /\ reader = 0 /\ log = 0 /\ before = 0
IdleRegions == s = 0 /\ chain = 0
IdleRegs == job = 0 /\ wrote = 0 /\ read = 0
IdleGpe == xrupts = 0 /\ next = 0 /\ prev = 0 /\ block = 0 /\ pointer = 0 /\ attached = 0
           /\ total = 0 /\ allInit = 0 /\ methods = 0 /\ fadt = 0 /\ stage = 0 /\ stuck = 0
           /\ raw = 0 /\ calls = 0 /\ work = 0

execVars == <<interp, th, mx, md, owners, created, glAcquired, unbalanced>>
walkVars == <<tree, walking, walk, reader, log, before>>
regionVars == <<s, chain>>
regVars == <<job, wrote, read>>
gpeVars == <<xrupts, next, prev, block, pointer, attached, total, allInit, methods, fadt, stage,
             stuck, raw, calls, work>>

Init ==
    /\ part \in {"exec", "tables", "walk", "regions", "registers", "gpe"}
    /\ IF part = "exec" THEN Exec!Init ELSE IdleExec
    /\ IF part = "tables" THEN TablesInit ELSE IdleTables
    /\ IF part = "walk" THEN Walk!Init ELSE IdleWalk
    /\ IF part = "regions" THEN Regions!Init ELSE IdleRegions
    /\ IF part = "registers" THEN Regions!RegsInit ELSE IdleRegs
    /\ IF part = "gpe" THEN Gpe!GpeInit ELSE IdleGpe

OthersIdle ==
    /\ UNCHANGED part
    /\ IF part = "exec" THEN TRUE ELSE UNCHANGED execVars
    /\ IF part = "tables" THEN TRUE ELSE UNCHANGED tableVars
    /\ IF part = "walk" THEN TRUE ELSE UNCHANGED walkVars
    /\ IF part = "regions" THEN TRUE ELSE UNCHANGED regionVars
    /\ IF part = "registers" THEN TRUE ELSE UNCHANGED regVars
    /\ IF part = "gpe" THEN TRUE ELSE UNCHANGED gpeVars

Next ==
    \/ part = "exec" /\ Exec!Next /\ OthersIdle
    \/ part = "tables" /\ TablesNext /\ OthersIdle
    \/ part = "walk" /\ Walk!Next /\ OthersIdle
    \/ part = "regions" /\ Regions!Next /\ OthersIdle
    \/ part = "registers" /\ Regions!RegsNext /\ OthersIdle
    \/ part = "gpe" /\ Gpe!GpeNext /\ OthersIdle

vars == <<part, execVars, tableVars, walkVars, regionVars, regVars, gpeVars>>

Spec == Init /\ [][Next]_vars

\* The threads and the identifiers of AcpiExec are interchangeable.
Symmetry == Permutations({t1, t2}) \cup Permutations({i1, i2, i3})

----------------------------------------------------------------------------
(* Properties *)

(* A serialized method runs in one thread at a time, recursion aside,      *)
(* threads that acquire mutexes in the order of their sync levels never    *)
(* wait for each other in a circle, and nodes that a method created do not *)
(* outlive the identifier that owns them (AcpiDsBeginMethodExecution,      *)
(* AcpiExAcquireMutex, AcpiDsTerminateControlMethod); when no thread runs  *)
(* a method every mutex, counter, lock and owner identifier is back, also  *)
(* after a method that failed half-way.                                    *)
ExecSound == part = "exec" => /\ Exec!SerializedAlone
                              /\ Exec!OrderedWaitsAcyclic
                              /\ Exec!NoOrphanNodes
                              /\ Exec!NothingLeaks

(* The namespace holds what the loaded tables declare and nothing else,    *)
(* and a pointer from AcpiGetTable stays mapped until it is put back,      *)
(* whatever is loaded, unloaded or validated beside it (tbdata.c, nsload). *)
TablesSound == part = "tables" => NamespaceMatchesTables /\ TablePointersLive

(* A walk of the namespace stands on live nodes, visits what it should     *)
(* exactly once, and _INI methods run parents first (nswalk.c, nsinit.c).  *)
WalksSound == part = "walk" => /\ Walk!StandsOnLiveNodes
                               /\ Walk!WalkComplete
                               /\ Walk!IniRunsInOrder

(* Regions, handlers, contexts and mappings agree, a region is served by   *)
(* the nearest handler, _REG was told so, and a PCI region has the address *)
(* of its device (evhandler.c, evregion.c, evrgnini.c, hwpci.c).           *)
RegionsSound == part = "regions" => /\ Regions!HandlersLinked
                                    /\ Regions!ScopeKept
                                    /\ Regions!ContextsExact
                                    /\ Regions!RegTold
                                    /\ Regions!PciIdDerived

(* A register reads back what was written to it and its neighbours keep    *)
(* their value; protected ports are not touched (hwregs.c, hwvalid.c).     *)
RegistersExact == part = "registers" => Regions!RegisterExact /\ Regions!PortsProtected

(* The lists of interrupts and GPE blocks agree with the blocks there are, *)
(* a GPE's run and wake masks with its references, and the enable bits in  *)
(* hardware with both (evgpeblk.c, evgpeutil.c, evxfgpe.c, hwgpe.c).       *)
GpeBlocksSound == part = "gpe" => /\ Gpe!BlocksSound
                                  /\ Gpe!ReferencesExact
                                  /\ Gpe!RunsAsReferenced
=============================================================================
