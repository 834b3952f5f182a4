---------------------------- MODULE MCSequential ----------------------------
(***************************************************************************)
(* One instance of each part that runs to completion with nobody beside    *)
(* it: the programs of userspace and the libraries they call, and the      *)
(* functions of ACPICA that spell names, evaluate objects for a caller and *)
(* check what the firmware returned.  A behaviour belongs to one part; the *)
(* others are idle.                                                        *)
(***************************************************************************)
EXTENDS Integers, Sequences, TLC

VARIABLES part,
          prog, at, pc, file, stdin, cs, out, fail, errors,      \* Filters
          job, fs, stack, op, status, done, skipped, faults,     \* FileTools
          print, text, back,                                     \* Format
          env, map, changes, request, line, parsed,              \* CmdLine
          chunks, header, freeList, live, pending, calls,        \* Malloc
          name, obj, wrong, last,                                \* AcpiRepair
          nodes, path,                                           \* AcpiNames
          node, args, device, asked, answer                      \* AcpiEvaluate

Filters == INSTANCE Filters WITH BUFSIZ <- 2, Radix <- 3, MaxErrors <- 1, MaxLong <- 3, MaxShort <- 2
FileTools == INSTANCE FileTools WITH Order <- <<"d", "e", "x", "y">>, Buffer <- 2, MaxFaults <- 2
Format == INSTANCE Format WITH IntBits <- 8, LongBits <- 12, TokSize <- 16, StrSize <- 16,
                                 PrintSize <- 32, job <- print, out <- text
CmdLine == INSTANCE CmdLine WITH MaxTokens <- 8, MaxArgs <- 2, MaxStages <- 2,
                                   MaxRedirects <- 1, MaxChain <- 2, WordBuf <- 6,
                                   MaxChanges <- 3, MaxLine <- 4, asked <- request
Malloc == INSTANCE Malloc WITH HeapThread <- {1, 2}, Requests <- {1, 3}, Alignments <- {4},
                                 ChunkUnits <- 8, PageUnits <- 2, MaxChunks <- 2,
                                 Programs <- {{"grow"}, {"aligned_alloc"}}, request <- pending
Repair == INSTANCE AcpiRepair WITH WordBytes <- 2, IntegerBytes <- 1, Paths <- {<<97>>},
                                     PssBeside <- FALSE,
                                     TwiceWrong <- {"_CST", "_PSS", "_PRT", "_CSD"}
AcpiNames == INSTANCE AcpiNames WITH SegSize <- 2, NoBuffer <- 0, AllocateBuffer <- 1001,
                                       AllocateLocal <- 1002, MaxNodes <- 4, MaxPath <- 4
Evaluate == INSTANCE AcpiEvaluate WITH ObjSize <- 4, Word <- 2, NameSize <- 5, NumArgs <- 2,
                IdSize <- 2, InfoBase <- 3, EisaIdSize <- 3, DecimalSize <- 4, ClsSize <- 2,
                NoBuffer <- 0, AllocateBuffer <- -1, PciRootIds <- {<<7, 0>>}, MaxLength <- 24

----------------------------------------------------------------------------
(* One part at a time *)

IdleFilters == prog = 0 /\ at = 0 /\ pc = 0 /\ file = 0 /\ stdin = 0 /\ cs = 0 /\ out = 0
               /\ fail = 0 /\ errors = 0
IdleFileTools == job = 0 /\ fs = 0 /\ stack = 0 /\ op = 0 /\ status = 0 /\ done = 0
                 /\ skipped = 0 /\ faults = 0
IdleFormat == print = 0 /\ text = 0 /\ back = 0
IdleCmdLine == env = 0 /\ map = 0 /\ changes = 0 /\ request = 0 /\ line = 0 /\ parsed = 0
IdleMalloc == chunks = 0 /\ header = 0 /\ freeList = 0 /\ live = 0 /\ pending = 0 /\ calls = 0
IdleRepair == name = 0 /\ obj = 0 /\ wrong = 0 /\ last = 0
IdleNames == nodes = 0 /\ path = 0
IdleEvaluate == node = 0 /\ args = 0 /\ device = 0 /\ asked = 0 /\ answer = 0

filterVars == <<prog, at, pc, file, stdin, cs, out, fail, errors>>
toolVars == <<job, fs, stack, op, status, done, skipped, faults>>
formatVars == <<print, text, back>>
lineVars == <<env, map, changes, request, line, parsed>>
heapVars == <<chunks, header, freeList, live, pending, calls>>
repairVars == <<name, obj, wrong, last>>
nameVars == <<nodes, path>>
evaluateVars == <<node, args, device, asked, answer>>

Init ==
    /\ part \in {"filters", "file tools", "format", "command line", "malloc", "repair", "names",
                  "evaluate"}
    /\ IF part = "filters" THEN Filters!Init ELSE IdleFilters
    /\ IF part = "file tools" THEN FileTools!Init ELSE IdleFileTools
    /\ IF part = "format" THEN Format!Init ELSE IdleFormat
    /\ IF part = "command line" THEN CmdLine!Init ELSE IdleCmdLine
    /\ IF part = "malloc" THEN Malloc!HeapInit ELSE IdleMalloc
    /\ IF part = "repair" THEN Repair!Init ELSE IdleRepair
    /\ IF part = "names" THEN AcpiNames!Init ELSE IdleNames
    /\ IF part = "evaluate" THEN Evaluate!Init ELSE IdleEvaluate

OthersIdle ==
    /\ UNCHANGED part
    /\ IF part = "filters" THEN TRUE ELSE UNCHANGED filterVars
    /\ IF part = "file tools" THEN TRUE ELSE UNCHANGED toolVars
    /\ IF part = "format" THEN TRUE ELSE UNCHANGED formatVars
    /\ IF part = "command line" THEN TRUE ELSE UNCHANGED lineVars
    /\ IF part = "malloc" THEN TRUE ELSE UNCHANGED heapVars
    /\ IF part = "repair" THEN TRUE ELSE UNCHANGED repairVars
    /\ IF part = "names" THEN TRUE ELSE UNCHANGED nameVars
    /\ IF part = "evaluate" THEN TRUE ELSE UNCHANGED evaluateVars

Next ==
    \/ part = "filters" /\ Filters!Next /\ OthersIdle
    \/ part = "file tools" /\ FileTools!Next /\ OthersIdle
    \/ part = "format" /\ Format!Next /\ OthersIdle
    \/ part = "command line" /\ CmdLine!Next /\ OthersIdle
    \/ part = "malloc" /\ Malloc!HeapNext /\ OthersIdle
    \/ part = "repair" /\ Repair!Next /\ OthersIdle
    \/ part = "names" /\ AcpiNames!Next /\ OthersIdle
    \/ part = "evaluate" /\ Evaluate!Next /\ OthersIdle

vars == <<part, filterVars, toolVars, formatVars, lineVars, heapVars,
          repairVars, nameVars, evaluateVars>>

Spec == Init /\ [][Next]_vars

----------------------------------------------------------------------------
(* Properties *)


\* A copy or move that fails or is killed half-way has lost no file, and a
\* command that exits with 0 did all of it: userspace/{cp,mv,rm}.c.
FileToolsSound == part = "file tools" => FileTools!NothingLost /\ FileTools!ZeroMeansDone

\* What printf writes scanf reads back, also where the buffer cuts the text
\* off, and a number written by itoa or ultoa is the one that is read:
\* userspace/libc/stdio.c, stdlib.c.
FormatSound == part = "format" => Format!RoundTrip

\* getenv answers as a map of the changes would and no slot past the array is
\* written, also once the table has moved to the heap; a line is parsed into
\* the jobs it was written from, and every word the parser allocated has one
\* owner or is freed once: userspace/libc/stdlib.c, userspace/sh/parse.c.
CmdLineSound == part = "command line" => CmdLine!EnvIsMap /\ CmdLine!ParseFaithful


\* An object that passed the checks has the type its predefined name asks
\* for, and repairing it again changes nothing: nspredef.c, nsrepair2.c.
RepairSound == part = "repair" => Repair!CheckedConforms /\ Repair!RepairStable


=============================================================================
