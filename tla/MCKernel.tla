------------------------------ MODULE MCKernel ------------------------------
(***************************************************************************)
(* One instance of each part of the kernel and of the threads library in   *)
(* which threads interleave on shared structures: a pipe (Pipe), the       *)
(* requests of a driver (Irp), the fat32 module (Fat), and pthread         *)
(* (Pthread).  A behaviour belongs to one part; the others are idle.       *)
(***************************************************************************)
EXTENDS Pipe, Pthread, Fat, Irp

-----------------------------------------------------------------------------
(* The fat32 module with two threads on a small volume.                    *)

CONSTANTS f1, f2

\* The root and the directory in it.
TwoDirs == {<< >>, <<1>>}

VARIABLE part   \* the part that runs

----------------------------------------------------------------------------
(* One part at a time *)

\* Every writer has inherited the handle, and nobody calls.
IdlePipe == /\ stream = << >> /\ sent = 0 /\ taken = 0 /\ eof = FALSE /\ wasted = FALSE
            /\ readWaiter = NewEvent /\ writeWaiter = NewEvent
            /\ handle = [v \in Writer |-> "open"] /\ writerCount = Cardinality(Writer)
            /\ pc = [t \in Thread |-> "idle"] /\ len = [t \in Thread |-> 0]

IdleFat == fat = 0 /\ hint = 0 /\ dir = 0 /\ dirLock = 0 /\ fatLock = 0 /\ openFiles = 0
           /\ fatHandle = 0 /\ frame = 0 /\ fatCalls = 0

\* The objects are not yet initialised, and no thread has started.
IdlePthread == /\ mutex = [fd |-> NoFd, init |-> FALSE]
               /\ cond = [sem |-> NoFd, wlock |-> NoFd, waiters |-> 0, init |-> FALSE]
               /\ sema = << >> /\ at = [t \in PThread |-> "absent"]
               /\ locals = [t \in PThread |-> NoLocals] /\ used = [t \in PThread |-> 0] /\ unposted = 0

KernelInit ==
    /\ part \in {"pipe", "irp", "fat", "pthread"}
    /\ IF part = "pipe" THEN Init ELSE IdlePipe
    /\ IrpInit                              \* no request yet, where another part runs
    /\ IF part = "fat" THEN FatInit ELSE IdleFat
    /\ IF part = "pthread" THEN PthreadInit ELSE IdlePthread

OthersIdle ==
    /\ UNCHANGED part
    /\ IF part = "pipe" THEN TRUE ELSE UNCHANGED vars
    /\ IF part = "irp" THEN TRUE ELSE UNCHANGED irpVars
    /\ IF part = "fat" THEN TRUE ELSE UNCHANGED fatVars
    /\ IF part = "pthread" THEN TRUE ELSE UNCHANGED pthreadVars

KernelNext ==
    \/ part = "pipe" /\ Next /\ OthersIdle
    \/ part = "irp" /\ IrpNext /\ FewAtOnce /\ OthersIdle
    \/ part = "fat" /\ FatNext /\ OthersIdle
    \/ part = "pthread" /\ PthreadNext /\ OthersIdle

kernelVars == <<part, vars, irpVars, fatVars, pthreadVars>>

KernelSpec == KernelInit /\ [][KernelNext]_kernelVars

----------------------------------------------------------------------------
(* Properties *)

(* The fat32 volume is sound after every single write, and the entry of an *)
(* open file stays where its handles look for it, with two threads inside  *)
(* the module (modules/fat32).                                             *)
FatSound == part = "fat" => VolumeSound /\ HandlesFindEntry
=============================================================================
