------------------------------ MODULE AcpiWalk ------------------------------
(***************************************************************************)
(* Walks over the ACPI namespace: AcpiNsWalkNamespace (nswalk.c) and the   *)
(* callers that pass it a callback: AcpiWalkNamespace and AcpiGetDevices   *)
(* (nsxfeval.c), AcpiNsInitializeObjects and AcpiNsInitializeDevices       *)
(* (nsinit.c); and the handles of neighbours of nsxfobj.c.                 *)
(*                                                                         *)
(* The walk holds the namespace mutex except around a callback; in that    *)
(* time tables are loaded and unloaded and methods create and delete their *)
(* temporary nodes.                                                        *)
(***************************************************************************)
EXTENDS Integers, Sequences, FiniteSets, SequencesExt

CONSTANTS Root,     \* the root of the namespace, 0
          NoNode,   \* a null pointer
          Answers   \* what a caller's callback may return

VARIABLES nodes,    \* [parent, type, name, temp, owner, live, sta, id, valid, hasIni]; peers in order
          job,      \* who walks: "walk", "get", "get_all", "objects", "find", "init", "list"
          walk,     \* the locals of AcpiNsWalkNamespace
          reader,   \* the walk holds the namespace reader lock
          log       \* the callbacks made, and the _INI methods run

vars == <<nodes, job, walk, reader, log>>

Devices == {"DEVICE", "PROCESSOR", "THERMAL"}

\* nodes[0] is not stored: the root has no parent.
Parent(n) == IF n = Root THEN NoNode ELSE nodes[n].parent

Children(parent) == SelectSeq([i \in DOMAIN nodes |-> i], LAMBDA i : nodes[i].live /\ nodes[i].parent = parent)

\* AcpiNsGetNextNode: the first child, or the peer after a child.
NsGetNextNode(parent, child) ==
   LET all == IF child = NoNode THEN Children(parent)
              ELSE SelectSeq(Children(nodes[child].parent), LAMBDA i : i > child)
   IN IF all = <<>> THEN NoNode ELSE all[1]

RECURSIVE NsGetNextNodeTyped(_, _, _)
NsGetNextNodeTyped(type, parent, child) ==
   LET next == NsGetNextNode(parent, child)
   IN IF next = NoNode \/ type = "ANY" \/ nodes[next].type = type THEN next
      ELSE NsGetNextNodeTyped(type, parent, next)

AcpiGetParent(n) == [st |-> IF Parent(n) = NoNode THEN "NULL_ENTRY" ELSE "OK", node |-> Parent(n)]

AcpiGetType(n) == IF n = Root THEN "ANY" ELSE nodes[n].type

AcpiGetNextObject(type, parent, child) ==
   LET next == NsGetNextNodeTyped(type, parent, child)
   IN [st |-> IF next = NoNode THEN "NOT_FOUND" ELSE "OK", node |-> next]

----------------------------------------------------------------------------
(* nswalk.c *)

Idle == [pc |-> "idle", type |-> "ANY", start |-> Root, depth |-> 0, unlock |-> FALSE, down |-> TRUE, up |-> FALSE,
         level |-> 0, parent |-> Root, child |-> NoNode, seen |-> FALSE, st |-> "OK"]

\* The beginning of AcpiNsWalkNamespace.
StartWalk(type, start, depth, unlock, up) ==
   [pc |-> "loop", type |-> type, start |-> start, depth |-> depth, unlock |-> unlock, down |-> TRUE, up |-> up,
    level |-> 1, parent |-> start, child |-> NsGetNextNode(start, NoNode), seen |-> FALSE, st |-> "OK"]

\* After a node: down to its first child, a second time for the way up, on to
\* the next peer, or back to the parent.
Advance(w, st) ==
   LET peer == NsGetNextNode(w.parent, w.child)
   IN IF ~ w.seen /\ w.level < w.depth /\ st # "CTRL_DEPTH" /\ Children(w.child) # <<>>
      THEN [w EXCEPT !.pc = "loop", !.level = @ + 1, !.parent = w.child, !.child = NsGetNextNode(w.child, NoNode)]
      ELSE IF ~ w.seen THEN [w EXCEPT !.pc = "loop", !.seen = TRUE]
      ELSE IF peer # NoNode THEN [w EXCEPT !.pc = "loop", !.child = peer, !.seen = FALSE]
      ELSE [w EXCEPT !.pc = "loop", !.level = @ - 1, !.child = w.parent, !.parent = Parent(w.parent), !.seen = TRUE]

\* The head of the loop: temporary nodes and what is below them are passed over;
\* a node of the type asked for is given to the callback of the direction.
Loop(w) ==
   IF w.level = 0 \/ w.child = NoNode THEN [w EXCEPT !.pc = "done"]
   ELSE IF nodes[w.child].temp THEN Advance(w, "CTRL_DEPTH")
   ELSE IF (w.type = "ANY" \/ nodes[w.child].type = w.type) /\ (IF w.seen THEN w.up ELSE w.down)
        THEN [w EXCEPT !.pc = "callback"]
   ELSE Advance(w, "OK")

\* What the callback's answer does to the walk.
Answered(w, st) ==
   CASE st \in {"OK", "CTRL_DEPTH"} -> Advance(w, st)
     [] st = "CTRL_TERMINATE" -> [w EXCEPT !.pc = "done"]
     [] OTHER -> [w EXCEPT !.pc = "done", !.st = st]

WalkStep == walk.pc = "loop" /\ walk' = Loop(walk) /\ UNCHANGED <<nodes, job, reader, log>>

Entry(st) == [node |-> walk.child, up |-> walk.seen, st |-> st, level |-> walk.level, parent |-> AcpiGetParent(walk.child).node]

----------------------------------------------------------------------------
(* nsxfeval.c *)

\* Mutant: the reader lock is not taken.
WalkUnguarded(type, start, depth, up) ==
   /\ job = "none" /\ depth > 0
   /\ job' = "walk" /\ walk' = StartWalk(type, start, depth, TRUE, up)
   /\ reader' = FALSE
   /\ UNCHANGED <<nodes, log>>

AcpiWalkNamespace(type, start, depth, up) ==
   /\ job = "none" /\ depth > 0
   /\ job' = "walk" /\ walk' = StartWalk(type, start, depth, TRUE, up)
   /\ reader' = TRUE
   /\ UNCHANGED <<nodes, log>>

\* AcpiGetDevices takes the mutex only; the kernel also asks for every device.
AcpiGetDevices(kind) ==
   /\ job = "none" /\ kind \in {"get", "get_all"}
   /\ job' = kind /\ walk' = StartWalk("DEVICE", Root, Len(nodes) + 1, TRUE, FALSE)
   /\ UNCHANGED <<nodes, reader, log>>

UserCallback(st) ==
   /\ job = "walk" /\ walk.pc = "callback"
   /\ walk' = Answered(walk, st)
   /\ log' = Append(log, Entry(st))
   /\ UNCHANGED <<nodes, job, reader>>

\* AcpiUtExecute_STA: [st, present, functioning]; a device without _STA is both.
UtExecute_STA(n) ==
   LET sta == nodes[n].sta
   IN [st |-> IF sta = "fails" THEN "ERROR" ELSE "OK", present |-> sta \in {"none", "present"},
       functioning |-> sta \in {"none", "present", "functioning"}]

\* AcpiNsGetDeviceCallback: [st, call], call when the user's function is reached.
NsGetDeviceCallback(n) ==
   LET id == nodes[n].id
       sta == UtExecute_STA(n)
   IN IF job = "get" /\ id \in {"none", "other"} THEN [st |-> "OK", call |-> FALSE]
      ELSE IF job = "get" /\ id = "fails" THEN [st |-> "CTRL_DEPTH", call |-> FALSE]
      ELSE IF sta.st # "OK" \/ (~ sta.present /\ ~ sta.functioning) THEN [st |-> "CTRL_DEPTH", call |-> FALSE]
      ELSE [st |-> "OK", call |-> TRUE]

DeviceCallback(st) ==
   /\ job \in {"get", "get_all"} /\ walk.pc = "callback"
   /\ LET c == NsGetDeviceCallback(walk.child)
          answer == IF c.call THEN st ELSE c.st
      IN /\ walk' = Answered(walk, answer)
         /\ log' = IF c.call THEN Append(log, Entry(answer)) ELSE log
   /\ UNCHANGED <<nodes, job, reader>>

----------------------------------------------------------------------------
(* nsinit.c *)

AcpiNsInitializeObjects ==
   /\ job = "none"
   /\ job' = "objects" /\ walk' = StartWalk("ANY", Root, Len(nodes) + 1, TRUE, FALSE)
   /\ reader' = TRUE
   /\ UNCHANGED <<nodes, log>>

\* AcpiNsInitOneObject: a package or bank field not yet initialised is; an error is
\* printed and the walk goes on.
NsInitOneObject ==
   /\ job = "objects" /\ walk.pc = "callback"
   /\ walk' = Answered(walk, "OK")
   /\ nodes' = IF nodes[walk.child].type \in {"PACKAGE", "BANK_FIELD"} /\ ~ nodes[walk.child].valid
               THEN [nodes EXCEPT ![walk.child].valid = TRUE] ELSE nodes
   /\ log' = Append(log, Entry("OK"))
   /\ UNCHANGED <<job, reader>>

\* AcpiNsInitializeDevices: the walk that marks the subtrees with an _INI.
AcpiNsInitializeDevices ==
   /\ job = "none"
   /\ job' = "find" /\ walk' = StartWalk("ANY", Root, Len(nodes) + 1, FALSE, FALSE)
   /\ UNCHANGED <<nodes, reader, log>>

RECURSIVE Ancestors(_)
Ancestors(n) == IF n = Root THEN {Root} ELSE {n} \cup Ancestors(nodes[n].parent)

NsFindIniMethods ==
   /\ job = "find" /\ walk.pc = "callback"
   /\ walk' = Answered(walk, "OK")
   /\ nodes' = IF nodes[walk.child].name = "_INI" /\ AcpiGetType(nodes[walk.child].parent) \in Devices
               THEN [i \in DOMAIN nodes |-> [nodes[i] EXCEPT !.hasIni = @ \/ i \in Ancestors(nodes[walk.child].parent)]]
               ELSE nodes
   /\ UNCHANGED <<job, reader, log>>

\* AcpiNsEvaluate of _INI: the devices whose _INI ran, in order.
HasIni(n) == \E i \in DOMAIN nodes : nodes[i].live /\ nodes[i].parent = n /\ nodes[i].name = "_INI"
RunIni(n) == IF HasIni(n) THEN <<n>> ELSE <<>>
SystemBus == {i \in DOMAIN nodes : nodes[i].parent = Root /\ nodes[i].name = "_SB_"}

\* Between the walks: the _INI of the root and of \_SB.
RunRootIni ==
   /\ job = "find" /\ walk.pc = "done"
   /\ job' = "init" /\ walk' = StartWalk("ANY", Root, Len(nodes) + 1, FALSE, FALSE)
   /\ log' = RunIni(Root) \o FlattenSeq([i \in 1..Cardinality(SystemBus) |-> RunIni(CHOOSE n \in SystemBus : TRUE)])
   /\ UNCHANGED <<nodes, reader>>

\* AcpiNsInitOneDevice: [st, run].
InitOneDevice(n) ==
   LET sta == UtExecute_STA(n)
   IN IF nodes[n].type \notin Devices THEN [st |-> "OK", run |-> FALSE]
      ELSE IF ~ nodes[n].hasIni THEN [st |-> "CTRL_DEPTH", run |-> FALSE]
      ELSE IF sta.st # "OK" THEN [st |-> "OK", run |-> FALSE]
      ELSE IF ~ sta.present THEN [st |-> IF sta.functioning THEN "OK" ELSE "CTRL_DEPTH", run |-> FALSE]
      ELSE [st |-> "OK", run |-> n \notin SystemBus]

NsInitOneDevice ==
   /\ job = "init" /\ walk.pc = "callback"
   /\ LET d == InitOneDevice(walk.child)
      IN walk' = Answered(walk, d.st) /\ log' = IF d.run THEN log \o RunIni(walk.child) ELSE log
   /\ UNCHANGED <<nodes, job, reader>>

\* A walk ends: AcpiWalkNamespace releases the reader lock.
Finish ==
   /\ walk.pc = "done" /\ job # "find"
   /\ walk' = [walk EXCEPT !.pc = "idle"] /\ reader' = FALSE
   /\ UNCHANGED <<nodes, job, log>>

\* A caller that lists the children of the root with AcpiGetNextObject.
ListNext(type) ==
   /\ job = "none" \/ (job = "list" /\ walk.pc = "list" /\ walk.type = type)
   /\ LET next == AcpiGetNextObject(type, Root, walk.child)
      IN /\ walk' = [Idle EXCEPT !.pc = IF next.st = "OK" THEN "list" ELSE "idle", !.type = type, !.child = next.node]
         /\ log' = IF next.st = "OK" THEN Append(log, [node |-> next.node, up |-> FALSE, st |-> "OK", level |-> 1, parent |-> Root]) ELSE log
   /\ job' = "list"
   /\ UNCHANGED <<nodes, reader>>

----------------------------------------------------------------------------
(* Others, while the mutex is free *)

MutexFree == walk.pc \in {"idle", "callback"} /\ (walk.pc = "callback" => walk.unlock)

New(parent, temp, owner) ==
   [parent |-> parent, type |-> "DEVICE", name |-> "NEW_", temp |-> temp, owner |-> owner, live |-> TRUE,
    sta |-> "none", id |-> "match", valid |-> FALSE, hasIni |-> FALSE]

Live == {i \in DOMAIN nodes : nodes[i].live}

\* AcpiNsInstallNode puts a node behind the last peer.
LoadNode(parent) ==
   /\ MutexFree
   /\ nodes' = Append(nodes, New(parent, FALSE, 2))
   /\ UNCHANGED <<job, walk, reader, log>>

MethodNode(parent) ==
   /\ MutexFree
   /\ nodes' = Append(nodes, New(parent, TRUE, 3))
   /\ UNCHANGED <<job, walk, reader, log>>

Without(owner) == [i \in DOMAIN nodes |-> [nodes[i] EXCEPT !.live = @ /\ \A a \in Ancestors(i) \ {Root} : nodes[a].owner # owner]]

\* A method ends: AcpiNsDeleteNamespaceByOwner of its temporary nodes.
MethodEnds == MutexFree /\ nodes' = Without(3) /\ UNCHANGED <<job, walk, reader, log>>

\* A table is unloaded under the writer lock.
Unload == MutexFree /\ ~ reader /\ nodes' = Without(2) /\ UNCHANGED <<job, walk, reader, log>>

-----------------------------------------------------------------------------
(***************************************************************************)
(* AcpiWalk over every small tree: one walk of each kind, with a table     *)
(* that is loaded and unloaded and a method that runs beside it.           *)
(***************************************************************************)

CONSTANT MaxNodes   \* nodes of the tree, those added beside the walk included

VARIABLE before      \* the tree when the walk began

mcvars == <<nodes, job, walk, reader, log, before>>

Node(parent, type, name, sta, id, owner) ==
   [parent |-> parent, type |-> type, name |-> name, temp |-> FALSE, owner |-> owner, live |-> TRUE,
    sta |-> sta, id |-> id, valid |-> FALSE, hasIni |-> FALSE]

\* What a node of the tree may be: for the walks of the devices with their _STA and
\* _INI, and for the others with an identifier and a table of their own.
InitKinds == {<<"DEVICE", "DEV_", "present", "none", 1>>, <<"DEVICE", "DEV_", "absent", "none", 1>>,
              <<"DEVICE", "DEV_", "functioning", "none", 1>>, <<"THERMAL", "THM_", "fails", "none", 1>>,
              <<"SCOPE", "SCP_", "none", "none", 1>>, <<"METHOD", "_INI", "none", "none", 1>>}
WalkKinds == {<<"DEVICE", "DEV_", "none", "match", 1>>, <<"DEVICE", "DEV_", "absent", "match", 2>>,
              <<"PACKAGE", "PKG_", "none", "none", 1>>}
Trees(kinds, first, max) ==
   UNION {{first \o [i \in 1..(n - Len(first)) |-> LET k == f[i] IN Node(p[i], k[1], k[2], k[3], k[4], k[5])] :
             f \in [1..(n - Len(first)) -> kinds],
             p \in {q \in [1..(n - Len(first)) -> 0..(n - 1)] : \A i \in DOMAIN q : q[i] < i + Len(first)}} : n \in Len(first)..max}

Bus == <<Node(Root, "DEVICE", "_SB_", "none", "none", 1)>>
Legal(t) == \A i \in DOMAIN t : t[i].parent # Root => t[t[i].parent].name # "_INI"

Init ==
   /\ nodes = <<>> /\ before = <<>>
   /\ job = "choose" /\ walk = Idle /\ reader = FALSE /\ log = <<>>

Choose ==
   /\ job = "choose"
   /\ \E kind \in {"init", "walk"} :
        /\ nodes' \in {t \in (IF kind = "init" THEN Trees(InitKinds, Bus, MaxNodes + 1) ELSE Trees(WalkKinds, <<>>, MaxNodes)) : Legal(t)}
        /\ before' = nodes'
   /\ job' = "none"
   /\ UNCHANGED <<walk, reader, log>>

Permanent == {i \in Live : ~ nodes[i].temp}

Beside ==
   \/ Len(nodes) < MaxNodes /\ \E parent \in Permanent \cup {Root} : LoadNode(parent)
   \/ Len(nodes) < MaxNodes /\ \E parent \in Live \cup {Root} : MethodNode(parent)
   \/ MethodEnds
   \/ Unload

IsInit == nodes # <<>> /\ nodes[1].name = "_SB_"

Next ==
   \/ Choose
   \/ /\ ~ IsInit /\ job # "choose"
      /\ \/ \E type \in {"ANY", "DEVICE"}, start \in {Root} \cup (Permanent \cap {1}), depth \in {1, 9}, up \in BOOLEAN :
               /\ (depth = 1 \/ up) => (start = Root /\ type = "ANY")
               /\ before' = nodes /\ AcpiWalkNamespace(type, start, depth, up)
         \/ \E kind \in {"get", "get_all"} : AcpiGetDevices(kind) /\ before' = nodes
         \/ AcpiNsInitializeObjects /\ before' = nodes
         \/ \E type \in {"ANY", "DEVICE"} : ListNext(type) /\ UNCHANGED before
   \/ IsInit /\ job # "choose" /\ (AcpiNsInitializeDevices \/ RunRootIni \/ NsFindIniMethods \/ NsInitOneDevice) /\ UNCHANGED before
   \/ UNCHANGED before /\ (WalkStep \/ Finish \/ NsInitOneObject)
   \/ UNCHANGED before /\ (\E st \in Answers : UserCallback(st))
   \/ UNCHANGED before /\ DeviceCallback("OK")
   \/ UNCHANGED before /\ walk.pc = "callback" /\ job = "walk" /\ ~ walk.up /\ Beside

Spec == Init /\ [][Next]_mcvars
----------------------------------------------------------------------------
(* A walk under the reader lock never stands on a node that was deleted:   *)
(* neither the node given to a callback nor its parent is gone when the    *)
(* mutex is taken back, though methods end and tables are unloaded in the  *)
(* meantime.                                                               *)
StandsOnLiveNodes ==
   walk.pc \in {"loop", "callback"} =>
      \A n \in {walk.child, walk.parent} \ {NoNode, Root} : nodes[n].live

Depth(n, start) == Cardinality(Ancestors(n) \ Ancestors(start))
Calls(n, up) == {k \in DOMAIN log : log[k].node = n /\ log[k].up = up}
Skipped(n) == \E k \in DOMAIN log : log[k].st = "CTRL_DEPTH" /\ ~ log[k].up /\ log[k].node \in Ancestors(n) \ {n}
Stopped == \E k \in DOMAIN log : log[k].st \notin {"OK", "CTRL_DEPTH"}

(* A walk that is not stopped gives every node that was there from its     *)
(* beginning to its end to the callback exactly once on the way down, and  *)
(* once on the way up when that is asked for, after its parent and before  *)
(* it respectively, with the level it has; it gives none that is of        *)
(* another type, too deep, or below a node the callback refused to enter.  *)
(* AcpiGetNextObject lists the children of a node likewise.                *)
WalkComplete ==
   /\ job = "list" /\ walk.pc = "idle" =>
         [k \in DOMAIN log |-> log[k].node] = SelectSeq(Children(Root), LAMBDA i : walk.type \in {"ANY", nodes[i].type})
   /\ job \in {"walk", "objects"} /\ walk.pc \in {"done", "idle"} /\ walk.st = "OK" /\ ~ Stopped =>
         \A n \in DOMAIN before : nodes[n].live /\ ~ nodes[n].temp =>
            LET due == /\ walk.start \in Ancestors(n) \ {n} \/ (walk.start = Root)
                       /\ walk.type \in {"ANY", nodes[n].type}
                       /\ Depth(n, walk.start) <= walk.depth
                       /\ ~ Skipped(n)
                       /\ \A a \in Ancestors(n) \ {Root} : ~ nodes[a].temp
            IN /\ Cardinality(Calls(n, FALSE)) = (IF due THEN 1 ELSE 0)
               /\ Cardinality(Calls(n, TRUE)) = (IF due /\ walk.up THEN 1 ELSE 0)
               /\ \A k \in Calls(n, FALSE) : log[k].level = Depth(n, walk.start) /\ log[k].parent = nodes[n].parent
               /\ \A k \in Calls(n, FALSE), p \in Ancestors(n) \ {n} : \A j \in Calls(p, FALSE) : j < k
               /\ \A k \in Calls(n, TRUE), p \in Ancestors(n) \ {n} : \A j \in Calls(p, TRUE) : j > k

DevicesAbove(n) == {a \in Ancestors(n) \ {n, Root} : nodes[a].type \in Devices}

(* After AcpiNsInitializeDevices the _INI of a device has run exactly once *)
(* if the device is present and no device above it is both absent and not  *)
(* functioning, and not at all otherwise, parents before their children;   *)
(* passing over the subtrees without an _INI loses none.  The _INI of \_SB *)
(* and of the root run first.                                              *)
IniRunsInOrder ==
   job = "init" /\ walk.pc \in {"done", "idle"} =>
      /\ \A n \in DOMAIN nodes : nodes[n].type \in Devices /\ HasIni(n) =>
            LET due == nodes[n].sta \in {"none", "present"} /\ \A a \in DevicesAbove(n) : nodes[a].sta # "absent"
            IN Cardinality({k \in DOMAIN log : log[k] = n}) = (IF due THEN 1 ELSE 0)
      /\ \A j, k \in DOMAIN log : log[j] \in Ancestors(log[k]) \ {log[k]} => j < k
=============================================================================
