-------------------------------- MODULE Fat --------------------------------
(***************************************************************************)
(* The fat32 module: the allocation table, the directories, the files held *)
(* open, and the three kinds of semaphore around them (fat_lock, one       *)
(* dir_lock per directory, one sem per open file).                         *)
(*                                                                         *)
(* A directory is known by its first cluster and is the sequence of the    *)
(* entries that were ever appended to it: a deleted entry keeps its slot   *)
(* (mark_deleted) and slots are never used again.  A file's size is        *)
(* counted in clusters.  A lock that is taken, used for reading and        *)
(* released at once is one step; writes to the table are one step each.    *)
(* Device errors, symbolic links and read-only calls are left out.         *)
(***************************************************************************)
EXTENDS Integers, FiniteSets, Sequences, SequencesExt

CONSTANTS
    FatThread,      \* threads inside the module
    NumClusters,    \* data clusters of the volume
    SlotsPer,       \* entries in one cluster of a directory
    Name,           \* names of one component, ordered numbers
    ParentPath,     \* paths of directories the calls may name
    FatOps,         \* the entry points that are called
    MaxCalls,       \* bound: calls made in a behaviour
    MaxIndex,       \* bound: the highest cluster index written to
    NoOne           \* the holder of a free lock

VARIABLES
    fat,        \* the table: Free, Eoc or the next cluster
    hint,       \* next_free_hint
    dir,        \* directory contents, by first cluster
    dirLock,    \* who holds each dir_lock
    fatLock,    \* who holds fat_lock
    openFiles,  \* open_files: shared state by <<directory, slot>>
    fatHandle,     \* the key of the file each thread holds open, or << >>
    frame,      \* each thread's call
    fatCalls    \* calls made so far

fatVars == <<fat, hint, dir, dirLock, fatLock, openFiles, fatHandle, frame, fatCalls>>

Root == 2
Cluster == Root .. (Root + NumClusters - 1)
Free == 0
Eoc == 1

File(n, first, size) == [name |-> n, kind |-> "file", first |-> first, size |-> size]
Directory(n, first) == [name |-> n, kind |-> "dir", first |-> first, size |-> 0]

\* Find the live entry called n, 0 when there is none.
Find(buf, n) ==
    LET hits == {i \in DOMAIN buf : buf[i].kind # "gone" /\ buf[i].name = n}
    IN  IF hits = {} THEN 0 ELSE CHOOSE i \in hits : \A j \in hits : i <= j

IsDir(buf, i) == i # 0 /\ buf[i].kind = "dir"

\* mark_deleted: the slot stays, its entry is gone.
MarkDeleted(buf, i) == [buf EXCEPT ![i].kind = "gone"]

\* read_fat_entry, n times: where the chain of cluster c is after n links.
Links(c) ==
    LET link[n \in 0..NumClusters] ==
            IF n = 0 THEN c
            ELSE IF link[n - 1] \in Cluster THEN fat[link[n - 1]] ELSE link[n - 1]
    IN  link

Chain(c) == {Links(c)[n] : n \in 0..NumClusters} \cap Cluster

\* The last cluster of a chain.
LastOf(c) == CHOOSE d \in Chain(c) : fat[d] \notin Cluster

\* alloc_cluster_raw: the first free cluster from the hint on, around the end.
FreeFrom(h) ==
    LET free == {c \in Cluster : fat[c] = Free}
        above == {c \in free : c >= h}
        among == IF above # {} THEN above ELSE free
    IN  IF free = {} THEN 0 ELSE CHOOSE c \in among : \A d \in among : c <= d

\* The table after write_fat_entry(c, EOC) and the hint after set_free_hint.
Claim(c) ==
    /\ fat' = [fat EXCEPT ![c] = Eoc]
    /\ hint' = c + 1

NoFrame == [pc |-> "idle", op |-> "none", from |-> << >>, to |-> << >>,
            todo |-> << >>, cur |-> Root, slot |-> 0, dirs |-> << >>,
            buf |-> << >>, src |-> 0, new |-> 0, grown |-> 0, goal |-> 0]

FatInit ==
    /\ fat = [c \in Cluster |-> IF c <= Root + 2 THEN Eoc ELSE Free]
    /\ hint = Root
    /\ dir = [c \in Cluster |->
                 IF c = Root THEN <<Directory(1, Root + 1)>>
                 ELSE IF c = Root + 1 THEN <<File(2, Root + 2, 1)>> ELSE << >>]
    /\ dirLock = [c \in Cluster |-> NoOne]
    /\ fatLock = NoOne
    /\ openFiles = << >>
    /\ fatHandle = [t \in FatThread |-> << >>]
    /\ frame = [t \in FatThread |-> NoFrame]
    /\ fatCalls = 0

FatGoto(t, pc) == frame' = [frame EXCEPT ![t].pc = pc]

\* The locks with every lock of thread t signalled but those in keep.
Signalled(t, keep) ==
    [c \in Cluster |-> IF dirLock[c] = t /\ c \notin keep THEN NoOne ELSE dirLock[c]]

\* Every return of a call that works on directories.
Return(t) ==
    /\ dirLock' = Signalled(t, {})
    /\ frame' = [frame EXCEPT ![t] = NoFrame]

-----------------------------------------------------------------------------
(* The calls, and the path each has to resolve.                            *)

IsOpen(d, i) == <<d, i>> \in DOMAIN openFiles

\* path_order_key: longer paths first, then the greater name.
Before(p, q) ==
    \/ Len(p) > Len(q)
    \/ /\ Len(p) = Len(q)
       /\ \E i \in DOMAIN p : p[i] > q[i] /\ \A j \in 1..(i - 1) : p[j] = q[j]

\* The directories a call locks for itself, in order; none for open and delete.
Wanted(f) ==
    LET p == Front(f.from) IN
    CASE f.op \in {"create", "mkdir"} -> <<p>>
      [] f.op = "rename" ->
            LET q == Front(f.to) IN
            IF p = q THEN <<p>> ELSE IF Before(p, q) THEN <<p, q>> ELSE <<q, p>>
      [] OTHER -> << >>

\* Start resolving a path: the root has no containing directory to lock.
Resolve(f, path) ==
    [f EXCEPT !.pc = IF path = << >> THEN "own" ELSE "walk",
              !.todo = path, !.cur = Root, !.slot = 0]

FatCall(t, op, from, to) ==
    /\ frame[t].pc = "idle" /\ fatCalls < MaxCalls
    /\ op = "open" => fatHandle[t] = << >>
    /\ fatCalls' = fatCalls + 1
    /\ LET f == [NoFrame EXCEPT !.op = op, !.from = from, !.to = to]
       IN  frame' = [frame EXCEPT ![t] =
               Resolve(f, IF Wanted(f) = << >> THEN from ELSE Wanted(f)[1])]
    /\ UNCHANGED <<fat, hint, dir, dirLock, fatLock, openFiles, fatHandle>>

\* Mutant: hold_lock is not honoured when a directory is looked for.
WalkUnheld(t) ==
    LET f == frame[t]
        i == Find(dir[f.cur], Head(f.todo))
        last == Len(f.todo) = 1
    IN
    /\ f.pc = "walk" /\ dirLock[f.cur] = NoOne
    /\ \/ /\ i = 0 \/ (~last /\ ~IsDir(dir[f.cur], i))
          /\ Return(t)
       \/ /\ ~last /\ IsDir(dir[f.cur], i)
          /\ frame' = [frame EXCEPT ![t].todo = Tail(@), ![t].cur = dir[f.cur][i].first]
          /\ UNCHANGED dirLock
       \/ /\ i # 0 /\ last
          /\ dirLock' = [dirLock EXCEPT ![f.cur] = IF Wanted(f) = << >> THEN t ELSE @]
          /\ frame' = [frame EXCEPT ![t].slot = i,
                           ![t].pc = IF Wanted(f) = << >> THEN f.op ELSE "own"]
    /\ UNCHANGED <<fat, hint, dir, fatLock, openFiles, fatHandle, fatCalls>>

\* One step of dir::resolve under the dir_lock of the current directory.
\* The lock is kept over the last one, for the caller.
Walk(t) ==
    LET f == frame[t]
        i == Find(dir[f.cur], Head(f.todo))
        last == Len(f.todo) = 1
    IN
    /\ f.pc = "walk" /\ dirLock[f.cur] = NoOne
    /\ \/ /\ i = 0 \/ (~last /\ ~IsDir(dir[f.cur], i))
          /\ Return(t)
       \/ /\ ~last /\ IsDir(dir[f.cur], i)
          /\ frame' = [frame EXCEPT ![t].todo = Tail(@), ![t].cur = dir[f.cur][i].first]
          /\ UNCHANGED dirLock
       \/ /\ i # 0 /\ last
          /\ dirLock' = [dirLock EXCEPT ![f.cur] = t]
          /\ frame' = [frame EXCEPT ![t].slot = i,
                           ![t].pc = IF Wanted(f) = << >> THEN f.op ELSE "own"]
    /\ UNCHANGED <<fat, hint, dir, fatLock, openFiles, fatHandle, fatCalls>>

\* The directory a frame has resolved and is about to lock.
OwnDir(f) == IF f.slot = 0 THEN Root ELSE dir[f.cur][f.slot].first

\* resolve_and_lock_dir after the resolve: the directory's own lock is taken
\* before the lock of the one that contains it is signalled.
LockOwn(t) ==
    LET f == frame[t]
        held == {f.dirs[i] : i \in DOMAIN f.dirs}
        dirs == Append(f.dirs, OwnDir(f))
    IN
    /\ f.pc = "own"
    /\ \/ /\ f.slot # 0 /\ ~IsDir(dir[f.cur], f.slot)
          /\ Return(t)
       \/ /\ f.slot = 0 \/ IsDir(dir[f.cur], f.slot)
          /\ dirLock[OwnDir(f)] = NoOne
          /\ dirLock' = [Signalled(t, held) EXCEPT ![OwnDir(f)] = t]
          /\ frame' = [frame EXCEPT ![t] =
                 IF Len(dirs) < Len(Wanted(f))
                 THEN [Resolve(f, Wanted(f)[2]) EXCEPT !.dirs = dirs]
                 ELSE [f EXCEPT !.pc = "check", !.dirs = dirs]]
    /\ UNCHANGED <<fat, hint, dir, fatLock, openFiles, fatHandle, fatCalls>>

-----------------------------------------------------------------------------
(* Creating and renaming.                                                  *)

Cross(f) == f.op = "rename" /\ Len(f.dirs) = 2
FromDir(f) == IF Cross(f) /\ Before(Front(f.to), Front(f.from)) THEN f.dirs[2] ELSE f.dirs[1]
ToDir(f) == IF Cross(f) /\ FromDir(f) = f.dirs[1] THEN f.dirs[2] ELSE f.dirs[1]
Leaf(f) == IF f.op = "rename" THEN Last(f.to) ELSE Last(f.from)

\* The checks under the locks: the source exists and is not open, the new
\* name is not taken (by another entry than the source).
Check(t) ==
    LET f == frame[t]
        to == dir[ToDir(f)]
        src == IF f.op = "rename" THEN Find(dir[FromDir(f)], Last(f.from)) ELSE 0
        taken == Find(to, Leaf(f))
    IN
    /\ f.pc = "check"
    /\ \/ /\ \/ f.op = "rename" /\ (src = 0 \/ IsOpen(FromDir(f), src))
             \/ taken # 0 /\ (Cross(f) \/ taken # src)
          /\ Return(t)
       \/ /\ f.op = "rename" => src # 0 /\ ~IsOpen(FromDir(f), src)
          /\ taken = 0 \/ (~Cross(f) /\ taken = src)
          /\ frame' = [frame EXCEPT ![t].pc = IF f.op = "mkdir" THEN "alloc" ELSE "append",
                 ![t].src = src,
                 ![t].buf = IF f.op = "rename" /\ ~Cross(f) THEN MarkDeleted(to, src) ELSE to]
          /\ UNCHANGED dirLock
    /\ UNCHANGED <<fat, hint, dir, fatLock, openFiles, fatHandle, fatCalls>>

\* fs_mkdir's alloc_cluster.
MkdirAlloc(t) ==
    LET c == FreeFrom(hint) IN
    /\ frame[t].pc = "alloc" /\ fatLock = NoOne
    /\ \/ c = 0 /\ Return(t) /\ UNCHANGED <<fat, hint>>
       \/ /\ c # 0 /\ Claim(c)
          /\ frame' = [frame EXCEPT ![t].pc = "newdir", ![t].new = c]
          /\ UNCHANGED dirLock
    /\ UNCHANGED <<dir, fatLock, openFiles, fatHandle, fatCalls>>

\* fs_mkdir's write of the new directory's dot entries: nothing else is in it.
MkdirWrite(t) ==
    /\ frame[t].pc = "newdir"
    /\ dir' = [dir EXCEPT ![frame[t].new] = << >>]
    /\ FatGoto(t, "append")
    /\ UNCHANGED <<fat, hint, dirLock, fatLock, openFiles, fatHandle, fatCalls>>

NewEntry(f) ==
    CASE f.op = "create" -> File(Leaf(f), 0, 0)
      [] f.op = "mkdir" -> Directory(Leaf(f), f.new)
      [] f.op = "rename" -> [dir[FromDir(f)][f.src] EXCEPT !.name = Leaf(f)]

\* How many clusters a call needs in the chain it works on.
Needs(f) == IF f.pc = "append" THEN (Len(f.buf) \div SlotsPer) + 1 ELSE f.goal + 1
Target(f) == IF f.pc \in {"append", "link"} THEN ToDir(f) ELSE f.new
Short(f) == Cardinality(Chain(Target(f))) < Needs(f)

\* grow_chain and cluster_at_index(extend) under fat_lock: claim a cluster ...
GrowClaim(t) ==
    LET c == FreeFrom(hint) IN
    /\ frame[t].pc \in {"append", "extend"} /\ Short(frame[t])
    /\ fatLock \in {NoOne, t} /\ c # 0
    /\ Claim(c)
    /\ fatLock' = t
    /\ frame' = [frame EXCEPT ![t].grown = c,
                     ![t].pc = IF @ = "append" THEN "link" ELSE "extlink"]
    /\ UNCHANGED <<dir, dirLock, openFiles, fatHandle, fatCalls>>

\* ... then link it behind the last cluster of the chain.  A write keeps the
\* lock until the chain reaches the cluster it goes to.
GrowLink(t) ==
    LET f == frame[t] IN
    /\ f.pc \in {"link", "extlink"}
    /\ fat' = [fat EXCEPT ![LastOf(Target(f))] = f.grown]
    /\ fatLock' = IF f.pc = "extlink" /\ Cardinality(Chain(f.new)) < f.goal
                  THEN t ELSE NoOne
    /\ FatGoto(t, IF f.pc = "link" THEN "append" ELSE "extend")
    /\ UNCHANGED <<hint, dir, dirLock, openFiles, fatHandle, fatCalls>>

\* append_entries: no room and no cluster left, or write the buffer back.
AppendEntry(t) ==
    LET f == frame[t] IN
    /\ f.pc = "append"
    /\ \/ /\ Short(f) /\ fatLock = NoOne /\ FreeFrom(hint) = 0
          /\ Return(t) /\ UNCHANGED dir
       \/ /\ ~Short(f)
          /\ dir' = [dir EXCEPT ![ToDir(f)] = Append(f.buf, NewEntry(f))]
          /\ IF Cross(f) THEN FatGoto(t, "unsource") /\ UNCHANGED dirLock
                         ELSE Return(t)
    /\ UNCHANGED <<fat, hint, fatLock, openFiles, fatHandle, fatCalls>>

\* fs_rename_cross_dir: the source is deleted after its copy is there.
RenameUnsource(t) ==
    LET f == frame[t] IN
    /\ f.pc = "unsource"
    /\ dir' = [dir EXCEPT ![FromDir(f)] = MarkDeleted(@, f.src)]
    /\ Return(t)
    /\ UNCHANGED <<fat, hint, fatLock, openFiles, fatHandle, fatCalls>>

-----------------------------------------------------------------------------
(* Deleting.                                                               *)

\* fs_delete: a directory's own lock is held while it is seen to be empty.
DeleteEmpty(t) ==
    LET f == frame[t]
        e == dir[f.cur][f.slot]
        live == {i \in DOMAIN dir[e.first] : dir[e.first][i].kind # "gone"}
    IN
    /\ f.pc = "delete" /\ e.kind = "dir" /\ dirLock[e.first] = NoOne
    /\ IF live # {} THEN Return(t) ELSE FatGoto(t, "unlink") /\ UNCHANGED dirLock
    /\ UNCHANGED <<fat, hint, dir, fatLock, openFiles, fatHandle, fatCalls>>

\* fs_delete: a file must not be open.
DeleteFile(t) ==
    LET f == frame[t] IN
    /\ f.pc = "delete" /\ dir[f.cur][f.slot].kind = "file"
    /\ IF IsOpen(f.cur, f.slot) THEN Return(t) ELSE FatGoto(t, "unlink") /\ UNCHANGED dirLock
    /\ UNCHANGED <<fat, hint, dir, fatLock, openFiles, fatHandle, fatCalls>>

\* fs_delete: mark the entry deleted and write the directory.
Unlink(t) ==
    LET f == frame[t]
        first == dir[f.cur][f.slot].first
    IN
    /\ f.pc = "unlink"
    /\ dir' = [dir EXCEPT ![f.cur] = MarkDeleted(@, f.slot)]
    /\ IF first = 0 THEN Return(t)
       ELSE /\ frame' = [frame EXCEPT ![t].pc = "freeing", ![t].new = first]
            /\ UNCHANGED dirLock
    /\ UNCHANGED <<fat, hint, fatLock, openFiles, fatHandle, fatCalls>>

\* free_chain: one cluster, read before it is freed, under fat_lock.
FreeOne(t) ==
    LET f == frame[t]
        next == fat[f.new]
    IN
    /\ f.pc = "freeing" /\ fatLock \in {NoOne, t}
    /\ fat' = [fat EXCEPT ![f.new] = Free]
    /\ IF next \in Cluster
       THEN /\ fatLock' = t
            /\ frame' = [frame EXCEPT ![t].new = next]
            /\ UNCHANGED dirLock
       ELSE fatLock' = NoOne /\ Return(t)
    /\ UNCHANGED <<hint, dir, openFiles, fatHandle, fatCalls>>

-----------------------------------------------------------------------------
(* Open files.                                                             *)

\* fs_open: the shared state is registered before the lock is signalled.
Open(t) ==
    LET f == frame[t]
        e == dir[f.cur][f.slot]
        k == <<f.cur, f.slot>>
        new == [first |-> e.first, size |-> e.size, refs |-> 1, sem |-> NoOne]
    IN
    /\ f.pc = "open"
    /\ IF e.kind = "file"
       THEN /\ openFiles' = IF k \in DOMAIN openFiles
                            THEN [openFiles EXCEPT ![k].refs = @ + 1]
                            ELSE [q \in DOMAIN openFiles \cup {k} |->
                                     IF q = k THEN new ELSE openFiles[q]]
            /\ fatHandle' = [fatHandle EXCEPT ![t] = k]
       ELSE UNCHANGED <<openFiles, fatHandle>>
    /\ Return(t)
    /\ UNCHANGED <<fat, hint, dir, fatLock, fatCalls>>

\* fs_close: the last handle takes the shared state with it.
FatClose(t) ==
    LET k == fatHandle[t] IN
    /\ frame[t].pc = "idle" /\ k # << >>
    /\ openFiles' = IF openFiles[k].refs = 1
                    THEN [q \in DOMAIN openFiles \ {k} |-> openFiles[q]]
                    ELSE [openFiles EXCEPT ![k].refs = @ - 1]
    /\ fatHandle' = [fatHandle EXCEPT ![t] = << >>]
    /\ UNCHANGED <<fat, hint, dir, dirLock, fatLock, frame, fatCalls>>

\* fs_write of the cluster with index g: everything under the file's sem.
WriteBegin(t, g) ==
    LET k == fatHandle[t] IN
    /\ frame[t].pc = "idle" /\ k # << >> /\ fatCalls < MaxCalls
    /\ openFiles[k].sem = NoOne
    /\ openFiles' = [openFiles EXCEPT ![k].sem = t]
    /\ frame' = [frame EXCEPT ![t] = [NoFrame EXCEPT !.op = "write", !.goal = g,
                     !.new = openFiles[k].first,
                     !.pc = IF openFiles[k].first = 0 THEN "wfirst" ELSE "extend"]]
    /\ fatCalls' = fatCalls + 1
    /\ UNCHANGED <<fat, hint, dir, dirLock, fatLock, fatHandle>>

\* write_file: the first cluster of an empty file.
WriteFirst(t) ==
    /\ frame[t].pc = "wfirst" /\ fatLock = NoOne /\ FreeFrom(hint) # 0
    /\ Claim(FreeFrom(hint))
    /\ frame' = [frame EXCEPT ![t].pc = "extend", ![t].new = FreeFrom(hint)]
    /\ UNCHANGED <<dir, dirLock, fatLock, openFiles, fatHandle, fatCalls>>

\* The volume is full: the write fails, with what it has claimed so far.
WriteNoSpace(t) ==
    LET f == frame[t] IN
    /\ f.pc = "wfirst" \/ (f.pc = "extend" /\ Short(f))
    /\ fatLock \in {NoOne, t} /\ FreeFrom(hint) = 0
    /\ fatLock' = NoOne
    /\ openFiles' = [openFiles EXCEPT ![fatHandle[t]].sem = NoOne]
    /\ frame' = [frame EXCEPT ![t] = NoFrame]
    /\ UNCHANGED <<fat, hint, dir, dirLock, fatHandle, fatCalls>>

Grown(f, shared) ==
    [shared EXCEPT !.first = f.new,
                   !.size = IF f.goal + 1 > @ THEN f.goal + 1 ELSE @]

\* The data is written: publish first cluster and size in the shared state.
WriteShared(t) ==
    LET f == frame[t]
        k == fatHandle[t]
        after == Grown(f, openFiles[k])
    IN
    /\ f.pc = "extend" /\ ~Short(f)
    /\ IF after = openFiles[k]
       THEN /\ openFiles' = [openFiles EXCEPT ![k].sem = NoOne]
            /\ frame' = [frame EXCEPT ![t] = NoFrame]
       ELSE /\ openFiles' = [openFiles EXCEPT ![k] = after]
            /\ FatGoto(t, "patch")
    /\ UNCHANGED <<fat, hint, dir, dirLock, fatLock, fatHandle, fatCalls>>

\* patch_dir_entry, under the lock of the directory the handle remembers.
WritePatch(t) ==
    LET k == fatHandle[t] IN
    /\ frame[t].pc = "patch" /\ dirLock[k[1]] = NoOne
    /\ dir' = [dir EXCEPT ![k[1]][k[2]].first = openFiles[k].first,
                          ![k[1]][k[2]].size = openFiles[k].size]
    /\ openFiles' = [openFiles EXCEPT ![k].sem = NoOne]
    /\ frame' = [frame EXCEPT ![t] = NoFrame]
    /\ UNCHANGED <<fat, hint, dirLock, fatLock, fatHandle, fatCalls>>

Paths == {Append(p, n) : p \in ParentPath, n \in Name}

FatNext ==
    \E t \in FatThread :
        \/ \E op \in FatOps \ {"rename", "write"}, p \in Paths : FatCall(t, op, p, << >>)
        \/ \E p, q \in Paths : "rename" \in FatOps /\ FatCall(t, "rename", p, q)
        \/ Walk(t) \/ LockOwn(t) \/ Check(t)
        \/ MkdirAlloc(t) \/ MkdirWrite(t)
        \/ GrowClaim(t) \/ GrowLink(t) \/ AppendEntry(t) \/ RenameUnsource(t)
        \/ DeleteEmpty(t) \/ DeleteFile(t) \/ Unlink(t) \/ FreeOne(t)
        \/ Open(t) \/ FatClose(t)
        \/ \E g \in 0..MaxIndex : "write" \in FatOps /\ WriteBegin(t, g)
        \/ WriteFirst(t) \/ WriteNoSpace(t) \/ WriteShared(t) \/ WritePatch(t)

-----------------------------------------------------------------------------
(* Properties.                                                             *)

Live == {<<c, i>> \in Cluster \X (1..(NumClusters * SlotsPer)) :
             i \in DOMAIN dir[c] /\ dir[c][i].kind # "gone"}
EntryAt(k) == dir[k[1]][k[2]]

\* The entry a cross-directory rename has copied and not yet deleted.
Moving == {<<FromDir(frame[t]), frame[t].src>> :
              t \in {u \in FatThread : frame[u].pc = "unsource"}}

\* At every write the module makes to the volume, whatever the threads are
\* doing: an entry lies in the root or in a directory that itself has an
\* entry (resolve_and_lock_dir closes "the gap where the parent directory
\* could otherwise be deleted", lib.rs:90); a directory has no two entries of
\* one name; every cluster that an entry leads to is claimed in the table;
\* and no cluster belongs to two entries, but for the entry that a rename
\* between directories has copied and is about to delete.
VolumeSound ==
    /\ \A k \in Live :
          /\ k[1] = Root \/ \E j \in Live : EntryAt(j).kind = "dir" /\ EntryAt(j).first = k[1]
          /\ Find(dir[k[1]], EntryAt(k).name) = k[2]
          /\ \A c \in Chain(EntryAt(k).first) : fat[c] # Free
    /\ \A j, k \in Live \ Moving :
          j # k => Chain(EntryAt(j).first) \cap Chain(EntryAt(k).first) = {}

\* The entry of an open file stays where the handles remember it, through
\* every delete and rename, and tells what the handles share unless a write
\* is at work on it (is_open under the directory's lock, lib.rs:535).
HandlesFindEntry ==
    \A k \in DOMAIN openFiles :
        /\ k \in Live /\ EntryAt(k).kind = "file"
        /\ openFiles[k].sem = NoOne =>
              EntryAt(k).first = openFiles[k].first /\ EntryAt(k).size = openFiles[k].size

=============================================================================
