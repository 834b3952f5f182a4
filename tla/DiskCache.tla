----------------------------- MODULE DiskCache -----------------------------
(***************************************************************************)
(* The disk driver's write-back cache of sectors: do_io, cache_lookup,     *)
(* cache_put, cache_fill_no_evict, flush_all_dirty and the busy flag of    *)
(* the administrative operations.  The driver's lock is released around    *)
(* every transfer to the device, so a transfer is a step of its own.       *)
(* Requests are of one sector, and the device does what it is told.        *)
(***************************************************************************)
EXTENDS Integers, FiniteSets

CONSTANTS
    Requester,      \* threads that send requests
    Lba,            \* sectors
    CacheSize,      \* MAX_CACHE_BLOCKS
    DiskOps,        \* the requests that are sent
    MaxRequests,    \* bound: requests sent in a behaviour
    Junk            \* what a dead buffer may hold

VARIABLES
    blocks,     \* cache: [data, dirty, seq] by sector
    clock,      \* cache_clock
    medium,     \* what the device holds
    posted,     \* writes sent without waiting for them: <<sector, data>>
    admin,      \* busy
    io,         \* each thread's request
    sent,       \* requests sent so far: the next data
    latest      \* the data last written to each sector

diskVars == <<blocks, clock, medium, posted, admin, io, sent, latest>>

Quiet == [pc |-> "quiet", lba |-> 0, data |-> 0, victim |-> 0, todo |-> {}]

DiskInit ==
    /\ blocks = << >> /\ clock = 0
    /\ medium = [l \in Lba |-> 0] /\ latest = medium
    /\ posted = {} /\ admin = FALSE
    /\ io = [t \in Requester |-> Quiet]
    /\ sent = 0

Cached == DOMAIN blocks
Without(b, l) == [m \in DOMAIN b \ {l} |-> b[m]]
Insert(b, l, data, dirty) ==
    [m \in DOMAIN b \cup {l} |->
        IF m = l THEN [data |-> data, dirty |-> dirty, seq |-> clock + 1] ELSE b[m]]

\* The block used longest ago.
Victim == CHOOSE l \in Cached : \A m \in Cached : blocks[l].seq <= blocks[m].seq

\* A full cache has to give up a block before this sector goes in.
Full(l) == l \notin Cached /\ Cardinality(Cached) >= CacheSize

At(t, pc) == io[t].pc = pc
Done(t) == io' = [io EXCEPT ![t] = Quiet]

\* do_io's check of the busy flag; the data of a write is the request's number.
Send(t, op, l) ==
    /\ At(t, "quiet") /\ sent < MaxRequests /\ ~admin
    /\ sent' = sent + 1
    /\ io' = [io EXCEPT ![t] = [Quiet EXCEPT !.pc = op, !.lba = l, !.data = sent + 1]]
    /\ UNCHANGED <<blocks, clock, medium, posted, admin, latest>>

\* cache_put, when the block need not wait for a dirty victim.
Put(t) ==
    LET l == io[t].lba IN
    /\ At(t, "write")
    /\ Full(l) => ~blocks[Victim].dirty
    /\ blocks' = Insert(IF Full(l) THEN Without(blocks, Victim) ELSE blocks, l, io[t].data, TRUE)
    /\ clock' = clock + 1
    /\ latest' = [latest EXCEPT ![l] = io[t].data]
    /\ Done(t)
    /\ UNCHANGED <<medium, posted, admin, sent>>

\* cache_put: the victim's data is copied and the lock released ...
PutEvict(t) ==
    /\ At(t, "write") /\ Full(io[t].lba) /\ blocks[Victim].dirty
    /\ io' = [io EXCEPT ![t].pc = "evict", ![t].victim = Victim,
                        ![t].todo = {<<Victim, blocks[Victim].data>>}]
    /\ UNCHANGED <<blocks, clock, medium, posted, admin, sent, latest>>

\* ... the copy is written to the device ...
PutWriteBack(t) ==
    /\ At(t, "evict")
    /\ \E w \in io[t].todo : medium' = [medium EXCEPT ![w[1]] = w[2]]
    /\ io' = [io EXCEPT ![t].pc = "replace", ![t].todo = {}]
    /\ UNCHANGED <<blocks, clock, posted, admin, sent, latest>>

\* ... and the victim is removed, whatever it has become since.
PutReplace(t) ==
    LET l == io[t].lba IN
    /\ At(t, "replace")
    /\ blocks' = Insert(Without(blocks, io[t].victim), l, io[t].data, TRUE)
    /\ clock' = clock + 1
    /\ latest' = [latest EXCEPT ![l] = io[t].data]
    /\ Done(t)
    /\ UNCHANGED <<medium, posted, admin, sent>>

\* do_io of a read: served from the cache, or sent on to the device.
Lookup(t) ==
    LET l == io[t].lba IN
    /\ At(t, "read")
    /\ IF l \in Cached
       THEN /\ blocks' = [blocks EXCEPT ![l].seq = clock + 1]
            /\ clock' = clock + 1
            /\ Done(t)
       ELSE /\ io' = [io EXCEPT ![t].pc = "transfer"]
            /\ UNCHANGED <<blocks, clock>>
    /\ UNCHANGED <<medium, posted, admin, sent, latest>>

\* The device fills the request's buffer.
Transfer(t) ==
    /\ At(t, "transfer")
    /\ io' = [io EXCEPT ![t].pc = "fill", ![t].data = medium[io[t].lba]]
    /\ UNCHANGED <<blocks, clock, medium, posted, admin, sent, latest>>

\* cache_fill_no_evict: a dirty block stays; a dirty victim is written
\* without waiting, from a buffer that does not outlive the call.
Fill(t) ==
    LET l == io[t].lba
        out == Full(l) /\ blocks[Victim].dirty
    IN
    /\ At(t, "fill")
    /\ IF l \in Cached /\ blocks[l].dirty
       THEN UNCHANGED <<blocks, clock, posted>>
       ELSE /\ blocks' = Insert(IF Full(l) THEN Without(blocks, Victim) ELSE blocks,
                                l, io[t].data, FALSE)
            /\ clock' = clock + 1
            /\ posted' = IF out THEN posted \cup {<<Victim, blocks[Victim].data>>} ELSE posted
    /\ Done(t)
    /\ UNCHANGED <<medium, admin, sent, latest>>

\* The device reads the buffer of such a write, as it is by now.
PostedArrives ==
    \E w \in posted :
        /\ \E v \in {w[2], Junk} : medium' = [medium EXCEPT ![w[1]] = v]
        /\ posted' = posted \ {w}
        /\ UNCHANGED <<blocks, clock, admin, io, sent, latest>>

\* do_stop: enter busy; flush_all_dirty copies what is dirty ...
Stop(t) ==
    /\ At(t, "quiet") /\ sent < MaxRequests /\ ~admin
    /\ sent' = sent + 1
    /\ admin' = TRUE
    /\ io' = [io EXCEPT ![t] = [Quiet EXCEPT !.pc = "flush",
                  !.todo = {<<l, blocks[l].data>> : l \in {m \in Cached : blocks[m].dirty}}]]
    /\ UNCHANGED <<blocks, clock, medium, posted, latest>>

\* ... writes the copies one by one ...
FlushWrite(t) ==
    /\ At(t, "flush")
    /\ \E w \in io[t].todo :
          /\ medium' = [medium EXCEPT ![w[1]] = w[2]]
          /\ io' = [io EXCEPT ![t].pc = "clean", ![t].victim = w[1], ![t].todo = @ \ {w}]
    /\ UNCHANGED <<blocks, clock, posted, admin, sent, latest>>

\* ... marks each block clean after its copy is written, and leaves busy.
FlushClean(t) ==
    /\ At(t, "clean")
    /\ blocks' = IF io[t].victim \in Cached
                 THEN [blocks EXCEPT ![io[t].victim].dirty = FALSE] ELSE blocks
    /\ io' = [io EXCEPT ![t].pc = "flush"]
    /\ UNCHANGED <<clock, medium, posted, admin, sent, latest>>

StopEnd(t) ==
    /\ At(t, "flush") /\ io[t].todo = {}
    /\ admin' = FALSE
    /\ Done(t)
    /\ UNCHANGED <<blocks, clock, medium, posted, sent, latest>>

DiskNext ==
    \/ \E t \in Requester :
          \/ \E op \in DiskOps \ {"stop"}, l \in Lba : Send(t, op, l)
          \/ "stop" \in DiskOps /\ Stop(t)
          \/ Put(t) \/ PutEvict(t) \/ PutWriteBack(t) \/ PutReplace(t)
          \/ Lookup(t) \/ Transfer(t) \/ Fill(t)
          \/ FlushWrite(t) \/ FlushClean(t) \/ StopEnd(t)
    \/ PostedArrives

DiskSpec == DiskInit /\ [][DiskNext]_diskVars

\* When no request is at work, a sector holds what was last written to it, in
\* the cache or on the device: "Insert/overwrite, evicting (and flushing if
\* the victim is dirty) as needed" (cache_put, cache.rs:19).
NoWriteLost ==
    (posted = {} /\ \A t \in Requester : At(t, "quiet")) =>
        \A l \in Lba : latest[l] = IF l \in Cached THEN blocks[l].data ELSE medium[l]
=============================================================================
