------------------------------ MODULE BufferCache ------------------------------
(***************************************************************************)
(* The buffer cache between the file system and the block device           *)
(* (a3/fs/cache.c over a3/fs/block.c): a fixed array of slots, searched    *)
(* linearly, replaced by the clock algorithm, written back on eviction and *)
(* on close.  The program is single-threaded, but the process can end      *)
(* between any two accesses to the device, so a call runs in steps; pc     *)
(* says where it is:                                                       *)
(*   idle   no call is in progress                                         *)
(*   evict  buffer_cache_evict is turning the clock                        *)
(*   fill   a slot is free for the sector, not yet filled                  *)
(*   copy   the slot holds the sector, the data is about to be copied      *)
(*   close  buffer_cache_close is flushing slot after slot                 *)
(*   scan   recover_data_blocks is reading the device behind the cache     *)
(***************************************************************************)
EXTENDS Naturals

CONSTANTS
    BUFFER_CACHE_SIZE,  \* number of slots (64 in the code)
    DeviceSize,         \* number of sectors of the device
    FirstRecovered,     \* first sector that recovery looks at (4 in the code)
    Data,               \* what a sector can hold
    ZeroData,           \* the contents of statically initialised memory
    NoData              \* the data of an answer that carries none

ASSUME CacheAssumption ==
    /\ BUFFER_CACHE_SIZE \in Nat \ {0}
    /\ DeviceSize \in Nat \ {0}
    /\ FirstRecovered \in Nat
    /\ ZeroData \in Data

VARIABLES
    cache,      \* the slots
    clock,      \* the clock hand, the static variable of buffer_cache_evict
    disk,       \* the contents of the device
    pc,         \* where the call in progress is
    req,        \* the arguments of that call
    slot,       \* its slot pointer, or the loop index of buffer_cache_close
    ret,        \* the answer to the last completed call
    miss        \* history: the unreferenced slots and the hand at the last miss

vars == <<cache, clock, disk, pc, req, slot, ret, miss>>

Slot == 0 .. BUFFER_CACHE_SIZE - 1

Sector == 0 .. DeviceSize - 1

Entry == [occupied : BOOLEAN, disk_sector : Sector, buffer : Data,
          dirty : BOOLEAN, access : BOOLEAN]

Answer(op, s, d) == [op |-> op, sector |-> s, data |-> d]

NoAnswer == Answer("none", 0, NoData)

EmptyEntry == [occupied |-> FALSE, disk_sector |-> 0, buffer |-> ZeroData,
               dirty |-> FALSE, access |-> FALSE]

--------------------------------------------------------------------------------
(***************************************************************************)
(* The parts of the code the actions are built from.  The ones named after *)
(* a slip (CachedClean, WrittenEntryClean, SecondChanceKeepsAccess,        *)
(* ReadEntryUnreferenced, NextHandUnwrapped, NextHandTwice) are wrong on   *)
(* purpose: each stands in for its neighbour to show that a property       *)
(* notices the slip.                                                       *)
(***************************************************************************)

\* The static array of a new process after buffer_cache_init.
InitCache == [i \in Slot |-> EmptyEntry]

Holds(i, s) == cache[i].occupied /\ cache[i].disk_sector = s

CachedClean(s) == \E i \in Slot : Holds(i, s) /\ ~cache[i].dirty

Cached(s) == \E i \in Slot : Holds(i, s)

\* buffer_cache_lookup: the first slot that holds the sector.
Lookup(s) == CHOOSE i \in Slot : /\ Holds(i, s)
                                 /\ \A j \in Slot : Holds(j, s) => i <= j

\* buffer_cache_flush: the device and the slot after the call.
FlushDisk(i) == IF cache[i].dirty
                THEN [disk EXCEPT ![cache[i].disk_sector] = cache[i].buffer]
                ELSE disk

FlushEntry(e) == [e EXCEPT !.dirty = FALSE]

\* The slot once a missed sector has been read into it; access is left alone.
FilledEntry(e, s) == [e EXCEPT !.occupied = TRUE, !.disk_sector = s,
                               !.dirty = FALSE, !.buffer = disk[s]]

WrittenEntryClean(e, d) == [e EXCEPT !.access = TRUE, !.buffer = d]

WrittenEntry(e, d) == [e EXCEPT !.access = TRUE, !.dirty = TRUE, !.buffer = d]

SecondChanceKeepsAccess(e) == e

SecondChance(e) == [e EXCEPT !.access = FALSE]

ReadEntryUnreferenced(e) == e

ReadEntry(e) == [e EXCEPT !.access = TRUE]

NextHandUnwrapped(h) == h + 1

NextHandTwice(h) == (h + 2) % BUFFER_CACHE_SIZE

NextHand(h) == (h + 1) % BUFFER_CACHE_SIZE

--------------------------------------------------------------------------------
Init == /\ cache = InitCache
        /\ clock = 0
        /\ disk \in [Sector -> Data]
        /\ pc = "idle"
        /\ req = NoAnswer
        /\ slot = 0
        /\ ret = NoAnswer
        /\ miss = [cold |-> {}, hand |-> 0]

\* buffer_cache_read and buffer_cache_write begin with a lookup.
Hit(op, s, d) == /\ pc = "idle"
                 /\ Cached(s)
                 /\ pc' = "copy"
                 /\ req' = Answer(op, s, d)
                 /\ slot' = Lookup(s)
                 /\ UNCHANGED <<cache, clock, disk, ret, miss>>

Miss(op, s, d) == /\ pc = "idle"
                  /\ ~Cached(s)
                  /\ pc' = "evict"
                  /\ req' = Answer(op, s, d)
                  /\ miss' = [cold |-> {i \in Slot : ~cache[i].access},
                              hand |-> clock]
                  /\ UNCHANGED <<cache, clock, disk, slot, ret>>

EvictFree == /\ pc = "evict"
             /\ ~cache[clock].occupied
             /\ slot' = clock
             /\ pc' = "fill"
             /\ UNCHANGED <<cache, clock, disk, req, ret, miss>>

EvictSecondChance == /\ pc = "evict"
                     /\ cache[clock].occupied
                     /\ cache[clock].access
                     /\ cache' = [cache EXCEPT ![clock] = SecondChance(@)]
                     /\ clock' = NextHand(clock)
                     /\ UNCHANGED <<disk, pc, req, slot, ret, miss>>

EvictVictim == /\ pc = "evict"
               /\ cache[clock].occupied
               /\ ~cache[clock].access
               /\ disk' = FlushDisk(clock)
               /\ cache' = [cache EXCEPT ![clock] =
                                [FlushEntry(@) EXCEPT !.occupied = FALSE]]
               /\ slot' = clock
               /\ pc' = "fill"
               /\ UNCHANGED <<clock, req, ret, miss>>

Fill == /\ pc = "fill"
        /\ cache' = [cache EXCEPT ![slot] = FilledEntry(@, req.sector)]
        /\ pc' = "copy"
        /\ UNCHANGED <<clock, disk, req, slot, ret, miss>>

CopyOut == /\ pc = "copy"
           /\ req.op = "read"
           /\ cache' = [cache EXCEPT ![slot] = ReadEntry(@)]
           /\ ret' = Answer("read", req.sector, cache[slot].buffer)
           /\ pc' = "idle"
           /\ UNCHANGED <<clock, disk, req, slot, miss>>

CopyIn == /\ pc = "copy"
          /\ req.op = "write"
          /\ cache' = [cache EXCEPT ![slot] = WrittenEntry(@, req.data)]
          /\ ret' = req
          /\ pc' = "idle"
          /\ UNCHANGED <<clock, disk, req, slot, miss>>

\* filesys_done reaches buffer_cache_close.  The slots stay filled and the
\* process may go on: quit inside a script only ends that line.
StartClose == /\ pc = "idle"
              /\ pc' = "close"
              /\ slot' = 0
              /\ UNCHANGED <<cache, clock, disk, req, ret, miss>>

CloseSlot == /\ pc = "close"
             /\ slot < BUFFER_CACHE_SIZE
             /\ IF cache[slot].occupied
                THEN /\ disk' = FlushDisk(slot)
                     /\ cache' = [cache EXCEPT ![slot] = FlushEntry(@)]
                ELSE UNCHANGED <<disk, cache>>
             /\ slot' = slot + 1
             /\ UNCHANGED <<clock, pc, req, ret, miss>>

CloseDone == /\ pc = "close"
             /\ slot = BUFFER_CACHE_SIZE
             /\ ret' = Answer("close", 0, NoData)
             /\ pc' = "idle"
             /\ slot' = 0
             /\ UNCHANGED <<cache, clock, disk, req, miss>>

\* recover 1 reads the sectors from the fifth to the last but one with
\* block_read, past the cache.
StartRecover == /\ pc = "idle"
                /\ FirstRecovered < DeviceSize - 1
                /\ pc' = "scan"
                /\ req' = Answer("recover", FirstRecovered, NoData)
                /\ UNCHANGED <<cache, clock, disk, slot, ret, miss>>

RecoverSector ==
    /\ pc = "scan"
    /\ ret' = Answer("recover", req.sector, disk[req.sector])
    /\ IF req.sector + 1 < DeviceSize - 1
       THEN req' = [req EXCEPT !.sector = @ + 1] /\ UNCHANGED pc
       ELSE pc' = "idle" /\ UNCHANGED req
    /\ UNCHANGED <<cache, clock, disk, slot, miss>>

\* The process ends, by exit(99), by a signal or after quit, and a new one
\* starts over on the same device.
Restart == /\ cache' = InitCache
           /\ clock' = 0
           /\ pc' = "idle"
           /\ req' = NoAnswer
           /\ slot' = 0
           /\ ret' = NoAnswer
           /\ miss' = [cold |-> {}, hand |-> 0]
           /\ UNCHANGED disk

\* The steps the code takes by itself once it is called.
Internal == \/ EvictFree \/ EvictSecondChance \/ EvictVictim
            \/ Fill \/ CopyOut \/ CopyIn
            \/ CloseSlot \/ CloseDone
            \/ RecoverSector

Next == \/ \E s \in Sector : Hit("read", s, NoData) \/ Miss("read", s, NoData)
        \/ \E s \in Sector, d \in Data : Hit("write", s, d) \/ Miss("write", s, d)
        \/ StartClose
        \/ StartRecover
        \/ Internal
        \/ Restart

Spec == Init /\ [][Next]_vars

\* A call, once made, keeps executing: nothing in it waits.
FairSpec == Spec /\ WF_vars(Internal)

--------------------------------------------------------------------------------
(***************************************************************************)
(* Properties.                                                             *)
(***************************************************************************)

\* The variables keep their types; in particular the hand and the slot
\* pointer never leave the array.
TypeOK == /\ cache \in [Slot -> Entry]
          /\ clock \in Slot
          /\ disk \in [Sector -> Data]
          /\ pc \in {"idle", "evict", "fill", "copy", "close", "scan"}
          /\ req \in [op : {"none", "read", "write", "recover"},
                      sector : Sector, data : Data \cup {NoData}]
          /\ slot \in 0 .. BUFFER_CACHE_SIZE
          /\ ret \in [op : {"none", "read", "write", "close", "recover"},
                      sector : Sector, data : Data \cup {NoData}]
          /\ miss \in [cold : SUBSET Slot, hand : Slot]

\* No sector is cached twice, however misses, evictions and writes of the same
\* sector follow each other: a second copy would be read stale or overwrite
\* the first on write-back (buffer_cache_lookup takes the first match).
OneSlotPerSector ==
    \A i, j \in Slot : /\ cache[i].occupied
                       /\ cache[j].occupied
                       /\ cache[i].disk_sector = cache[j].disk_sector
                       => i = j

\* An occupied slot whose dirty bit is off agrees with the device, so that
\* buffer_cache_evict may drop it without writing it.
CleanMatchesDisk ==
    \A i \in Slot : cache[i].occupied /\ ~cache[i].dirty
                    => cache[i].buffer = disk[cache[i].disk_sector]

\* What a lookup finds can be trusted, and what an eviction drops is not lost.
Coherent == OneSlotPerSector /\ CleanMatchesDisk

\* buffer_cache_evict only throws a sector out when no slot is unoccupied, as
\* its comment promises, although the code takes whatever the hand meets
\* first, an unoccupied slot or an unreferenced one.
EvictsOnlyWhenFull ==
    [][\A i \in Slot : pc' = "fill" /\ cache[i].occupied /\ ~cache'[i].occupied
                       => \A j \in Slot : cache[j].occupied]_vars

Distance(from, to) == (to + BUFFER_CACHE_SIZE - from) % BUFFER_CACHE_SIZE

\* The victim is the one the clock algorithm defines: of the slots that were
\* unreferenced at the miss the first from the hand on, and the slot under
\* the hand when every slot was referenced.
VictimIsFirstCold ==
    [][\A i \in Slot : pc' = "fill" /\ cache[i].occupied /\ ~cache'[i].occupied
                       => IF miss.cold = {}
                          THEN i = miss.hand
                          ELSE /\ i \in miss.cold
                               /\ \A j \in miss.cold :
                                     Distance(miss.hand, i) <= Distance(miss.hand, j)]_vars

\* The contents of the sectors as the callers of the cache see them.
View == [s \in Sector |-> IF Cached(s) THEN cache[Lookup(s)].buffer ELSE disk[s]]

Store == INSTANCE SectorStore WITH store <- View, durable <- disk

\* The cache implements the sector store: reads return the last value written
\* across hits, misses, evictions and restarts, only values of the store
\* reach the device, close answers when nothing is left to write, and a
\* restart falls back to exactly what the device holds.
ImplementsSectorStore == Store!Spec

\* Every call returns: the clock scan finds a slot in the end, since a full
\* turn clears every reference bit.
CallReturns == (pc # "idle") ~> (pc = "idle")

================================================================================
