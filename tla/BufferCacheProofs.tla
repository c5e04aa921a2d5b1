--------------------------- MODULE BufferCacheProofs ---------------------------
(***************************************************************************)
(* Proofs about BufferCache for every number of slots and sectors: type    *)
(* correctness, coherence of the cached copies with the device, which slot *)
(* the hand evicts, and that the cache implements SectorStore.             *)
(***************************************************************************)
EXTENDS BufferCache, TLAPS

\* What the call in progress may rely on at each of its steps.
CallInv ==
    /\ pc = "evict" => ~Cached(req.sector)
    /\ pc = "fill" => /\ slot = clock
                      /\ ~cache[slot].occupied
                      /\ ~Cached(req.sector)
    /\ pc = "copy" => slot \in Slot /\ Holds(slot, req.sector)
    /\ pc \in {"evict", "fill", "copy"} => /\ req.op \in {"read", "write"}
                                           /\ req.op = "write" => req.data \in Data
    /\ pc = "close" => \A i \in Slot : i < slot /\ cache[i].occupied => ~cache[i].dirty

\* A slot is free for another sector than the one being brought in.
Spare(i) == ~cache[i].occupied /\ ~(pc = "fill" /\ i = slot)

\* While there are spare slots they are the ones beyond the hand, and the slot
\* under the hand has been referenced since it was filled.
HandInv ==
    (\E i \in Slot : Spare(i)) =>
        /\ \A j \in Slot : j < clock => cache[j].occupied
        /\ \A j \in Slot : clock < j => ~cache[j].occupied
        /\ cache[clock].occupied => cache[clock].access \/ (pc = "copy" /\ slot = clock)

IInv == TypeOK /\ Coherent /\ CallInv /\ HandInv

--------------------------------------------------------------------------------
\* The hand moves to the next slot and from the last one to the first.
LEMMA NextHandLemma ==
    ASSUME NEW h \in Slot
    PROVE  /\ NextHand(h) \in Slot
           /\ h + 1 < BUFFER_CACHE_SIZE => NextHand(h) = h + 1
  BY CacheAssumption DEF Slot, NextHand

\* A lookup of a cached sector finds the slot that holds it.
LEMMA LookupLemma ==
    TypeOK /\ OneSlotPerSector
        => \A i \in Slot, s \in Sector : Holds(i, s) => Lookup(s) = i
  <1> SUFFICES ASSUME TypeOK, OneSlotPerSector,
                      NEW i \in Slot, NEW s \in Sector, Holds(i, s)
               PROVE  Lookup(s) = i
    OBVIOUS
  <1>1. \A j \in Slot : Holds(j, s) => j = i
    BY DEF OneSlotPerSector, Holds
  <1>2. i <= i
    BY DEF Slot
  <1> QED
    BY <1>1, <1>2 DEF Lookup

\* A flushed slot is a slot, and so is an evicted one.
LEMMA FlushEntryLemma ==
    ASSUME NEW e \in Entry
    PROVE  /\ FlushEntry(e) \in Entry
           /\ [FlushEntry(e) EXCEPT !.occupied = FALSE] \in Entry
           /\ FlushEntry(e).occupied = e.occupied
           /\ FlushEntry(e).access = e.access
           /\ FlushEntry(e).disk_sector = e.disk_sector
           /\ FlushEntry(e).buffer = e.buffer
           /\ FlushEntry(e).dirty = FALSE
  BY DEF Entry, FlushEntry

\* The other updates of a slot yield slots as well.
LEMMA EntryLemma ==
    ASSUME NEW e \in Entry, disk \in [Sector -> Data]
    PROVE  /\ SecondChance(e) \in Entry
           /\ ReadEntry(e) \in Entry
           /\ \A s \in Sector : FilledEntry(e, s) \in Entry
           /\ \A d \in Data : WrittenEntry(e, d) \in Entry
  <1>1. SecondChance(e) \in Entry /\ ReadEntry(e) \in Entry
    BY DEF Entry, SecondChance, ReadEntry
  <1>2. \A s \in Sector : FilledEntry(e, s) \in Entry
    BY DEF Entry, FilledEntry
  <1>3. \A d \in Data : WrittenEntry(e, d) \in Entry
    BY DEF Entry, WrittenEntry
  <1> QED
    BY <1>1, <1>2, <1>3

\* The initial state satisfies the invariant.
LEMMA InitIInv == Init => IInv
  <1> SUFFICES ASSUME Init PROVE IInv
    OBVIOUS
  <1> USE CacheAssumption DEF Init, InitCache, EmptyEntry, Slot, Sector
  <1>1. TypeOK
    BY DEF TypeOK, Entry, NoAnswer, Answer
  <1>2. Coherent
    BY DEF Coherent, OneSlotPerSector, CleanMatchesDisk
  <1>3. CallInv
    BY DEF CallInv
  <1>4. HandInv
    BY DEF HandInv, Spare
  <1> QED
    BY <1>1, <1>2, <1>3, <1>4 DEF IInv

\* Every step of the cache preserves the type of its variables.
LEMMA NextTypeOK == IInv /\ [Next]_vars => TypeOK'
  <1> SUFFICES ASSUME IInv, [Next]_vars PROVE TypeOK'
    OBVIOUS
  <1> USE CacheAssumption DEF IInv, TypeOK, Answer, NoAnswer
  <1>1. ASSUME NEW op \in {"read", "write"}, NEW s \in Sector,
               NEW d \in Data \cup {NoData}, Hit(op, s, d)
        PROVE  TypeOK'
    <2>1. PICK i \in Slot : Holds(i, s)
      BY <1>1 DEF Hit, Cached
    <2>2. Lookup(s) = i
      BY <2>1, LookupLemma DEF Coherent
    <2> QED
      BY <1>1, <2>2 DEF Hit, Slot
  <1>2. ASSUME NEW op \in {"read", "write"}, NEW s \in Sector,
               NEW d \in Data \cup {NoData}, Miss(op, s, d)
        PROVE  TypeOK'
    BY <1>2 DEF Miss
  <1>3. CASE EvictFree
    BY <1>3 DEF EvictFree, Slot
  <1>4. CASE EvictSecondChance
    <2>1. SecondChance(cache[clock]) \in Entry
      BY EntryLemma
    <2>2. cache' \in [Slot -> Entry]
      BY <1>4, <2>1 DEF EvictSecondChance
    <2> QED
      BY <1>4, <2>2, NextHandLemma DEF EvictSecondChance
  <1>5. CASE EvictVictim
    <2>1. FlushDisk(clock) \in [Sector -> Data]
      BY DEF FlushDisk, Entry
    <2>2. cache' \in [Slot -> Entry]
      BY <1>5, FlushEntryLemma DEF EvictVictim
    <2> QED
      BY <1>5, <2>1, <2>2 DEF EvictVictim, Slot
  <1>6. CASE Fill
    <2>1. FilledEntry(cache[slot], req.sector) \in Entry
      BY <1>6, EntryLemma DEF Fill, CallInv
    <2>2. cache' \in [Slot -> Entry]
      BY <1>6, <2>1 DEF Fill
    <2> QED
      BY <1>6, <2>2 DEF Fill
  <1>7. CASE CopyOut
    <2>1. slot \in Slot /\ ReadEntry(cache[slot]) \in Entry
      BY <1>7, EntryLemma DEF CopyOut, CallInv
    <2>2. cache' \in [Slot -> Entry]
      BY <1>7, <2>1 DEF CopyOut
    <2>3. cache[slot].buffer \in Data
      BY <2>1 DEF Entry
    <2> QED
      BY <1>7, <2>2, <2>3 DEF CopyOut
  <1>8. CASE CopyIn
    <2>1. slot \in Slot /\ WrittenEntry(cache[slot], req.data) \in Entry
      BY <1>8, EntryLemma DEF CopyIn, CallInv
    <2>2. cache' \in [Slot -> Entry]
      BY <1>8, <2>1 DEF CopyIn
    <2>3. ret' \in [op : {"none", "read", "write", "close", "recover"},
                    sector : Sector, data : Data \cup {NoData}]
      BY <1>8 DEF CopyIn
    <2> QED
      BY <1>8, <2>2, <2>3 DEF CopyIn
  <1>9. CASE StartClose
    BY <1>9 DEF StartClose
  <1>10. CASE CloseSlot
    <2>1. slot \in Slot /\ slot + 1 \in 0 .. BUFFER_CACHE_SIZE
      BY <1>10 DEF CloseSlot, Slot
    <2>2. FlushDisk(slot) \in [Sector -> Data]
      BY <2>1 DEF FlushDisk, Entry
    <2>3. cache' \in [Slot -> Entry]
      <3>1. FlushEntry(cache[slot]) \in Entry
        BY <2>1, FlushEntryLemma
      <3> QED
        BY <1>10, <2>1, <3>1 DEF CloseSlot
    <2>4. disk' \in [Sector -> Data]
      BY <1>10, <2>2 DEF CloseSlot
    <2> QED
      BY <1>10, <2>1, <2>3, <2>4 DEF CloseSlot
  <1>11. CASE CloseDone
    BY <1>11 DEF CloseDone, Sector
  <1>12. CASE StartRecover
    BY <1>12 DEF StartRecover, Sector
  <1>13. CASE RecoverSector
    <2>1. req.sector + 1 < DeviceSize - 1 => req.sector + 1 \in Sector
      BY DEF Sector
    <2> QED
      BY <1>13, <2>1 DEF RecoverSector
  <1>14. CASE Restart
    BY <1>14 DEF Restart, InitCache, EmptyEntry, Slot, Sector, Entry
  <1>15. CASE UNCHANGED vars
    BY <1>15 DEF vars
  <1> QED
    BY <1>1, <1>2, <1>3, <1>4, <1>5, <1>6, <1>7, <1>8, <1>9, <1>10, <1>11,
       <1>12, <1>13, <1>14, <1>15 DEF Next, Internal

\* A step that moves no sector to another slot duplicates none.
LEMMA SameSectorsLemma ==
    ASSUME OneSlotPerSector,
           \A i \in Slot : /\ cache'[i].occupied = cache[i].occupied
                           /\ cache'[i].disk_sector = cache[i].disk_sector
    PROVE  OneSlotPerSector'
  BY DEF OneSlotPerSector

\* Every step keeps the cached copies coherent with the device.
LEMMA NextCoherent == IInv /\ [Next]_vars => Coherent'
  <1> SUFFICES ASSUME IInv, [Next]_vars PROVE Coherent'
    OBVIOUS
  <1>0. TypeOK'
    BY NextTypeOK
  <1> USE <1>0, CacheAssumption DEF IInv, TypeOK, Coherent, OneSlotPerSector, CleanMatchesDisk
  <1>1. ASSUME NEW op, NEW s, NEW d, Hit(op, s, d) \/ Miss(op, s, d)
        PROVE  Coherent'
    BY <1>1 DEF Hit, Miss
  <1>2. CASE EvictFree \/ StartClose \/ CloseDone \/ StartRecover \/ RecoverSector
    BY <1>2 DEF EvictFree, StartClose, CloseDone, StartRecover, RecoverSector
  <1>3. CASE EvictSecondChance
    BY <1>3 DEF EvictSecondChance, SecondChance, Entry
  <1>4. CASE EvictVictim
    <2>1. \A i \in Slot : cache'[i].occupied => i # clock /\ cache'[i] = cache[i]
      BY <1>4 DEF EvictVictim, FlushEntry, Entry
    <2>2. \A i \in Slot : cache[i].occupied /\ i # clock
                           => disk'[cache[i].disk_sector] = disk[cache[i].disk_sector]
      BY <1>4 DEF EvictVictim, FlushDisk, Entry
    <2> QED
      BY <2>1, <2>2
  <1>5. CASE Fill
    <2>1. \A i \in Slot : i # slot => cache'[i] = cache[i]
      BY <1>5 DEF Fill
    <2>2. /\ cache'[slot].disk_sector = req.sector
          /\ cache'[slot].buffer = disk[req.sector]
      BY <1>5 DEF Fill, FilledEntry, Entry, CallInv
    <2>3. \A i \in Slot : cache[i].occupied => cache[i].disk_sector # req.sector
      BY <1>5 DEF Fill, CallInv, Cached, Holds
    <2>4. disk' = disk
      BY <1>5 DEF Fill
    <2> QED
      BY <2>1, <2>2, <2>3, <2>4
  <1>6. CASE CopyOut
    BY <1>6 DEF CopyOut, ReadEntry, Entry
  <1>7. CASE CopyIn
    <2>1. \A i \in Slot : i # slot => cache'[i] = cache[i]
      BY <1>7 DEF CopyIn
    <2>2. /\ cache'[slot].disk_sector = cache[slot].disk_sector
          /\ cache'[slot].occupied = cache[slot].occupied
          /\ cache'[slot].dirty
      BY <1>7 DEF CopyIn, WrittenEntry, Entry, CallInv
    <2>3. disk' = disk
      BY <1>7 DEF CopyIn
    <2> QED
      BY <2>1, <2>2, <2>3
  <1>8. CASE CloseSlot
    <2>1. slot \in Slot
      BY <1>8 DEF CloseSlot, Slot
    <2>2. CASE ~cache[slot].occupied
      BY <1>8, <2>1, <2>2 DEF CloseSlot
    <2>3. CASE cache[slot].occupied
      <3>1. /\ disk' = FlushDisk(slot)
            /\ cache' = [cache EXCEPT ![slot] = FlushEntry(@)]
        BY <1>8, <2>3 DEF CloseSlot
      <3>2. \A i \in Slot : /\ cache'[i].occupied = cache[i].occupied
                            /\ cache'[i].disk_sector = cache[i].disk_sector
                            /\ cache'[i].buffer = cache[i].buffer
                            /\ i # slot => cache'[i].dirty = cache[i].dirty
        BY <3>1, <2>1, FlushEntryLemma
      <3>3. disk'[cache[slot].disk_sector] = cache[slot].buffer
        <4>1. cache[slot].disk_sector \in Sector
          BY <2>1 DEF Entry
        <4>2. CASE cache[slot].dirty
          BY <3>1, <4>1, <4>2 DEF FlushDisk
        <4>3. CASE ~cache[slot].dirty
          BY <3>1, <2>1, <2>3, <4>3 DEF FlushDisk
        <4> QED
          BY <4>2, <4>3
      <3>4. \A i \in Slot : cache[i].occupied /\ i # slot
                             => disk'[cache[i].disk_sector] = disk[cache[i].disk_sector]
        BY <3>1, <2>1, <2>3 DEF FlushDisk, Entry
      <3>5. OneSlotPerSector'
        BY <3>2, SameSectorsLemma
      <3>6. ASSUME NEW i \in Slot, cache'[i].occupied, ~cache'[i].dirty
            PROVE  cache'[i].buffer = disk'[cache'[i].disk_sector]
        <4>1. /\ cache'[i].occupied = cache[i].occupied
              /\ cache'[i].disk_sector = cache[i].disk_sector
              /\ cache'[i].buffer = cache[i].buffer
              /\ i # slot => cache'[i].dirty = cache[i].dirty
          BY <3>2
        <4>2. CASE i = slot
          BY <3>3, <4>1, <4>2
        <4>3. CASE i # slot
          BY <3>4, <3>6, <4>1, <4>3
        <4> QED
          BY <4>2, <4>3
      <3> QED
        BY <3>5, <3>6
    <2> QED
      BY <2>2, <2>3
  <1>9. CASE Restart
    BY <1>9 DEF Restart, InitCache, EmptyEntry
  <1>10. CASE UNCHANGED vars
    BY <1>10 DEF vars
  <1> QED
    BY <1>1, <1>2, <1>3, <1>4, <1>5, <1>6, <1>7, <1>8, <1>9, <1>10
    DEF Next, Internal

\* Every step leaves its successor with what it relies on.
LEMMA NextCallInv == IInv /\ [Next]_vars => CallInv'
  <1> SUFFICES ASSUME IInv, [Next]_vars PROVE CallInv'
    OBVIOUS
  <1>0. TypeOK'
    BY NextTypeOK
  <1> USE <1>0, CacheAssumption DEF IInv, TypeOK, CallInv
  <1>1. ASSUME NEW op \in {"read", "write"}, NEW s \in Sector,
               NEW d, op = "write" => d \in Data, Hit(op, s, d)
        PROVE  CallInv'
    <2>1. PICK i \in Slot : Holds(i, s)
      BY <1>1 DEF Hit, Cached
    <2>2. Lookup(s) = i
      BY <2>1, LookupLemma DEF Coherent
    <2> QED
      BY <1>1, <2>1, <2>2 DEF Hit, Answer, Holds
  <1>2. ASSUME NEW op \in {"read", "write"}, NEW s \in Sector,
               NEW d, op = "write" => d \in Data, Miss(op, s, d)
        PROVE  CallInv'
    BY <1>2 DEF Miss, Answer, Cached, Holds
  <1>3. CASE EvictFree
    BY <1>3 DEF EvictFree, Cached, Holds
  <1>4. CASE EvictSecondChance
    <2>1. \A i \in Slot : /\ cache'[i].occupied = cache[i].occupied
                          /\ cache'[i].disk_sector = cache[i].disk_sector
      BY <1>4 DEF EvictSecondChance, SecondChance, Entry
    <2> QED
      BY <1>4, <2>1 DEF EvictSecondChance, Cached, Holds
  <1>5. CASE EvictVictim
    <2>1. \A i \in Slot : cache'[i].occupied => cache'[i] = cache[i]
      BY <1>5 DEF EvictVictim, FlushEntry, Entry
    <2>2. ~cache'[clock].occupied
      BY <1>5 DEF EvictVictim, FlushEntry, Entry
    <2> QED
      BY <1>5, <2>1, <2>2 DEF EvictVictim, Cached, Holds
  <1>6. CASE Fill
    <2>1. cache'[slot].occupied /\ cache'[slot].disk_sector = req.sector
      BY <1>6 DEF Fill, FilledEntry, Entry
    <2> QED
      BY <1>6, <2>1 DEF Fill, Holds
  <1>7. CASE CopyOut \/ CopyIn \/ StartClose \/ CloseDone \/ StartRecover \/ RecoverSector
    BY <1>7 DEF CopyOut, CopyIn, StartClose, CloseDone, StartRecover, RecoverSector, Slot
  <1>8. CASE CloseSlot
    <2>1. slot \in Slot
      BY <1>8 DEF CloseSlot, Slot
    <2>2. \A i \in Slot : i # slot => cache'[i] = cache[i]
      BY <1>8 DEF CloseSlot
    <2>3. cache'[slot].occupied => ~cache'[slot].dirty
      BY <1>8, <2>1 DEF CloseSlot, FlushEntry, Entry
    <2>4. \A i \in Slot : i < slot + 1 => i = slot \/ i < slot
      BY <2>1 DEF Slot
    <2> QED
      BY <1>8, <2>2, <2>3, <2>4 DEF CloseSlot
  <1>9. CASE Restart
    BY <1>9 DEF Restart
  <1>10. CASE UNCHANGED vars
    BY <1>10 DEF vars, Cached, Holds
  <1> QED
    BY <1>1, <1>2, <1>3, <1>4, <1>5, <1>6, <1>7, <1>8, <1>9, <1>10
    DEF Next, Internal

\* Every step keeps the spare slots beyond the hand.
LEMMA NextHandInv == IInv /\ [Next]_vars => HandInv'
  <1> SUFFICES ASSUME IInv, [Next]_vars PROVE HandInv'
    OBVIOUS
  <1>0. TypeOK'
    BY NextTypeOK
  <1> USE <1>0, CacheAssumption DEF IInv, TypeOK, HandInv, Spare
  <1>1. ASSUME NEW op, NEW s, NEW d, Hit(op, s, d) \/ Miss(op, s, d)
        PROVE  HandInv'
    BY <1>1 DEF Hit, Miss
  <1>2. CASE EvictFree
    BY <1>2 DEF EvictFree
  <1>3. CASE EvictSecondChance
    <2>1. SUFFICES ASSUME NEW i \in Slot, Spare(i)'
                   PROVE  /\ \A j \in Slot : j < clock' => cache'[j].occupied
                          /\ \A j \in Slot : clock' < j => ~cache'[j].occupied
                          /\ ~cache'[clock'].occupied
      BY DEF HandInv
    <2>2. \A j \in Slot : cache'[j].occupied = cache[j].occupied
      BY <1>3 DEF EvictSecondChance, SecondChance, Entry
    <2>3. ~cache[i].occupied /\ i # clock
      BY <1>3, <2>1, <2>2 DEF EvictSecondChance
    <2>4. /\ \A j \in Slot : j < clock => cache[j].occupied
          /\ \A j \in Slot : clock < j => ~cache[j].occupied
      BY <1>3, <2>3 DEF EvictSecondChance
    <2>5. clock < i
      BY <2>3, <2>4 DEF Slot
    <2>6. clock' = clock + 1 /\ clock' \in Slot
      BY <1>3, <2>5, NextHandLemma DEF EvictSecondChance, Slot
    <2>7. clock < clock' /\ \A j \in Slot : /\ j < clock' => j < clock \/ j = clock
                                            /\ clock' < j => clock < j
      BY <2>6 DEF Slot
    <2> QED
      BY <1>3, <2>2, <2>4, <2>6, <2>7 DEF EvictSecondChance
  <1>4. CASE EvictVictim
    <2>1. \A j \in Slot : cache[j].occupied
      BY <1>4 DEF EvictVictim
    <2>2. \A j \in Slot : j # clock => cache'[j].occupied
      BY <1>4, <2>1 DEF EvictVictim
    <2> QED
      BY <1>4, <2>2 DEF EvictVictim
  <1>5. CASE Fill
    <2>1. slot = clock
      BY <1>5 DEF Fill, CallInv
    <2>2. cache'[clock].occupied
      BY <1>5, <2>1 DEF Fill, FilledEntry, Entry
    <2>3. \A j \in Slot : j # clock => cache'[j] = cache[j]
      BY <1>5, <2>1 DEF Fill
    <2>4. \A j \in Slot : j < clock \/ clock < j => j # clock
      BY DEF Slot
    <2> QED
      BY <1>5, <2>1, <2>2, <2>3, <2>4 DEF Fill
  <1>6. CASE CopyOut \/ CopyIn
    <2>1. slot \in Slot
      BY <1>6 DEF CopyOut, CopyIn, CallInv
    <2>2. cache'[slot].access /\ cache'[slot].occupied = cache[slot].occupied
      <3>1. CASE CopyOut
        BY <3>1, <2>1 DEF CopyOut, ReadEntry, Entry
      <3>2. CASE CopyIn
        BY <3>2, <2>1 DEF CopyIn, WrittenEntry, Entry
      <3> QED
        BY <1>6, <3>1, <3>2
    <2>3. \A j \in Slot : j # slot => cache'[j] = cache[j]
      BY <1>6 DEF CopyOut, CopyIn
    <2> QED
      BY <1>6, <2>2, <2>3 DEF CopyOut, CopyIn, Entry
  <1>7. CASE StartClose \/ CloseDone \/ StartRecover \/ RecoverSector
    BY <1>7 DEF StartClose, CloseDone, StartRecover, RecoverSector
  <1>8. CASE CloseSlot
    <2>1. \A j \in Slot : /\ cache'[j].occupied = cache[j].occupied
                          /\ cache'[j].access = cache[j].access
      <3>1. CASE cache[slot].occupied
        <4>1. cache' = [cache EXCEPT ![slot] = FlushEntry(@)]
          BY <1>8, <3>1 DEF CloseSlot
        <4> QED
          BY <4>1, FlushEntryLemma
      <3>2. CASE ~cache[slot].occupied
        BY <1>8, <3>2 DEF CloseSlot
      <3> QED
        BY <3>1, <3>2
    <2>2. clock' = clock /\ pc = "close" /\ pc' = "close"
      BY <1>8 DEF CloseSlot
    <2> QED
      BY <2>1, <2>2
  <1>9. CASE Restart
    BY <1>9 DEF Restart, InitCache, EmptyEntry, Slot
  <1>10. CASE UNCHANGED vars
    BY <1>10 DEF vars
  <1> QED
    BY <1>1, <1>2, <1>3, <1>4, <1>5, <1>6, <1>7, <1>8, <1>9, <1>10
    DEF Next, Internal

\* The invariant holds in every reachable state.
THEOREM CacheInvariant == Spec => []IInv
  <1>1. IInv /\ [Next]_vars => IInv'
    BY NextTypeOK, NextCoherent, NextCallInv, NextHandInv DEF IInv
  <1> QED
    BY InitIInv, <1>1, PTL DEF Spec

\* The variables of the cache keep their types: the hand of the clock and the
\* slot pointer of a call stay inside the array of cache.c.
THEOREM CacheTypeCorrect == Spec => []TypeOK
  BY CacheInvariant, PTL DEF IInv

\* The cached copies are coherent: one slot per sector, and a clean slot agrees
\* with the device, so that dropping it loses nothing.
THEOREM CacheCoherence == Spec => []Coherent
  BY CacheInvariant, PTL DEF IInv

\* A cached sector is only evicted when every slot is occupied, as the comment
\* of buffer_cache_evict says.
THEOREM CacheEvictsOnlyWhenFull == Spec => EvictsOnlyWhenFull
  <1>1. IInv /\ [Next]_vars
            => [\A i \in Slot : pc' = "fill" /\ cache[i].occupied /\ ~cache'[i].occupied
                                => \A j \in Slot : cache[j].occupied]_vars
    <2> SUFFICES ASSUME IInv, Next, NEW i \in Slot, pc' = "fill",
                        cache[i].occupied, ~cache'[i].occupied
                 PROVE  \A j \in Slot : cache[j].occupied
      BY DEF vars
    <2>1. EvictVictim
      BY DEF Next, Internal, Hit, Miss, EvictFree, EvictSecondChance, SecondChance,
             Fill, CopyOut, CopyIn, StartClose, CloseSlot, CloseDone, StartRecover,
             RecoverSector, Restart, IInv, TypeOK, Entry
    <2> QED
      BY <2>1 DEF EvictVictim, IInv, HandInv, Spare
  <1> QED
    BY CacheInvariant, <1>1, PTL DEF Spec, EvictsOnlyWhenFull

--------------------------------------------------------------------------------
(***************************************************************************)
(* The turn of the clock: what buffer_cache_evict has passed since a miss  *)
(* was unreferenced neither at the miss nor is it referenced now.          *)
(***************************************************************************)

\* The hand is in its first turn.  The slots it has passed were referenced at
\* the miss and are no more, those ahead of it are as they were.
FirstTurn ==
    \A i \in Slot :
        IF Distance(miss.hand, i) < Distance(miss.hand, clock)
        THEN i \notin miss.cold /\ ~cache[i].access
        ELSE i \in miss.cold <=> ~cache[i].access

\* The hand is back where it was, having found every slot referenced.
FullTurn == miss.cold = {} /\ clock = miss.hand /\ ~cache[clock].access

TurnInv == pc = "evict" => FirstTurn \/ FullTurn

\* A hand that has i slots to go to where it came from is there after i steps.
LEMMA DistanceLemma ==
    ASSUME NEW h \in Slot, NEW i \in Slot
    PROVE  /\ h <= i => Distance(h, i) = i - h
           /\ i < h => Distance(h, i) = i + BUFFER_CACHE_SIZE - h
  <1>1. PICK n \in Nat \ {0} : n = BUFFER_CACHE_SIZE
    BY CacheAssumption
  <1>2. h \in Nat /\ i \in Nat /\ h < n /\ i < n
    BY <1>1 DEF Slot
  <1>3. ASSUME h <= i PROVE (i + n - h) % n = i - h
    BY <1>2, <1>3
  <1>4. ASSUME i < h PROVE (i + n - h) % n = i + n - h
    BY <1>2, <1>4
  <1> QED
    BY <1>1, <1>3, <1>4 DEF Distance

\* The distances from a slot are those of 0 .. BUFFER_CACHE_SIZE - 1, each once,
\* and the hand goes through them in order.
LEMMA TurnLemma ==
    ASSUME NEW h \in Slot, NEW c \in Slot
    PROVE  /\ Distance(h, h) = 0
           /\ Distance(h, c) \in Slot
           /\ \A i \in Slot : Distance(h, i) = Distance(h, c) => i = c
           /\ Distance(h, c) + 1 < BUFFER_CACHE_SIZE
                  => Distance(h, NextHand(c)) = Distance(h, c) + 1
           /\ Distance(h, c) + 1 = BUFFER_CACHE_SIZE => NextHand(c) = h
  <1>1. PICK n \in Nat \ {0} : n = BUFFER_CACHE_SIZE
    BY CacheAssumption
  <1>2. h \in Nat /\ c \in Nat /\ h < n /\ c < n
    BY <1>1 DEF Slot
  <1>3. PICK d \in Nat : d = Distance(h, c) /\ d = IF h <= c THEN c - h ELSE c + n - h
    BY <1>1, <1>2, DistanceLemma
  <1>4. Distance(h, h) = 0 /\ d \in Slot
    BY <1>1, <1>2, <1>3, DistanceLemma DEF Slot
  <1>5. ASSUME NEW i \in Slot, Distance(h, i) = d
        PROVE  i = c
    <2>1. i \in Nat /\ i < n /\ d = IF h <= i THEN i - h ELSE i + n - h
      BY <1>1, <1>2, <1>5, DistanceLemma DEF Slot
    <2> QED
      BY <1>2, <1>3, <2>1
  <1>6. NextHand(c) = IF c + 1 = n THEN 0 ELSE c + 1
    BY <1>1, <1>2 DEF NextHand
  <1>7. ASSUME d + 1 < n
        PROVE  Distance(h, NextHand(c)) = d + 1
    <2>1. PICK k \in Slot : k = NextHand(c)
      BY NextHandLemma
    <2>2. k \in Nat /\ Distance(h, k) = IF h <= k THEN k - h ELSE k + n - h
      BY <1>1, <1>2, <2>1, DistanceLemma DEF Slot
    <2> QED
      BY <1>2, <1>3, <1>6, <1>7, <2>1, <2>2
  <1>8. ASSUME d + 1 = n
        PROVE  NextHand(c) = h
    BY <1>2, <1>3, <1>6, <1>8
  <1> QED
    BY <1>1, <1>3, <1>4, <1>5, <1>7, <1>8

\* A second chance takes the hand on in its first turn or completes the turn.
LEMMA SecondChanceTurnInv ==
    ASSUME IInv, TurnInv, EvictSecondChance
    PROVE  TurnInv'
  <1>1. /\ clock \in Slot /\ miss.hand \in Slot /\ miss.cold \subseteq Slot /\ cache \in [Slot -> Entry]
        /\ clock' = NextHand(clock) /\ clock' \in Slot /\ miss' = miss /\ cache[clock].access
    BY NextHandLemma DEF IInv, TypeOK, EvictSecondChance
  <1>2. FirstTurn
    BY DEF TurnInv, FullTurn, EvictSecondChance
  <1>3. /\ ~cache'[clock].access
        /\ \A i \in Slot : i # clock => cache'[i] = cache[i]
    BY <1>1 DEF EvictSecondChance, SecondChance, Entry
  <1>4. PICK h \in Slot, c \in Slot : h = miss.hand /\ c = clock
    BY <1>1
  <1> DEFINE D(i) == Distance(h, i)
  <1>5. /\ D(c) \in Slot
        /\ \A i \in Slot : D(i) \in Slot /\ (D(i) = D(c) => i = c)
        /\ D(c) + 1 < BUFFER_CACHE_SIZE => D(clock') = D(c) + 1
        /\ D(c) + 1 = BUFFER_CACHE_SIZE => clock' = h
        /\ D(h) = 0
    BY <1>1, <1>4, TurnLemma
  <1>6. \A i \in Slot : IF D(i) < D(c) THEN i \notin miss.cold /\ ~cache[i].access
                        ELSE i \in miss.cold <=> ~cache[i].access
    BY <1>2, <1>4 DEF FirstTurn
  <1>7. c \notin miss.cold
    BY <1>1, <1>4, <1>6
  <1> HIDE DEF D
  <1>8. CASE D(c) + 1 < BUFFER_CACHE_SIZE
    <2>1. \A i \in Slot : D(i) < D(clock') <=> D(i) < D(c) \/ i = c
      <3> SUFFICES ASSUME NEW i \in Slot
                   PROVE  D(i) < D(c) + 1 <=> D(i) < D(c) \/ i = c
        BY <1>5, <1>8
      <3> QED
        BY <1>5 DEF Slot
    <2>2. \A i \in Slot : IF D(i) < D(clock') THEN i \notin miss.cold /\ ~cache'[i].access
                          ELSE i \in miss.cold <=> ~cache'[i].access
      BY <1>3, <1>4, <1>6, <1>7, <2>1
    <2>3. FirstTurn'
      BY <1>1, <1>4, <2>2 DEF FirstTurn, D
    <2> QED
      BY <2>3 DEF TurnInv
  <1>9. CASE D(c) + 1 = BUFFER_CACHE_SIZE
    <2>1. \A i \in Slot : i = c \/ D(i) < D(c)
      BY <1>5, <1>9, CacheAssumption DEF Slot
    <2>2. miss.cold = {}
      BY <1>1, <1>6, <1>7, <2>1
    <2>3. clock' = h /\ ~cache'[h].access
      BY <1>3, <1>4, <1>5, <1>6, <1>9, <2>1
    <2> QED
      BY <1>1, <1>4, <2>2, <2>3 DEF TurnInv, FullTurn
  <1> QED
    BY <1>5, <1>8, <1>9, CacheAssumption DEF Slot

\* Every step keeps what is known of the turn.
LEMMA NextTurnInv ==
    ASSUME IInv, TurnInv, [Next]_vars
    PROVE  TurnInv'
  <1>1. ASSUME NEW op, NEW s, NEW d, Miss(op, s, d)
        PROVE  TurnInv'
    <2>1. /\ miss'.cold = {i \in Slot : ~cache[i].access} /\ miss'.hand = clock
          /\ clock' = clock /\ cache' = cache
      BY <1>1 DEF Miss
    <2>2. clock \in Slot /\ \A i \in Slot : Distance(clock, i) \in Nat /\ Distance(clock, clock) = 0
      BY TurnLemma DEF IInv, TypeOK, Slot
    <2>3. \A i \in Slot : ~(Distance(clock, i) < Distance(clock, clock))
      BY <2>2
    <2>4. FirstTurn'
      BY <2>1, <2>3 DEF FirstTurn
    <2> QED
      BY <2>4 DEF TurnInv
  <1>2. CASE EvictSecondChance
    BY <1>2, SecondChanceTurnInv
  <1>3. CASE UNCHANGED vars
    BY <1>3 DEF vars, TurnInv, FirstTurn, FullTurn
  <1>4. CASE Restart
    BY <1>4 DEF Restart, TurnInv
  <1>5. CASE StartClose \/ StartRecover \/ \E op, s, d : Hit(op, s, d)
    BY <1>5 DEF StartClose, StartRecover, Hit, TurnInv
  <1>6. CASE EvictFree \/ EvictVictim \/ Fill \/ CopyOut \/ CopyIn \/ CloseSlot \/ CloseDone \/ RecoverSector
    BY <1>6 DEF EvictFree, EvictVictim, Fill, CopyOut, CopyIn, CloseSlot, CloseDone, RecoverSector, TurnInv
  <1> QED
    BY <1>1, <1>2, <1>3, <1>4, <1>5, <1>6 DEF Next, Internal

\* buffer_cache_evict evicts the slot that the clock algorithm defines, though
\* it clears reference bits while it looks: the first that was unreferenced at
\* the miss, or the one under the hand when there was none.
THEOREM CacheVictimIsFirstCold == Spec => VictimIsFirstCold
  <1>1. Init => TurnInv
    BY DEF Init, TurnInv
  <1>2. IInv /\ TurnInv /\ [Next]_vars => TurnInv'
    BY NextTurnInv
  <1>3. IInv /\ TurnInv /\ [Next]_vars
            => [\A i \in Slot : pc' = "fill" /\ cache[i].occupied /\ ~cache'[i].occupied
                                => IF miss.cold = {}
                                   THEN i = miss.hand
                                   ELSE /\ i \in miss.cold
                                        /\ \A j \in miss.cold :
                                              Distance(miss.hand, i) <= Distance(miss.hand, j)]_vars
    <2> SUFFICES ASSUME IInv, TurnInv, Next, NEW i \in Slot, pc' = "fill",
                        cache[i].occupied, ~cache'[i].occupied
                 PROVE  IF miss.cold = {}
                        THEN i = miss.hand
                        ELSE /\ i \in miss.cold
                             /\ \A j \in miss.cold :
                                   Distance(miss.hand, i) <= Distance(miss.hand, j)
      BY DEF vars
    <2>1. EvictVictim
      BY DEF Next, Internal, Hit, Miss, EvictFree, EvictSecondChance, SecondChance,
             Fill, CopyOut, CopyIn, StartClose, CloseSlot, CloseDone, StartRecover,
             RecoverSector, Restart, IInv, TypeOK, Entry
    <2>2. i = clock /\ ~cache[clock].access /\ pc = "evict"
      BY <2>1 DEF EvictVictim, IInv, TypeOK
    <2>3. CASE FirstTurn
      <3>1. miss.hand \in Slot /\ miss.cold \subseteq Slot
        BY DEF IInv, TypeOK
      <3>2. \A j \in Slot : Distance(miss.hand, j) \in Nat
        <4>1. \A j \in Slot : Distance(miss.hand, j) \in Slot
          BY <3>1, TurnLemma
        <4> QED
          BY <4>1 DEF Slot
      <3>3. i \in miss.cold
        BY <2>2, <2>3, <3>2 DEF FirstTurn
      <3>4. \A j \in miss.cold : ~(Distance(miss.hand, j) < Distance(miss.hand, i))
        BY <2>2, <2>3, <3>1 DEF FirstTurn
      <3> QED
        BY <3>1, <3>2, <3>3, <3>4
    <2>4. CASE FullTurn
      BY <2>2, <2>4 DEF FullTurn
    <2> QED
      BY <2>2, <2>3, <2>4 DEF TurnInv
  <1> QED
    BY CacheInvariant, <1>1, <1>2, <1>3, PTL DEF Spec, VictimIsFirstCold

--------------------------------------------------------------------------------
(***************************************************************************)
(* The refinement: the view of a sector is the buffer of the slot that     *)
(* holds it and otherwise the device, and every step of the cache is a     *)
(* step of the sector store or leaves it alone.                            *)
(***************************************************************************)

\* What the view of a sector is, cached or not.
ViewFacts ==
    \A s \in Sector : /\ \A i \in Slot : Holds(i, s) => View[s] = cache[i].buffer
                      /\ ~Cached(s) => View[s] = disk[s]

\* The view is as ViewFacts says whenever no sector is cached twice.
LEMMA ViewLemma == TypeOK /\ OneSlotPerSector => ViewFacts
  <1> SUFFICES ASSUME TypeOK, OneSlotPerSector, NEW s \in Sector
               PROVE  /\ \A i \in Slot : Holds(i, s) => View[s] = cache[i].buffer
                      /\ ~Cached(s) => View[s] = disk[s]
    BY DEF ViewFacts
  <1>1. ASSUME NEW i \in Slot, Holds(i, s)
        PROVE  View[s] = cache[i].buffer
    <2>1. Cached(s)
      BY <1>1 DEF Cached
    <2>2. Lookup(s) = i
      BY <1>1, LookupLemma
    <2> QED
      BY <2>1, <2>2 DEF View
  <1>2. ASSUME ~Cached(s)
        PROVE  View[s] = disk[s]
    BY <1>2 DEF View
  <1> QED
    BY <1>1, <1>2

\* The same after a step.
LEMMA ViewLemmaNext == TypeOK' /\ OneSlotPerSector' => ViewFacts'
  BY ViewLemma, PTL

\* A step that keeps the view of every sector keeps the view.
LEMMA ViewExtensionality ==
    ASSUME \A s \in Sector : View'[s] = View[s]
    PROVE  View' = View
  BY DEF View

\* The cache starts out empty, so the view is the device.
LEMMA InitRefines == Init => Store!Init
  <1> SUFFICES ASSUME Init PROVE Store!Init
    OBVIOUS
  <1>1. \A s \in Sector : ~Cached(s)
    BY DEF Init, InitCache, EmptyEntry, Cached, Holds
  <1>2. View = disk
    BY <1>1 DEF Init, View
  <1> QED
    BY <1>2 DEF Init, NoAnswer, Answer, Store!Init, Store!NoAnswer, Store!Answer,
                Sector, Store!Sector

\* A step that keeps sectors and buffers in their slots, and the device
\* wherever it shows, keeps the view.
LEMMA SameViewLemma ==
    ASSUME IInv, TypeOK', Coherent',
           \A i \in Slot : /\ cache'[i].occupied = cache[i].occupied
                           /\ cache'[i].disk_sector = cache[i].disk_sector
                           /\ cache'[i].buffer = cache[i].buffer,
           \A s \in Sector : ~Cached(s) => disk'[s] = disk[s]
    PROVE  View' = View
  <1> SUFFICES ASSUME NEW s \in Sector PROVE View'[s] = View[s]
    BY ViewExtensionality
  <1>1. \A i \in Slot : Holds(i, s)' <=> Holds(i, s)
    BY DEF Holds
  <1>2. CASE Cached(s)
    <2>1. PICK i \in Slot : Holds(i, s)
      BY <1>2 DEF Cached
    <2>2. View[s] = cache[i].buffer
      BY <2>1, ViewLemma DEF IInv, Coherent, ViewFacts
    <2>3. ViewFacts'
      BY ViewLemmaNext DEF Coherent
    <2>4. View'[s] = cache'[i].buffer
      BY <1>1, <2>1, <2>3 DEF ViewFacts
    <2> QED
      BY <2>2, <2>4
  <1>3. CASE ~Cached(s)
    <2>1. ~Cached(s)'
      BY <1>1, <1>3 DEF Cached
    <2> QED
      BY <1>3, <2>1 DEF View
  <1> QED
    BY <1>2, <1>3

\* Evicting a sector moves its contents from the slot to the device and is a
\* write-back of that sector, or changes nothing when the slot is clean.
LEMMA EvictVictimRefines ==
    ASSUME IInv, IInv', EvictVictim
    PROVE  Store!Next \/ UNCHANGED Store!vars
  <1>1. PICK v \in Sector : v = cache[clock].disk_sector
    BY DEF IInv, TypeOK, Entry
  <1>2. clock \in Slot /\ Holds(clock, v)
    BY <1>1 DEF IInv, TypeOK, EvictVictim, Holds
  <1>3. View[v] = cache[clock].buffer
    BY <1>1, <1>2, ViewLemma DEF IInv, Coherent, ViewFacts
  <1>4. \A i \in Slot : /\ Holds(i, v) => i = clock
                        /\ ~cache'[clock].occupied
                        /\ i # clock => cache'[i] = cache[i]
    <2>1. \A i \in Slot : Holds(i, v) => i = clock
      BY <1>1, <1>2 DEF IInv, Coherent, OneSlotPerSector, Holds
    <2>2. ~cache'[clock].occupied
      BY <1>2 DEF IInv, TypeOK, Entry, EvictVictim, FlushEntry
    <2>3. \A i \in Slot : i # clock => cache'[i] = cache[i]
      BY DEF IInv, TypeOK, EvictVictim
    <2> QED
      BY <2>1, <2>2, <2>3
  <1>5. ~Cached(v)'
    BY <1>2, <1>4 DEF Cached, Holds
  <1>6. disk' = [disk EXCEPT ![v] = View[v]]
    <2>1. CASE cache[clock].dirty
      BY <1>1, <1>3, <2>1 DEF EvictVictim, FlushDisk
    <2>2. CASE ~cache[clock].dirty
      <3>1. cache[clock].buffer = disk[v]
        BY <1>1, <1>2, <2>2 DEF IInv, Coherent, CleanMatchesDisk, EvictVictim
      <3> QED
        BY <1>1, <1>3, <2>2, <3>1 DEF EvictVictim, FlushDisk, IInv, TypeOK
    <2> QED
      BY <2>1, <2>2
  <1>7. ASSUME NEW s \in Sector PROVE View'[s] = View[s]
    <2>1. CASE s = v
      <3>1. View'[s] = disk'[s]
        BY <1>5, <2>1 DEF View
      <3> QED
        BY <1>1, <1>6, <2>1, <3>1 DEF IInv, TypeOK
    <2>2. CASE s # v
      <3>1. \A i \in Slot : Holds(i, s)' <=> Holds(i, s)
        BY <1>2, <1>4, <2>2 DEF Holds
      <3>2. CASE Cached(s)
        <4>1. PICK i \in Slot : Holds(i, s)
          BY <3>2 DEF Cached
        <4>2. i # clock
          BY <1>2, <2>2, <4>1 DEF Holds
        <4>3. View[s] = cache[i].buffer /\ View'[s] = cache'[i].buffer
          BY <3>1, <4>1, ViewLemma, ViewLemmaNext DEF IInv, Coherent, ViewFacts
        <4> QED
          BY <1>4, <4>2, <4>3
      <3>3. CASE ~Cached(s)
        <4>1. ~Cached(s)'
          BY <3>1, <3>3 DEF Cached
        <4>2. disk'[s] = disk[s]
          BY <1>6, <2>2 DEF IInv, TypeOK
        <4> QED
          BY <3>3, <4>1, <4>2 DEF View
      <3> QED
        BY <3>2, <3>3
    <2> QED
      BY <2>1, <2>2
  <1>8. View' = View
    BY <1>7, ViewExtensionality
  <1>9. Store!WriteBack(v)
    BY <1>6, <1>8 DEF Store!WriteBack, EvictVictim
  <1> QED
    BY <1>1, <1>9 DEF Store!Next, Store!Sector, Sector

\* Filling a slot from the device leaves the view alone.
LEMMA FillRefines ==
    ASSUME IInv, IInv', Fill
    PROVE  View' = View
  <1>0. slot \in Slot /\ req.sector \in Sector
    BY DEF IInv, TypeOK, CallInv, Fill
  <1>1. Holds(slot, req.sector)' /\ cache'[slot].buffer = disk[req.sector]
    BY <1>0 DEF Fill, FilledEntry, Holds, IInv, TypeOK, Entry
  <1>2. \A i \in Slot : i # slot => cache'[i] = cache[i]
    BY DEF Fill
  <1> SUFFICES ASSUME NEW s \in Sector PROVE View'[s] = View[s]
    BY ViewExtensionality
  <1>3. CASE s = req.sector
    <2>1. View'[s] = cache'[slot].buffer
      BY <1>0, <1>1, <1>3, ViewLemmaNext DEF IInv, Coherent, ViewFacts, Fill
    <2>2. View[s] = disk[s]
      BY <1>3, ViewLemma DEF Fill, IInv, CallInv, Coherent, ViewFacts
    <2> QED
      BY <1>1, <1>3, <2>1, <2>2
  <1>4. CASE s # req.sector
    <2>1. \A i \in Slot : Holds(i, s)' <=> Holds(i, s)
      BY <1>0, <1>1, <1>2, <1>4 DEF Holds, Fill, IInv, CallInv
    <2>2. CASE Cached(s)
      <3>1. PICK i \in Slot : Holds(i, s)
        BY <2>2 DEF Cached
      <3>2. i # slot
        BY <3>1 DEF Holds, Fill, IInv, CallInv
      <3>3. View[s] = cache[i].buffer /\ View'[s] = cache'[i].buffer
        BY <2>1, <3>1, ViewLemma, ViewLemmaNext DEF IInv, Coherent, ViewFacts
      <3> QED
        BY <1>2, <3>2, <3>3
    <2>3. CASE ~Cached(s)
      <3>1. ~Cached(s)'
        BY <2>1, <2>3 DEF Cached
      <3> QED
        BY <2>3, <3>1 DEF View, Fill
    <2> QED
      BY <2>2, <2>3
  <1> QED
    BY <1>3, <1>4

\* Copying the caller's data into the slot changes the view of that sector.
LEMMA CopyInRefines ==
    ASSUME IInv, IInv', CopyIn
    PROVE  Store!Next
  <1>1. slot \in Slot /\ req.sector \in Sector /\ req.data \in Data /\ Holds(slot, req.sector)
    BY DEF IInv, TypeOK, CallInv, CopyIn
  <1>2. \A i \in Slot : /\ cache'[i].occupied = cache[i].occupied
                        /\ cache'[i].disk_sector = cache[i].disk_sector
                        /\ i # slot => cache'[i] = cache[i]
    BY <1>1 DEF CopyIn, WrittenEntry, IInv, TypeOK, Entry
  <1>3. cache'[slot].buffer = req.data /\ slot' = slot /\ req' = req /\ disk' = disk
    BY <1>1 DEF CopyIn, WrittenEntry, IInv, TypeOK, Entry
  <1>4. ASSUME NEW s \in Sector
        PROVE  View'[s] = IF s = req.sector THEN req.data ELSE View[s]
    <2>1. \A i \in Slot : Holds(i, s)' <=> Holds(i, s)
      BY <1>2 DEF Holds
    <2>2. CASE s = req.sector
      <3>1. View'[s] = cache'[slot].buffer
        BY <1>1, <1>3, <2>1, <2>2, ViewLemmaNext DEF IInv, Coherent, ViewFacts
      <3> QED
        BY <1>3, <2>2, <3>1
    <2>3. CASE s # req.sector /\ Cached(s)
      <3>1. PICK i \in Slot : Holds(i, s)
        BY <2>3 DEF Cached
      <3>2. i # slot
        BY <1>1, <2>3, <3>1 DEF Holds
      <3>3. View[s] = cache[i].buffer /\ View'[s] = cache'[i].buffer
        BY <2>1, <3>1, ViewLemma, ViewLemmaNext DEF IInv, Coherent, ViewFacts
      <3> QED
        BY <1>2, <2>3, <3>2, <3>3
    <2>4. CASE s # req.sector /\ ~Cached(s)
      <3>1. ~Cached(s)'
        BY <2>1, <2>4 DEF Cached
      <3> QED
        BY <1>3, <2>4, <3>1 DEF View
    <2> QED
      BY <2>2, <2>3, <2>4
  <1>5. View' = [View EXCEPT ![req.sector] = req.data]
    BY <1>4 DEF View
  <1>6. ret' = [op |-> "write", sector |-> req.sector, data |-> req.data]
    BY DEF CopyIn, IInv, TypeOK
  <1>7. Store!Write(req.sector, req.data)
    BY <1>3, <1>5, <1>6 DEF Store!Write, Store!Answer
  <1> QED
    BY <1>1, <1>7 DEF Store!Next, Store!Sector, Sector

\* Flushing a slot on close is a write-back of its sector or changes nothing.
LEMMA CloseSlotRefines ==
    ASSUME IInv, IInv', CloseSlot
    PROVE  Store!Next \/ UNCHANGED Store!vars
  <1>1. slot \in Slot
    BY CacheAssumption DEF IInv, TypeOK, CloseSlot, Slot
  <1>2. CASE ~cache[slot].occupied
    <2>1. cache' = cache /\ disk' = disk /\ ret' = ret
      BY <1>2 DEF CloseSlot
    <2>2. View' = View
      BY <2>1 DEF View, Cached, Lookup, Holds
    <2> QED
      BY <2>1, <2>2 DEF Store!vars
  <1>3. CASE cache[slot].occupied
    <2>1. PICK v \in Sector : v = cache[slot].disk_sector
      BY <1>1 DEF IInv, TypeOK, Entry
    <2>2. Holds(slot, v)
      BY <1>3, <2>1 DEF Holds
    <2>3. View[v] = cache[slot].buffer
      BY <1>1, <2>2, ViewLemma DEF IInv, Coherent, ViewFacts
    <2>4. disk' = [disk EXCEPT ![v] = View[v]]
      <3>1. disk' = FlushDisk(slot)
        BY <1>3 DEF CloseSlot
      <3>2. CASE cache[slot].dirty
        BY <2>1, <2>3, <3>1, <3>2 DEF FlushDisk
      <3>3. CASE ~cache[slot].dirty
        <4>1. cache[slot].buffer = disk[v]
          BY <1>1, <1>3, <2>1, <3>3 DEF IInv, Coherent, CleanMatchesDisk
        <4> QED
          BY <2>3, <3>1, <3>3, <4>1 DEF FlushDisk, IInv, TypeOK
      <3> QED
        BY <3>2, <3>3
    <2>5. \A i \in Slot : /\ cache'[i].occupied = cache[i].occupied
                          /\ cache'[i].disk_sector = cache[i].disk_sector
                          /\ cache'[i].buffer = cache[i].buffer
      <3>1. cache' = [cache EXCEPT ![slot] = FlushEntry(@)]
        BY <1>3 DEF CloseSlot
      <3> QED
        BY <1>1, <3>1, FlushEntryLemma DEF IInv, TypeOK
    <2>6. \A s \in Sector : ~Cached(s) => disk'[s] = disk[s]
      BY <1>1, <2>2, <2>4 DEF Cached, IInv, TypeOK
    <2>7. View' = View
      BY <2>5, <2>6, SameViewLemma DEF IInv
    <2>8. Store!WriteBack(v)
      BY <2>4, <2>7 DEF Store!WriteBack, CloseSlot
    <2> QED
      BY <2>8 DEF Store!Next, Store!Sector, Sector
  <1> QED
    BY <1>2, <1>3

\* Close answers in a state in which the device shows every sector.
LEMMA CloseDoneRefines ==
    ASSUME IInv, CloseDone
    PROVE  Store!Next
  <1>1. ASSUME NEW s \in Sector PROVE View[s] = disk[s]
    <2>1. CASE Cached(s)
      <3>1. PICK i \in Slot : Holds(i, s)
        BY <2>1 DEF Cached
      <3>2. i < slot
        BY CacheAssumption DEF CloseDone, Slot
      <3>3. cache[i].buffer = disk[s]
        BY <3>1, <3>2 DEF IInv, CallInv, CloseDone, Coherent, CleanMatchesDisk, Holds
      <3> QED
        BY <3>1, <3>3, ViewLemma DEF IInv, Coherent, ViewFacts
    <2>2. CASE ~Cached(s)
      BY <2>2 DEF View
    <2> QED
      BY <2>1, <2>2
  <1>2. View = disk
    BY <1>1 DEF View, IInv, TypeOK
  <1>3. View' = View
    BY DEF CloseDone, View, Cached, Lookup, Holds
  <1>4. Store!Close
    BY <1>2, <1>3 DEF Store!Close, Store!Answer, CloseDone, Answer
  <1> QED
    BY <1>4 DEF Store!Next

\* Every step of the cache is a step of the sector store, or none.
LEMMA NextRefines == IInv /\ IInv' /\ [Next]_vars => [Store!Next]_(Store!vars)
  <1> SUFFICES ASSUME IInv, IInv', [Next]_vars
               PROVE  Store!Next \/ UNCHANGED Store!vars
    OBVIOUS
  <1>1. ASSUME cache' = cache, disk' = disk
        PROVE  View' = View
    BY <1>1 DEF View, Cached, Lookup, Holds
  <1>2. ASSUME NEW op, NEW s, NEW d, Hit(op, s, d) \/ Miss(op, s, d)
        PROVE  UNCHANGED Store!vars
    BY <1>1, <1>2 DEF Hit, Miss, Store!vars
  <1>3. CASE EvictFree \/ StartClose \/ StartRecover \/ UNCHANGED vars
    BY <1>1, <1>3 DEF EvictFree, StartClose, StartRecover, vars, Store!vars
  <1>4. CASE EvictSecondChance
    <2>1. \A i \in Slot : /\ cache'[i].occupied = cache[i].occupied
                          /\ cache'[i].disk_sector = cache[i].disk_sector
                          /\ cache'[i].buffer = cache[i].buffer
      BY <1>4 DEF EvictSecondChance, SecondChance, IInv, TypeOK, Entry
    <2>2. disk' = disk /\ ret' = ret
      BY <1>4 DEF EvictSecondChance
    <2>3. View' = View
      BY <2>1, <2>2, SameViewLemma DEF IInv
    <2> QED
      BY <2>2, <2>3 DEF Store!vars
  <1>5. CASE EvictVictim
    BY <1>5, EvictVictimRefines
  <1>6. CASE Fill
    BY <1>6, FillRefines DEF Fill, Store!vars
  <1>7. CASE CopyOut
    <2>1. slot \in Slot /\ req.sector \in Sector /\ Holds(slot, req.sector)
      BY <1>7 DEF CopyOut, IInv, TypeOK, CallInv
    <2>2. View[req.sector] = cache[slot].buffer
      BY <2>1, ViewLemma DEF IInv, Coherent, ViewFacts
    <2>3. \A i \in Slot : /\ cache'[i].occupied = cache[i].occupied
                          /\ cache'[i].disk_sector = cache[i].disk_sector
                          /\ cache'[i].buffer = cache[i].buffer
      BY <1>7, <2>1 DEF CopyOut, ReadEntry, IInv, TypeOK, Entry
    <2>4. View' = View
      BY <1>7, <2>3, SameViewLemma DEF IInv, CopyOut
    <2>5. Store!Read(req.sector)
      BY <1>7, <2>2, <2>4 DEF CopyOut, Answer, Store!Read, Store!Answer
    <2> QED
      BY <2>1, <2>5 DEF Store!Next, Store!Sector, Sector
  <1>8. CASE CopyIn
    BY <1>8, CopyInRefines
  <1>9. CASE CloseSlot
    BY <1>9, CloseSlotRefines
  <1>10. CASE CloseDone
    BY <1>10, CloseDoneRefines
  <1>11. CASE RecoverSector
    <2>1. View' = View
      BY <1>1, <1>11 DEF RecoverSector
    <2>2. Store!Recover(req.sector)
      BY <1>11, <2>1 DEF RecoverSector, Answer, Store!Recover, Store!Answer
    <2> QED
      BY <2>2 DEF Store!Next, Store!Sector, Sector, IInv, TypeOK
  <1>12. CASE Restart
    <2>1. \A s \in Sector : ~Cached(s)'
      BY <1>12 DEF Restart, InitCache, EmptyEntry, Cached, Holds
    <2>2. View' = disk
      BY <1>12, <2>1 DEF Restart, View, IInv, TypeOK
    <2>3. Store!Restart
      BY <1>12, <2>2 DEF Restart, NoAnswer, Answer, Store!Restart, Store!NoAnswer, Store!Answer
    <2> QED
      BY <2>3 DEF Store!Next
  <1> QED
    BY <1>2, <1>3, <1>4, <1>5, <1>6, <1>7, <1>8, <1>9, <1>10, <1>11, <1>12
    DEF Next, Internal

\* The buffer cache implements the sector store of SectorStore for every number
\* of slots and sectors: what buffer_cache_read returns is what was last
\* written, and what a restart can lose is exactly what has not reached the
\* device.
THEOREM CacheImplementsStore == Spec => ImplementsSectorStore
  BY InitRefines, NextRefines, CacheInvariant, PTL
  DEF Spec, ImplementsSectorStore, Store!Spec
================================================================================
