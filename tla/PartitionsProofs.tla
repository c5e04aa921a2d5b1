---------------------------- MODULE PartitionsProofs ---------------------------
(***************************************************************************)
(* Proofs about Partitions for every size of the image and every partition *)
(* table: whatever the scan makes of the table, on a device that is not    *)
(* tiny the sectors the file system uses have places of their own.         *)
(***************************************************************************)
EXTENDS Partitions, SequenceTheorems, TLAPS

\* A call of read_partition_table.
CallType == [sector : 0 .. Word - 1, primary_extended_sector : 0 .. Word - 1, i : Nat]

TypeInv == /\ mbr \in Seq(EntryType)
           /\ image \in Nat
           /\ disk_size \in Nat
           /\ calls \in Seq(CallType)
           /\ hard_drive \in [partition : BOOLEAN, start : Nat, size : Nat]
           /\ mode \in {"scan", "files", "overflow"}

\* The device registered last is on the image, as long as that was when it was
\* registered, and unless it is a partition it is that image.  Whatever is written,
\* the image becomes no shorter, and no longer than byte offsets reach.
DriveInv == /\ hard_drive.start + hard_drive.size <= disk_size
            /\ ~hard_drive.partition => hard_drive = Disk(disk_size)
            /\ 1 <= disk_size
            /\ disk_size <= image
            /\ image <= Reach

IInv == TypeInv /\ DriveInv

--------------------------------------------------------------------------------
\* Reducing a sum of two words modulo Word subtracts Word once or not at all.
LEMMA WordLemma ==
    ASSUME NEW a \in 0 .. Word - 1, NEW b \in 0 .. Word - 1
    PROVE  /\ (a + b) % Word \in 0 .. Word - 1
           /\ a + b < Word => (a + b) % Word = a + b
           /\ a + b >= Word => (a + b) % Word = a + b - Word
  <1>1. Word \in Nat /\ Word > 0
    BY PartitionsAssumption
  <1> QED
    BY <1>1

\* A partition that passes the checks of found_partition ends on the device: the
\* comparison with its start catches a sum that wraps around.
LEMMA FitsLemma ==
    ASSUME disk_size \in Nat,
           NEW start \in 0 .. Word - 1, NEW size \in 0 .. Word - 1, Fits(start, size)
    PROVE  start + size <= disk_size
  <1>1. Word \in Nat
    BY PartitionsAssumption
  <1>2. /\ (start + size) % Word >= start
        /\ (start + size) % Word <= disk_size
    BY DEF Fits
  <1>3. CASE start + size < Word
    BY <1>1, <1>2, <1>3, WordLemma
  <1>4. CASE start + size >= Word
    BY <1>1, <1>2, <1>4, WordLemma
  <1> QED
    BY <1>1, <1>3, <1>4

\* A place is a place that byte offsets reach.
LEMMA ReachLemma ==
    ASSUME TypeInv, NEW s \in FileSectors(hard_drive)
    PROVE  Physical(hard_drive, s) \in 0 .. Reach - 1
  <1>1. Reach \in Nat /\ Reach > 0 /\ Word \in Nat /\ Word > 0
    BY PartitionsAssumption
  <1>2. s \in Nat /\ hard_drive.start \in Nat
    BY DEF FileSectors, TypeInv
  <1>3. (hard_drive.start + s + 1) % Word \in Nat
    BY <1>1, <1>2
  <1>4. \A x \in Nat : x % Reach \in 0 .. Reach - 1
    BY <1>1
  <1> QED
    BY <1>2, <1>3, <1>4 DEF Physical

\* The place of a sector of the file system is the sector itself on the image, and
\* one behind the start of a partition and that sector inside one, unless the device
\* is tiny.
LEMMA PhysicalLemma ==
    ASSUME TypeInv, DriveInv, ~Tiny(hard_drive), NEW s \in FileSectors(hard_drive)
    PROVE  /\ s \in Nat
           /\ s < hard_drive.size - IF hard_drive.partition THEN 1 ELSE 0
           /\ Physical(hard_drive, s) = IF hard_drive.partition THEN hard_drive.start + s + 1 ELSE s
  <1>1. /\ Word \in Nat /\ Reach \in Nat /\ Reach < Word
    BY PartitionsAssumption
  <1>2. PICK start \in Nat, size \in Nat : start = hard_drive.start /\ size = hard_drive.size
    BY DEF TypeInv
  <1>3. PICK end \in Nat : end = disk_size /\ end <= Reach /\ start + size <= end
    BY <1>1, <1>2 DEF TypeInv, DriveInv
  <1>4. s \in {0, 1} \cup 0 .. size - 2
    BY <1>2 DEF FileSectors
  <1>5. CASE hard_drive.partition
    <2>1. size >= 3
      BY <1>2, <1>5 DEF Tiny
    <2>2. s \in Nat /\ s < size - 1
      BY <1>4, <2>1
    <2>3. start + s + 1 \in Nat /\ start + s + 1 < Reach /\ start + s + 1 < Word
      BY ONLY <1>1, <1>3, <2>2
    <2>4. \A x \in Nat : x < Word => x % Word = x
      BY <1>1
    <2>5. \A x \in Nat : x < Reach => x % Reach = x
      BY <1>1
    <2>6. ((start + s + 1) % Word) % Reach = start + s + 1
      BY <2>3, <2>4, <2>5
    <2> QED
      BY <1>2, <1>5, <2>2, <2>6 DEF Physical
  <1>6. CASE ~hard_drive.partition
    <2>1. size >= 2
      BY <1>2, <1>6 DEF Tiny
    <2>2. s \in Nat /\ s < size - 0
      BY <1>4, <2>1
    <2>3. s < Reach
      BY ONLY <1>1, <1>3, <2>2
    <2>4. s % Reach = s
      BY <1>1, <2>2, <2>3
    <2> QED
      BY <1>2, <1>6, <2>2, <2>4 DEF Physical
  <1> QED
    BY <1>5, <1>6

--------------------------------------------------------------------------------
LEMMA CallLemma ==
    ASSUME NEW sector \in 0 .. Word - 1, NEW extended \in 0 .. Word - 1
    PROVE  Call(sector, extended) \in CallType
  BY DEF Call, CallType

LEMMA InitIInv == Init => IInv
  <1> SUFFICES ASSUME Init PROVE IInv
    OBVIOUS
  <1>1. /\ Word \in Nat /\ DeviceSize \in Nat /\ Reach \in Nat
        /\ 1 <= DeviceSize /\ DeviceSize <= Reach /\ Reach < Word
    BY PartitionsAssumption
  <1>2. mbr \in Seq(EntryType)
    <2>1. NoTable \in Seq(EntryType)
      BY DEF NoTable
    <2> QED
      BY <2>1, TablesAssumption DEF Init
  <1>3. calls \in Seq(CallType)
    BY <1>1, CallLemma DEF Init
  <1> QED
    BY <1>1, <1>2, <1>3 DEF Init, IInv, TypeInv, DriveInv, Disk

\* The calls that have not returned stay calls.
LEMMA CallsLemma ==
    ASSUME TypeInv, calls # <<>>
    PROVE  /\ Top \in CallType
           /\ Front(calls) \in Seq(CallType)
           /\ [calls EXCEPT ![Len(calls)].i = 1] \in Seq(CallType)
           /\ Advanced \in Seq(CallType)
  <1>1. Len(calls) \in DOMAIN calls /\ Len(calls) \in Nat /\ DOMAIN calls = 1 .. Len(calls)
    BY DEF TypeInv
  <1>2. Top \in CallType
    BY <1>1 DEF TypeInv, Top
  <1>3. Front(calls) \in Seq(CallType)
    BY <1>1 DEF TypeInv, Front
  <1>4. \A c \in CallType : [c EXCEPT !.i = 1] \in CallType /\ [c EXCEPT !.i = @ + 1] \in CallType
    BY DEF CallType
  <1>5. \A c \in CallType : [calls EXCEPT ![Len(calls)] = c] \in Seq(CallType)
    BY <1>1, ExceptSeq DEF TypeInv
  <1> QED
    BY <1>2, <1>3, <1>4, <1>5 DEF Advanced, Top

--------------------------------------------------------------------------------
LEMMA NextIInv == IInv /\ [Next]_vars => IInv'
  <1> SUFFICES ASSUME IInv, [Next]_vars PROVE IInv'
    OBVIOUS
  <1> USE DEF IInv
  <1>0. /\ Word \in Nat /\ Reach \in Nat /\ Reach < Word
    BY PartitionsAssumption
  <1>1. CASE ReadTable
    <2>1. calls' \in Seq(CallType)
      BY <1>1, CallsLemma DEF ReadTable
    <2> QED
      BY <1>1, <2>1 DEF ReadTable, TypeInv, DriveInv
  <1>2. CASE SkipEmpty
    <2>1. calls' \in Seq(CallType)
      BY <1>2, CallsLemma DEF SkipEmpty, InLoop
    <2> QED
      BY <1>2, <2>1 DEF SkipEmpty, TypeInv, DriveInv
  <1>3. CASE Extended
    <2>1. Top \in CallType /\ Advanced \in Seq(CallType)
      BY <1>3, CallsLemma DEF Extended, InLoop
    <2>2. Entry \in EntryType
      BY <1>3 DEF Extended, InLoop, Entry, TypeInv
    <2>3. Nested(Top, Entry) \in CallType
      <3>1. /\ Top.sector \in 0 .. Word - 1 /\ Top.primary_extended_sector \in 0 .. Word - 1
            /\ Entry.offset \in 0 .. Word - 1
        BY <2>1, <2>2 DEF CallType, EntryType
      <3>2. (Entry.offset + Top.primary_extended_sector) % Word \in 0 .. Word - 1
        BY <3>1, WordLemma
      <3> QED
        BY <3>1, <3>2, CallLemma DEF Nested
    <2>4. calls' \in Seq(CallType) /\ mode' \in {"scan", "overflow"}
      <3>1. Append(Advanced, Nested(Top, Entry)) \in Seq(CallType)
        BY <2>1, <2>3, AppendProperties
      <3> QED
        BY <1>3, <3>1 DEF Extended, InLoop, TypeInv
    <2> QED
      BY <1>3, <2>4 DEF Extended, TypeInv, DriveInv
  <1>4. CASE Primary
    <2>0. disk_size' = disk_size /\ image' = image
      BY <1>4 DEF Primary
    <2>1. Top \in CallType /\ Advanced \in Seq(CallType)
      BY <1>4, CallsLemma DEF Primary, InLoop
    <2>2. Entry \in EntryType
      BY <1>4 DEF Primary, InLoop, Entry, TypeInv
    <2>3. PICK start \in {(Entry.offset + Top.sector) % Word} :
             hard_drive' = IF Fits(start, Entry.size) THEN Partition(start, Entry.size)
                           ELSE hard_drive
      BY <1>4 DEF Primary
    <2>4. start \in 0 .. Word - 1 /\ Entry.size \in 0 .. Word - 1
      BY <2>1, <2>2, WordLemma DEF CallType, EntryType
    <2>5. hard_drive' \in [partition : BOOLEAN, start : Nat, size : Nat] /\ DriveInv'
      <3>1. CASE Fits(start, Entry.size)
        <4>1. start + Entry.size <= disk_size
          BY <2>4, <3>1, FitsLemma DEF TypeInv
        <4> QED
          BY <2>0, <2>3, <2>4, <3>1, <4>1 DEF Partition, DriveInv
      <3>2. CASE ~Fits(start, Entry.size)
        BY <2>0, <2>3, <3>2 DEF DriveInv, TypeInv, Disk
      <3> QED
        BY <3>1, <3>2
    <2> QED
      BY <1>4, <2>1, <2>5 DEF Primary, TypeInv
  <1>5. CASE TableDone
    <2>1. calls' \in Seq(CallType)
      BY <1>5, CallsLemma DEF TableDone
    <2> QED
      BY <1>5, <2>1 DEF TableDone, TypeInv, DriveInv
  <1>6. CASE ScanDone
    BY <1>6 DEF ScanDone, TypeInv, DriveInv
  <1>7. ASSUME NEW sector \in FileSectors(hard_drive), Write(sector) PROVE IInv'
    <2>1. PICK place \in {Physical(hard_drive, sector)} :
             /\ mbr' = IF place = 0 THEN NoTable ELSE mbr
             /\ image' = IF place < image THEN image ELSE place + 1
      BY <1>7 DEF Write
    <2>2. place \in 0 .. Reach - 1
      BY <2>1, ReachLemma
    <2>3. image' \in Nat /\ image <= image' /\ image' <= Reach
      BY <1>0, <2>1, <2>2 DEF TypeInv, DriveInv
    <2>4. mbr' \in Seq(EntryType)
      BY <2>1 DEF NoTable, TypeInv
    <2> QED
      BY <1>7, <2>3, <2>4 DEF Write, TypeInv, DriveInv, Disk
  <1>8. CASE Restart
    <2>1. calls' \in Seq(CallType)
      BY <1>0, <1>8, CallLemma DEF Restart
    <2> QED
      BY <1>0, <1>8, <2>1 DEF Restart, TypeInv, DriveInv, Disk
  <1>9. CASE UNCHANGED vars
    BY <1>9 DEF vars, TypeInv, DriveInv
  <1> QED
    BY <1>1, <1>2, <1>3, <1>4, <1>5, <1>6, <1>7, <1>8, <1>9 DEF Next, Scan

\* The scan keeps its types and registers only devices that are on the image, and
\* writes leave them there (found_partition, block_write).
THEOREM PartitionsInvariant == Spec => []IInv
  BY InitIInv, NextIInv, PTL DEF Spec

\* On every device but a tiny one, every sector that is read or written, the two of
\* the free map's and the root directory's inodes among them, has its own place on
\* the image, inside the partition if there is one: for every size of the image,
\* every table and every width of sector numbers.
THEOREM PartitionsFilesStayInside == Spec => []FilesStayInside
  <1>1. IInv => FilesStayInside
    <2> SUFFICES ASSUME IInv, ~Tiny(hard_drive),
                        NEW s \in FileSectors(hard_drive), NEW t \in FileSectors(hard_drive)
                 PROVE  /\ Physical(hard_drive, s)
                              \in hard_drive.start .. hard_drive.start + hard_drive.size - 1
                        /\ Physical(hard_drive, s) < image
                        /\ Physical(hard_drive, s) = Physical(hard_drive, t) => s = t
      BY DEF FilesStayInside
    <2>1. PICK start \in Nat, size \in Nat : start = hard_drive.start /\ size = hard_drive.size
      BY DEF IInv, TypeInv
    <2>2. \A r \in {s, t} : /\ r \in Nat
                            /\ r < size - IF hard_drive.partition THEN 1 ELSE 0
                            /\ Physical(hard_drive, r) =
                                  IF hard_drive.partition THEN start + r + 1 ELSE r
      BY <2>1, PhysicalLemma DEF IInv
    <2>3. start + size <= image /\ image \in Nat
      BY <2>1 DEF IInv, DriveInv, TypeInv
    <2>4. ~hard_drive.partition => start = 0
      BY <2>1 DEF IInv, DriveInv, Disk
    <2>5. CASE hard_drive.partition
      BY <2>1, <2>2, <2>3, <2>5
    <2>6. CASE ~hard_drive.partition
      BY <2>1, <2>2, <2>3, <2>4, <2>6
    <2> QED
      BY <2>5, <2>6
  <1> QED
    BY <1>1, PartitionsInvariant, PTL

================================================================================
