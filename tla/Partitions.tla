------------------------------- MODULE Partitions ------------------------------
(***************************************************************************)
(* From the disk image to the device of the file system (a3/fs/ide.c,      *)
(* block.c, partition.c, with free_map_init): the image is registered as a *)
(* block device, its partition table is scanned, each partition found      *)
(* becomes a device in turn, and the device registered last is the one     *)
(* that filesys_init takes and that all sectors are read from and written  *)
(* to.                                                                     *)
(*                                                                         *)
(* The scan reads the table in sector 0 at every depth, whatever sector it *)
(* was called for, so the table there is all of the disk that counts.      *)
(***************************************************************************)
EXTENDS Integers, Sequences, SequencesExt

CONSTANTS
    DeviceSize,     \* sectors of the image at first
    Word,           \* sector numbers are reduced modulo this, 2^32 in the code
    Reach,          \* byte offsets of the image modulo this many sectors, 2^23
    Tables,         \* the partition tables to start from: sequences of entries
    MaxDepth        \* calls of read_partition_table that fit on the stack

ASSUME PartitionsAssumption ==
    /\ {DeviceSize, Word, Reach, MaxDepth} \subseteq Nat
    /\ 1 <= DeviceSize /\ DeviceSize <= Reach /\ Reach < Word
    /\ MaxDepth > 3

\* The fields of an entry are words of the disk.
EntryType == [type : {"empty", "extended", "primary"},
              offset : 0 .. Word - 1,
              size : 0 .. Word - 1]

ASSUME TablesAssumption == Tables \subseteq Seq(EntryType)

VARIABLES
    mbr,            \* sector 0: its partition table, or NoTable
    image,          \* the length of the image file in sectors
    disk_size,      \* the length it had when it was registered
    calls,          \* the calls of read_partition_table that have not returned
    hard_drive,     \* the device registered last: whether it is a partition,
                    \* its first sector and its size
    mode            \* "scan", "files" or "overflow"

vars == <<mbr, image, disk_size, calls, hard_drive, mode>>

\* A sector without the signature of a partition table.
NoTable == <<>>

\* A call, and the entry it has come to; 0 before the table is read.
Call(sector, extended) == [sector |-> sector, primary_extended_sector |-> extended, i |-> 0]

\* identify_ata_device: the whole image, not a partition.
Disk(size) == [partition |-> FALSE, start |-> 0, size |-> size]

Init == /\ mbr \in Tables \cup {NoTable}
        /\ image = DeviceSize
        /\ disk_size = DeviceSize
        /\ calls = <<Call(0, 0)>>
        /\ hard_drive = Disk(DeviceSize)
        /\ mode = "scan"

--------------------------------------------------------------------------------
(***************************************************************************)
(* Scanning.                                                               *)
(***************************************************************************)

Top == calls[Len(calls)]

\* A slip to compare with: the sector behind the last one passes.
PastEndByOne(sector) == sector > disk_size

PastEnd(sector) == sector >= disk_size

\* read_partition_table up to its loop: it returns when its sector is past the end
\* or the signature is wrong.
ReadTable == /\ mode = "scan"
             /\ calls # <<>>
             /\ Top.i = 0
             /\ calls' = IF PastEnd(Top.sector) \/ mbr = NoTable
                         THEN Front(calls)
                         ELSE [calls EXCEPT ![Len(calls)].i = 1]
             /\ UNCHANGED <<mbr, image, disk_size, hard_drive, mode>>

InLoop == mode = "scan" /\ calls # <<>> /\ Top.i \in 1 .. Len(mbr)

Entry == mbr[Top.i]

\* An entry without a size counts as empty, whatever its type.
IsA(entry, type) == type = IF entry.size = 0 THEN "empty" ELSE entry.type

Advanced == [calls EXCEPT ![Len(calls)].i = @ + 1]

SkipEmpty == /\ InLoop
             /\ IsA(Entry, "empty")
             /\ calls' = Advanced
             /\ UNCHANGED <<mbr, image, disk_size, hard_drive, mode>>

\* The table of an extended partition is looked for where the entry says, from the
\* beginning in the top-level table, else from the first extended partition on.
Nested(call, entry) ==
    IF call.sector = 0 THEN Call(entry.offset, entry.offset)
    ELSE Call((entry.offset + call.primary_extended_sector) % Word, call.primary_extended_sector)

Extended == /\ InLoop
            /\ IsA(Entry, "extended")
            /\ IF Len(calls) < MaxDepth
               THEN calls' = Append(Advanced, Nested(Top, Entry)) /\ UNCHANGED mode
               ELSE mode' = "overflow" /\ UNCHANGED calls
            /\ UNCHANGED <<mbr, image, disk_size, hard_drive>>

\* found_partition: a partition must start and end on the device.
Fits(start, size) == /\ ~PastEnd(start)
                     /\ (start + size) % Word >= start
                     /\ (start + size) % Word <= disk_size

Partition(start, size) == [partition |-> TRUE, start |-> start, size |-> size]

\* found_partition and block_register.
Primary == /\ InLoop
           /\ IsA(Entry, "primary")
           /\ \E start \in {(Entry.offset + Top.sector) % Word} :
                 hard_drive' = IF Fits(start, Entry.size) THEN Partition(start, Entry.size)
                               ELSE hard_drive
           /\ calls' = Advanced
           /\ UNCHANGED <<mbr, image, disk_size, mode>>

TableDone == /\ mode = "scan"
             /\ calls # <<>>
             /\ Top.i > Len(mbr)
             /\ mbr # NoTable
             /\ calls' = Front(calls)
             /\ UNCHANGED <<mbr, image, disk_size, hard_drive, mode>>

\* ide_init returns and filesys_init takes the device.
ScanDone == /\ mode = "scan"
            /\ calls = <<>>
            /\ mode' = "files"
            /\ UNCHANGED <<mbr, image, disk_size, calls, hard_drive>>

--------------------------------------------------------------------------------
(***************************************************************************)
(* The sectors of the file system.                                         *)
(***************************************************************************)

\* A slip to compare with: the free map has a bit for every sector of the device.
FileSectorsAll(drive) == {0, 1} \cup 0 .. drive.size - 1

\* The sectors that are read and written: those the free map has bits for, which are
\* all but the last one, and the first two, where the inodes of the free map and of
\* the root directory are, whatever the size.
FileSectors(drive) == {0, 1} \cup 0 .. drive.size - 2

\* A slip to compare with: sectors count from the start of the partition.
PhysicalFromStart(drive, sector) ==
    (IF drive.partition THEN (drive.start + sector) % Word ELSE sector) % Reach

\* partition_read, partition_write: the first sector of a partition is left alone.
\* ide_read, ide_write: the byte offset is a word, too.
Physical(drive, sector) ==
    (IF drive.partition THEN (drive.start + sector + 1) % Word ELSE sector) % Reach

\* block_write.  A sector that check_sector finds past the end of the device, or of the
\* image, is written all the same: PANIC prints a line and returns.  The image then
\* becomes longer.  What the file system keeps in the sectors 0 and 1 is no partition
\* table: an inode has no such signature.
Write(sector) == /\ mode = "files"
                 /\ \E place \in {Physical(hard_drive, sector)} :
                       /\ mbr' = IF place = 0 THEN NoTable ELSE mbr
                       /\ image' = IF place < image THEN image ELSE place + 1
                 /\ UNCHANGED <<disk_size, calls, hard_drive, mode>>

\* The shell ends and is started again on the same image, which is registered with
\* the length it has then.
Restart == /\ mode = "files"
           /\ mode' = "scan"
           /\ calls' = <<Call(0, 0)>>
           /\ disk_size' = image
           /\ hard_drive' = Disk(image)
           /\ UNCHANGED <<mbr, image>>

Scan == ReadTable \/ SkipEmpty \/ Extended \/ Primary \/ TableDone \/ ScanDone

Next == \/ Scan
        \/ \E sector \in FileSectors(hard_drive) : Write(sector)
        \/ Restart

Spec == Init /\ [][Next]_vars

\* The scan waits for nothing.
FairSpec == Spec /\ WF_vars(Scan)

--------------------------------------------------------------------------------
(***************************************************************************)
(* Properties.                                                             *)
(***************************************************************************)

\* A device without room for the two inodes: a partition has to have a third sector,
\* for the one that is skipped.
Tiny(drive) == drive.size < IF drive.partition THEN 3 ELSE 2

\* On a device that is not tiny, every sector the file system may use has a place of
\* its own on the image: no access is past the end, no two sectors share a place, and
\* under a partition all places are inside it.  It is the free map, one bit short,
\* that makes up for the sector that partition_read and partition_write skip.
FilesStayInside ==
    mode = "files" /\ ~Tiny(hard_drive) =>
       \A s, t \in FileSectors(hard_drive) :
          /\ Physical(hard_drive, s) \in hard_drive.start .. hard_drive.start + hard_drive.size - 1
          /\ Physical(hard_drive, s) < image
          /\ Physical(hard_drive, s) = Physical(hard_drive, t) => s = t

\* The partitions a table speaks of, in the order of the entries: its own, and the
\* same ones again from the start of each extended partition on the device.
Candidates(table, size) ==
    FlattenSeq([i \in DOMAIN table |->
        IF IsA(table[i], "primary") THEN << [start |-> table[i].offset, size |-> table[i].size] >>
        ELSE IF IsA(table[i], "extended") /\ table[i].offset < size
        THEN LET own == SelectSeq(table, LAMBDA e : IsA(e, "primary"))
             IN [j \in DOMAIN own |-> [start |-> (own[j].offset + table[i].offset) % Word,
                                       size |-> own[j].size]]
        ELSE <<>>])

\* The last of them that is on an image of this size, or the whole image.
LastOnDevice(table, size) ==
    LET valid == SelectSeq(Candidates(table, size), LAMBDA c : c.start + c.size <= size)
    IN IF valid = <<>> THEN Disk(size)
       ELSE Partition(valid[Len(valid)].start, valid[Len(valid)].size)

\* The scan calls itself without end: an extended partition is at sector 0, or the
\* sum of two of their offsets (or twice the same) is again on the device.
Endless(table) ==
    LET offsets == {table[i].offset : i \in {k \in DOMAIN table : IsA(table[k], "extended")}}
    IN \E e, f \in offsets : e < disk_size /\ (e = 0 \/ (e + f) % Word < disk_size)

\* The scan finds the last partition of the table that is on the device, or the whole
\* image if there is none.  On a device that is not tiny this is still so after any
\* writes: a later start finds the same device again.
DriveIsLastCandidate ==
    /\ mode = "scan" /\ calls = <<>> => hard_drive = LastOnDevice(mbr, disk_size)
    /\ mode = "files" /\ ~Tiny(hard_drive) => hard_drive = LastOnDevice(mbr, image)

\* The scan ends, without exhausting the stack, for every table that does not make
\* it endless.
ScanEnds == (mode = "scan" /\ ~Endless(mbr)) ~> (mode = "files")

================================================================================
