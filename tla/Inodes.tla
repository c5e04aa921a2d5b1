--------------------------------- MODULE Inodes --------------------------------
(***************************************************************************)
(* Inodes and the free map (a3/fs/inode.c, free-map.c, bitmap.c): how the  *)
(* sectors of a file are found, taken and given back.                      *)
(*                                                                         *)
(* A path says where in an inode's tree of pointers a sector hangs:        *)
(*    <<i>>       pointer i of the inode: DIRECT_BLOCKS_COUNT direct       *)
(*                blocks, then the indirect and the doubly indirect block  *)
(*    <<i, a>>    entry a of the block at <<i>>                            *)
(*    <<i, a, b>> entry b of the block at <<i, a>>                         *)
(* inode_reserve allocates in the lexicographic order of the paths, a      *)
(* block before its entries, always the first free sector.                 *)
(*                                                                         *)
(* A file system fs is a record of the free map, fs.map, the set of marked *)
(* sectors, and the contents of the sectors, fs.at.  What users write into *)
(* their files is left out; the sectors that matter hold inodes and blocks *)
(* of pointers.                                                            *)
(***************************************************************************)
EXTENDS Integers, FiniteSets, SequencesExt

CONSTANTS
    DeviceSize,                     \* sectors of the device
    BLOCK_SECTOR_SIZE,              \* bytes of a sector
    DIRECT_BLOCKS_COUNT,            \* direct blocks of an inode
    INDIRECT_BLOCKS_PER_SECTOR      \* pointers in a sector

FREE_MAP_SECTOR == 0
ROOT_DIR_SECTOR == 1

Sector == 0 .. DeviceSize - 1

\* free_map_init makes the map one bit shorter than the device.
Bits == 0 .. DeviceSize - 2

Entries == 0 .. INDIRECT_BLOCKS_PER_SECTOR - 1

Pointers == 0 .. DIRECT_BLOCKS_COUNT + 1

MaxSectors == DIRECT_BLOCKS_COUNT + INDIRECT_BLOCKS_PER_SECTOR
              + INDIRECT_BLOCKS_PER_SECTOR * INDIRECT_BLOCKS_PER_SECTOR

ASSUME InodeAssumption ==
    {DeviceSize, BLOCK_SECTOR_SIZE, DIRECT_BLOCKS_COUNT, INDIRECT_BLOCKS_PER_SECTOR}
        \subseteq Nat \ {0}

Zeros == [kind |-> "zeros"]

Block(b) == [kind |-> "block", blocks |-> b]

Inode(ptr, length) == [kind |-> "inode", ptr |-> ptr, length |-> length]

NoPointers == [i \in Pointers |-> 0]

--------------------------------------------------------------------------------
(***************************************************************************)
(* Paths.                                                                  *)
(***************************************************************************)

bytes_to_sectors(size) == (size + BLOCK_SECTOR_SIZE - 1) \div BLOCK_SECTOR_SIZE

\* The path of the sector with this index in the file.
DataPath(index) ==
    LET D == DIRECT_BLOCKS_COUNT
        P == INDIRECT_BLOCKS_PER_SECTOR
        k == index - D - P
    IN IF index < D THEN <<index>>
       ELSE IF index < D + P THEN <<D, index - D>>
       ELSE <<D + 1, k \div P, k % P>>

\* All paths of a file of n sectors: those of its data and of the blocks on the
\* way.
PathsOf == [n \in 0 .. MaxSectors |->
               UNION {{SubSeq(DataPath(k), 1, l) : l \in 1 .. Len(DataPath(k))} :
                         k \in 0 .. n - 1}]

Paths(n) == PathsOf[IF n < MaxSectors THEN n ELSE MaxSectors]

\* Two paths agree down to this depth.
Agree(p, q, l) == \A i \in 1 .. l : p[i] = q[i]

\* The paths that are served before p: the blocks on the way to it, and what
\* hangs at a smaller index of one of them.
Before == [p \in Paths(MaxSectors) |->
              {q \in Paths(MaxSectors) :
                  \/ Len(q) < Len(p) /\ Agree(p, q, Len(q))
                  \/ \E l \in DOMAIN p \cap DOMAIN q :
                        q[l] < p[l] /\ Agree(p, q, l - 1)}]

\* The path of a block of pointers.
IsBlock(p) == \/ p = <<DIRECT_BLOCKS_COUNT>>
              \/ p[1] = DIRECT_BLOCKS_COUNT + 1 /\ Len(p) < 3

\* The pointers in a sector, when the sector of zeros or none is read as a block.
BlocksAt(at, s) ==
    IF s # 0 /\ at[s].kind = "block" THEN at[s].blocks ELSE [a \in Entries |-> 0]

\* The sector at a path, or 0.  For the path of an index: index_to_sector.
SectorAt(at, ptr, p) ==
    CASE Len(p) = 1 -> ptr[p[1]]
      [] Len(p) = 2 -> BlocksAt(at, ptr[p[1]])[p[2]]
      [] Len(p) = 3 -> BlocksAt(at, BlocksAt(at, ptr[p[1]])[p[2]])[p[3]]

index_to_sector(at, ptr, index) == SectorAt(at, ptr, DataPath(index))

--------------------------------------------------------------------------------
(***************************************************************************)
(* Taking sectors and giving them back.                                    *)
(***************************************************************************)

\* bitmap_scan_and_flip for one bit.
FirstFree(map) == CHOOSE s \in Bits \ map : \A t \in Bits \ map : s <= t

\* The sectors that the lacking paths are given, in order, as far as there are
\* free ones.
Given(map, lacking) ==
    LET Rank(p) == Cardinality(lacking \cap Before[p])
    IN [p \in {q \in lacking : Rank(q) < Cardinality(Bits \ map)} |->
           CHOOSE s \in Bits \ map : s = Rank(p) + Cardinality({t \in map : t < s})]

\* Every given sector is filled with zeros.  A block is written back only when
\* all its entries have been served.  When a block itself finds no sector, the
\* failure is not noticed and the zeros go to sector 0.
Reserved(fs, ptr, paths, lacking, given) ==
    LET served == DOMAIN given
        unserved == lacking \ served
        New(p) == IF p \in served THEN given[p] ELSE SectorAt(fs.at, ptr, p)
        Entry(p, a) == IF Append(p, a) \in served THEN given[Append(p, a)]
                       ELSE IF p \in served THEN 0
                       ELSE SectorAt(fs.at, ptr, Append(p, a))
        written == {p \in paths : /\ IsBlock(p)
                                  /\ \A q \in unserved : ~IsPrefix(p, q)}
        taken == {given[p] : p \in served}
        failing == {p \in unserved : IsBlock(p) /\ unserved \cap Before[p] = {}}
    IN [ok |-> unserved = {},
        fs |-> [map |-> fs.map \cup taken,
                at |-> [s \in Sector |->
                           IF s \in {New(p) : p \in written}
                           THEN LET p == CHOOSE p \in written : New(p) = s
                                IN Block([a \in Entries |-> Entry(p, a)])
                           ELSE IF s \in taken \cup {0 : p \in failing} THEN Zeros
                           ELSE fs.at[s]]],
        ptr |-> [i \in Pointers |-> IF <<i>> \in served THEN given[<<i>>] ELSE ptr[i]]]

\* inode_reserve for n sectors, starting from the pointers ptr: its answer, the
\* file system and the pointers it leaves behind.  A file that asks for more
\* than an inode can hold is served as far as that goes, and refused.
inode_reserve(fs, ptr, n) ==
    LET lacking == {p \in Paths(n) : SectorAt(fs.at, ptr, p) = 0}
        r == Reserved(fs, ptr, Paths(n), lacking, Given(fs.map, lacking))
    IN [r EXCEPT !.ok = @ /\ n <= MaxSectors]

\* The sectors a file of this length has, blocks included.
SectorsOf(at, ptr, length) ==
    {SectorAt(at, ptr, p) : p \in Paths(bytes_to_sectors(length))}

\* Slips to compare with: the blocks of pointers stay marked; one index too many is
\* released.
DeallocatedDataOnly(at, ptr, length) ==
    {index_to_sector(at, ptr, k) : k \in 0 .. bytes_to_sectors(length) - 1}

DeallocatedOneMore(at, ptr, length) ==
    {SectorAt(at, ptr, p) : p \in Paths(bytes_to_sectors(length) + 1)}

\* What inode_deallocate releases.
Deallocated(at, ptr, length) == SectorsOf(at, ptr, length)

free_map_release(fs, sectors) == [fs EXCEPT !.map = @ \ sectors]

================================================================================
