------------------------------- MODULE FileSystem ------------------------------
(***************************************************************************)
(* The file system and the file commands of the shell (a3/fs/filesys.c,    *)
(* directory.c, file.c, fsutil.c, fsutil2.c over inode.c): one directory,  *)
(* a list of open inodes and a table of open files.  The program is        *)
(* single-threaded, and a command is one action; what is hard is the state *)
(* a command that fails half-way, or finds its inode already open, leaves  *)
(* for the commands after it.                                              *)
(*                                                                         *)
(* Every change of the free map is written to its file at once, so the map *)
(* is kept once.  The directory's entries are kept apart from the sectors  *)
(* that hold them.                                                         *)
(***************************************************************************)
EXTENDS Inodes

CONSTANTS
    Name,                       \* the file names
    NoName,                     \* the name of an entry that was never used
    Size,                       \* the sizes in bytes that users ask for
    MAX_FILES_IN_DIRECTORY,     \* entries of a new directory
    EntrySize,                  \* bytes of a directory entry
    FreeMapSize,                \* bytes of the free map
    MaxLength,                  \* bound: no file is asked to grow further
    MaxLost,                    \* bound: create is repeated while less is lost
    MaxOpen                     \* bound: no more files are opened at a time

ASSUME FileSystemAssumption ==
    /\ Size \subseteq Nat
    /\ {MAX_FILES_IN_DIRECTORY, EntrySize, FreeMapSize} \subseteq Nat \ {0}
    /\ MaxLength \in Nat
    /\ MaxLost \in Nat
    /\ MaxOpen \in Nat \ {0}

VARIABLES
    fs,         \* the free map and the sectors
    dir,        \* the entries of the root directory
    open,       \* the inodes of open_inodes, by sector
    table,      \* file_table: inode, position, and whether the inode still exists
    lost,       \* history: the sectors that a failing command has taken
    outcome     \* history: what the last command was asked to change, and its result

vars == <<fs, dir, open, table, lost, outcome>>

Without(f, x) == [y \in DOMAIN f \ {x} |-> f[y]]

With(f, x, v) == [y \in DOMAIN f \cup {x} |-> IF y = x THEN v ELSE f[y]]

Joined(f, g) == [y \in DOMAIN f \cup DOMAIN g |-> IF y \in DOMAIN f THEN f[y] ELSE g[y]]

NoEntry == [name |-> NoName, inode_sector |-> 0, in_use |-> FALSE]

ParentEntry == [name |-> NoName, inode_sector |-> ROOT_DIR_SECTOR, in_use |-> TRUE]

--------------------------------------------------------------------------------
(***************************************************************************)
(* Formatting.                                                             *)
(***************************************************************************)

\* inode_create: reserve the sectors, then write the inode.
Created(r, s, length) == IF r.ok THEN [r EXCEPT !.fs.at[s] = Inode(r.ptr, length)] ELSE r

inode_create(f, s, length) ==
    Created(inode_reserve(f, NoPointers, bytes_to_sectors(length)), s, length)

EmptyDevice == [map |-> {FREE_MAP_SECTOR, ROOT_DIR_SECTOR}, at |-> [s \in Sector |-> Zeros]]

Formatted ==
    LET f == inode_create(EmptyDevice, FREE_MAP_SECTOR, FreeMapSize).fs
    IN inode_create(f, ROOT_DIR_SECTOR, MAX_FILES_IN_DIRECTORY * EntrySize).fs

Init == /\ fs = Formatted
        /\ dir = [k \in 0 .. MAX_FILES_IN_DIRECTORY - 1 |->
                     IF k = 0 THEN ParentEntry ELSE NoEntry]
        /\ open = <<>>
        /\ table = <<>>
        /\ lost = {}
        /\ outcome = [result |-> "unchanged"]

--------------------------------------------------------------------------------
(***************************************************************************)
(* The directory.                                                          *)
(***************************************************************************)

\* lookup starts after the entry of the parent.
EntriesOf(d, n) == {k \in DOMAIN d \ {0} : d[k].in_use /\ d[k].name = n}

InDirectory(d, n) == EntriesOf(d, n) # {}

Exists(n) == InDirectory(dir, n)

EntryOf(d, n) == CHOOSE k \in EntriesOf(d, n) : \A l \in EntriesOf(d, n) : k <= l

InodeSector(d, n) == d[EntryOf(d, n)].inode_sector

\* A slip to compare with: the search for a free entry takes the first one.
FreeEntryFirst(d) == 1

\* The first free entry, or the end of the directory.
FreeEntry(d) == CHOOSE k \in 0 .. Cardinality(DOMAIN d) :
                    /\ k \in DOMAIN d => ~d[k].in_use
                    /\ \A l \in 0 .. k - 1 : d[l].in_use

\* The root directory is open only while a command uses it.
RootInode(f) == f.at[ROOT_DIR_SECTOR]

\* What the search of dir_add wrote: the entry, in a directory that has grown by
\* inode_reserve's answer r when the entry lies behind its end.
Entered(f, d, n, s, size, r) ==
    LET added == With(d, FreeEntry(d), [name |-> n, inode_sector |-> s, in_use |-> TRUE])
    IN IF size <= RootInode(f).length THEN [ok |-> TRUE, fs |-> f, dir |-> added]
       ELSE IF ~r.ok THEN [ok |-> FALSE, fs |-> r.fs, dir |-> d]
       ELSE [ok |-> TRUE, dir |-> added,
             fs |-> [r.fs EXCEPT !.at[ROOT_DIR_SECTOR] = Inode(r.ptr, size)]]

\* dir_add: fails when the name is in use or the directory cannot grow.
dir_add(f, d, n, s) ==
    LET size == (FreeEntry(d) + 1) * EntrySize
    IN IF InDirectory(d, n) THEN [ok |-> FALSE, fs |-> f, dir |-> d]
       ELSE Entered(f, d, n, s, size,
                    inode_reserve(f, RootInode(f).ptr, bytes_to_sectors(size)))

\* When a later step fails, only the sector of the inode is given back.
OrGivenBack(r, d, s) ==
    IF r.ok THEN r ELSE [ok |-> FALSE, fs |-> free_map_release(r.fs, {s}), dir |-> d]

\* filesys_create, with its second step's answer made.
Filed(made, d, n, s) ==
    OrGivenBack(IF made.ok THEN dir_add(made.fs, d, n, s) ELSE made, d, s)

filesys_create(f, d, n, size) ==
    LET s == FirstFree(f.map)
    IN IF Bits \subseteq f.map THEN [ok |-> FALSE, fs |-> f, dir |-> d]
       ELSE Filed(inode_create([f EXCEPT !.map = @ \cup {s}], s, size), d, n, s)

--------------------------------------------------------------------------------
(***************************************************************************)
(* Open inodes and the file table.                                         *)
(***************************************************************************)

\* An inode as inode_open reads it.
InodeRead(f, s) == [open_cnt |-> 1, ptr |-> f.at[s].ptr, length |-> f.at[s].length]

\* inode_open reads the inode, or returns the one that is open: inode_reopen
\* does not count.
inode_open(o, f, s) == IF s \in DOMAIN o THEN o ELSE With(o, s, InodeRead(f, s))

\* inode_close frees the inode when the count is down to 0.
inode_close(o, s) ==
    IF o[s].open_cnt = 1 THEN Without(o, s) ELSE [o EXCEPT ![s].open_cnt = @ - 1]

\* The table after inodes were freed: files that use them are left dangling.
Dangling(t, o) == [n \in DOMAIN t |-> [t[n] EXCEPT !.live = @ /\ t[n].sector \in DOMAIN o]]

\* The file a command works on: the one in the table, else a new one, which then
\* goes into the table.  Using a freed inode is undefined and not modelled.
Usable(n) == IF n \in DOMAIN table THEN table[n].live
             ELSE Exists(n) /\ Cardinality(DOMAIN table) < MaxOpen

NewFile(d, n) == [sector |-> InodeSector(d, n), pos |-> 0, live |-> TRUE]

OpenedTable(n) == IF n \in DOMAIN table THEN table ELSE With(table, n, NewFile(dir, n))

OpenedInodes(n) == IF n \in DOMAIN table THEN open ELSE inode_open(open, fs, InodeSector(dir, n))

\* A slip to compare with: the inode is not written back after it has grown.
ExtendedUnsaved(f, s, ptr, length) == f

Extended(f, s, ptr, length) == [f EXCEPT !.at[s] = Inode(ptr, length)]

\* A slip to compare with: the answer of inode_reserve is not looked at.
GrownAnyway(o, s, length, r) ==
    [ok |-> r.ok, fs |-> Extended(r.fs, s, r.ptr, length),
     open |-> [o EXCEPT ![s].ptr = r.ptr, ![s].length = length]]

\* inode_write_at of size bytes at offset, as far as inodes and sectors go; r is
\* the answer of inode_reserve when the file must grow.
Grown(o, s, length, r) ==
    IF r.ok THEN [ok |-> TRUE, fs |-> Extended(r.fs, s, r.ptr, length),
                  open |-> [o EXCEPT ![s].ptr = r.ptr, ![s].length = length]]
    ELSE [ok |-> FALSE, fs |-> r.fs, open |-> [o EXCEPT ![s].ptr = r.ptr]]

inode_write_at(f, o, s, size, offset) ==
    IF offset + size <= o[s].length THEN [ok |-> TRUE, fs |-> f, open |-> o]
    ELSE Grown(o, s, offset + size,
               inode_reserve(f, o[s].ptr, bytes_to_sectors(offset + size)))

\* Where file_write leaves the position after the answer w of inode_write_at.
file_write(pos, w, size) == pos + (IF w.ok THEN size ELSE 0) - 2

\* How many bytes inode_read_at reads: it stops at the end of the file.
inode_read_at(length, size, offset) ==
    LET left == length - offset
    IN IF left < 0 THEN 0 ELSE IF size < left THEN size ELSE left

--------------------------------------------------------------------------------
(***************************************************************************)
(* The commands.                                                           *)
(***************************************************************************)

\* The sectors of the inodes of the files.
FileSectors == {dir[k].inode_sector : k \in {l \in DOMAIN dir \ {0} : dir[l].in_use}}

\* The sectors a failing step takes are lost.
Lost(r, before) == IF r.ok THEN lost ELSE lost \cup (r.fs.map \ before.map)

\* What the steps of a longer command work on.
State == [fs |-> fs, dir |-> dir, open |-> open, table |-> table, lost |-> lost]

Becomes(st) == /\ fs' = st.fs
               /\ dir' = st.dir
               /\ open' = st.open
               /\ table' = st.table
               /\ lost' = st.lost

\* How a command ends: it has done what it was asked, or has failed and said so.
Ends(ok, done) == outcome' = IF ok THEN done ELSE [result |-> "failed"]

\* A command that no file's length depends on.
NoOutcome == outcome' = [result |-> "unchanged"]

\* create FILE SIZE
Create(n, size) ==
    /\ Exists(n) => Cardinality(lost) < MaxLost
    /\ \E r \in {filesys_create(fs, dir, n, size)} :
          /\ fs' = r.fs
          /\ dir' = r.dir
          /\ lost' = Lost(r, fs)
          /\ Ends(r.ok, [command |-> "create", name |-> n, size |-> size, result |-> "done"])
    /\ UNCHANGED <<open, table>>

\* copy_in FILE: create with the size, then write one byte more.  The file is
\* closed again and not put into the table.  When the second step fails the
\* created file stays.  When both are done copy_in runs off its end: what the
\* interpreter then takes for its answer is left out.
CopyIn(n, size) ==
    /\ Exists(n) => Cardinality(lost) < MaxLost
    /\ size < MaxLength
    /\ \E r \in {filesys_create(fs, dir, n, size)} :
          /\ dir' = r.dir
          /\ IF ~r.ok THEN /\ fs' = r.fs /\ lost' = Lost(r, fs) /\ UNCHANGED open
                           /\ outcome' = [result |-> "failed"]
             ELSE \E s \in {InodeSector(r.dir, n)} :
                  \E w \in {inode_write_at(r.fs, inode_open(open, r.fs, s), s, size + 1, 0)} :
                     /\ fs' = w.fs
                     /\ open' = inode_close(w.open, s)
                     /\ lost' = Lost(w, r.fs)
                     /\ outcome' = [command |-> "copy_in", name |-> n, size |-> size,
                                    result |-> IF w.ok THEN "done" ELSE "half"]
    /\ UNCHANGED table

\* write FILE TEXT: at the position of the file, which then stands before the
\* last two bytes.  At a negative position a write or a read addresses a sector
\* that does not exist; what it then does is undefined and not modelled.  The text
\* has at least one letter, and two bytes more.
Write(n, size) ==
    LET file == OpenedTable(n)[n]
    IN /\ Usable(n)
       /\ size > 0
       /\ file.pos >= 0
       /\ file.pos + size <= MaxLength
       /\ \E w \in {inode_write_at(fs, OpenedInodes(n), file.sector, size, file.pos)} :
             /\ fs' = w.fs
             /\ open' = w.open
             /\ table' = [OpenedTable(n) EXCEPT ![n].pos = file_write(@, w, size)]
             /\ lost' = Lost(w, fs)
             /\ Ends(w.ok, [command |-> "write", name |-> n, size |-> size,
                            offset |-> file.pos, result |-> "done"])
       /\ UNCHANGED dir

\* size FILE opens the file and leaves it in the table.
SizeOf(n) == /\ Usable(n)
             /\ open' = OpenedInodes(n)
             /\ table' = OpenedTable(n)
             /\ NoOutcome /\ UNCHANGED <<fs, dir, lost>>

\* seek FILE POS: any position, also one beyond the end.
Seek(n, pos) == /\ Usable(n)
                /\ open' = OpenedInodes(n)
                /\ table' = [OpenedTable(n) EXCEPT ![n].pos = pos]
                /\ NoOutcome /\ UNCHANGED <<fs, dir, lost>>

\* read FILE SIZE
Read(n, size) ==
    LET file == OpenedTable(n)[n]
    IN /\ Usable(n)
       /\ file.pos >= 0
       /\ open' = OpenedInodes(n)
       /\ table' = [OpenedTable(n) EXCEPT
                       ![n].pos = @ + inode_read_at(open'[file.sector].length, size, @)]
       /\ NoOutcome /\ UNCHANGED <<fs, dir, lost>>

\* copy_out FILE opens, reads and closes it.
CopyOut(n) == /\ Exists(n)
              /\ open' = inode_close(inode_open(open, fs, InodeSector(dir, n)), InodeSector(dir, n))
              /\ table' = Dangling(table, open')
              /\ NoOutcome /\ UNCHANGED <<fs, dir, lost>>

\* find_file PATTERN opens, reads and closes all of them.
FindFile == /\ open' = [s \in DOMAIN open \ FileSectors |-> open[s]]
            /\ table' = Dangling(table, open')
            /\ NoOutcome /\ UNCHANGED <<fs, dir, lost>>

\* recover 2 opens every inode and never closes it.  For a file that does not
\* fill its last sector it asks for the size, which puts the file into the
\* table.
HiddenData ==
    LET partial == {n \in Name : /\ Exists(n)
                                 /\ fs.at[InodeSector(dir, n)].length % BLOCK_SECTOR_SIZE # 0}
    IN /\ \A n \in partial \cap DOMAIN table : table[n].live
       /\ Cardinality(partial \cup DOMAIN table) <= MaxOpen
       /\ open' = Joined(open, [s \in FileSectors |-> InodeRead(fs, s)])
       /\ table' = Joined(table, [n \in partial |-> NewFile(dir, n)])
       /\ NoOutcome /\ UNCHANGED <<fs, dir, lost>>

\* cat FILE reads a file of the table where it is; another one is opened, put into
\* the table, taken out again and closed.
Cat(n) == /\ Exists(n)
          /\ n \notin DOMAIN table
          /\ open' = inode_close(inode_open(open, fs, InodeSector(dir, n)), InodeSector(dir, n))
          /\ table' = Dangling(table, open')
          /\ NoOutcome /\ UNCHANGED <<fs, dir, lost>>

\* fsutil_rm: the file in the table is closed; then its entry, its sectors and its
\* inode are given back.
fsutil_rm(st, n) ==
    LET s == InodeSector(st.dir, n)
        o == IF n \in DOMAIN st.table THEN inode_close(st.open, st.table[n].sector) ELSE st.open
        i == inode_open(o, st.fs, s)[s]
        closed == inode_close(inode_open(o, st.fs, s), s)
    IN [st EXCEPT !.dir[EntryOf(st.dir, n)].in_use = FALSE,
                  !.open = closed,
                  !.table = Dangling(Without(@, n), closed),
                  !.fs = free_map_release(@, {s} \cup Deallocated(@.at, i.ptr, i.length))]

\* rm FILE
Rm(n) == /\ Exists(n)
         /\ n \in DOMAIN table => table[n].live
         /\ \E st \in {fsutil_rm(State, n)} : Becomes(st)
         /\ outcome' = [command |-> "rm", name |-> n, result |-> "done"]

\* More than 3 sectors on: the numbers have no sign, so a step back is a long one.
FarApart(s, t) == t < s \/ t - s > 3

\* The data sectors of an inode in the order of its bytes.
get_inode_data_sectors(f, i) ==
    [k \in 0 .. bytes_to_sectors(i.length) - 1 |-> index_to_sector(f.at, i.ptr, k)]

\* count_fragmented_files looks at the data sectors that follow each other, except
\* the last one when it is partly used.
Fragmented(f, s) ==
    LET sectors == get_inode_data_sectors(f, f.at[s])
    IN \E k \in 1 .. f.at[s].length \div BLOCK_SECTOR_SIZE - 1 :
          FarApart(sectors[k - 1], sectors[k])

\* fragmentation_degree opens every inode and never closes it.  Before, for each
\* file, it opens and closes the inode at a sector whose number was never set:
\* where that is the inode of a file, or of the system, the rest is undefined and
\* not modelled.
FragmentationDegree ==
    /\ open' = Joined(open, [s \in FileSectors |-> InodeRead(fs, s)])
    /\ NoOutcome /\ UNCHANGED <<fs, dir, table, lost>>

\* Defragment's first loop: the files that are not in the table are opened, for
\* their sizes to be noted.
Noted(st, files) ==
    LET read == {InodeSector(st.dir, n) : n \in files \ DOMAIN st.table}
    IN [st EXCEPT !.open = Joined(@, [s \in read |-> InodeRead(st.fs, s)]),
                  !.table = Joined(@, [n \in files |-> NewFile(st.dir, n)])]

\* One turn of its last loop: create with the size, then write as many bytes.  The
\* file stays in the table.
Renewed(st, n, size, r, s) ==
    IF ~r.ok THEN [st EXCEPT !.fs = r.fs, !.lost = @ \cup (r.fs.map \ st.fs.map)]
    ELSE [st EXCEPT !.fs = r.fs, !.dir = r.dir,
                    !.open = inode_open(@, r.fs, s),
                    !.table = With(@, n, [sector |-> s, live |-> TRUE,
                                          pos |-> file_write(0, r, size)])]

Recreated(st, n, size) ==
    LET r == filesys_create(st.fs, st.dir, n, size)
    IN Renewed(st, n, size, r, IF r.ok THEN InodeSector(r.dir, n) ELSE 0)

\* A slip to compare with: each file is removed and created again in turn.
RebuiltOneByOne(st, names, sizes, turns) ==
    LET after[k \in 0 .. Len(names)] ==
            IF k = 0 THEN st
            ELSE Recreated(fsutil_rm(after[k - 1], names[k]), names[k], sizes[names[k]])
    IN after[Len(names)]

\* All files are removed before the first one is created again: the state after
\* this many turns of the two loops.
Rebuilt(st, names, sizes, turns) ==
    LET N == Len(names)
        after[k \in 0 .. 2 * N] ==
            IF k = 0 THEN st
            ELSE IF k <= N THEN fsutil_rm(after[k - 1], names[k])
            ELSE Recreated(after[k - 1], names[k - N], sizes[names[k - N]])
    IN after[turns]

\* The names of the files in the order of the directory.
InOrder == LET used == {k \in DOMAIN dir \ {0} : dir[k].in_use}
               Kth(k) == CHOOSE e \in used : Cardinality({l \in used : l < e}) = k - 1
           IN [k \in 1 .. Cardinality(used) |-> dir[Kth(k)].name]

\* The place of the first empty file, or the end of the list.
FirstEmpty(names, sizes) ==
    CHOOSE k \in 1 .. Len(names) + 1 : /\ k \in DOMAIN names => sizes[names[k]] = 0
                                       /\ \A j \in 1 .. k - 1 : sizes[names[j]] # 0

\* The loops run to their end, or to the first empty file: of its contents 0 - 1
\* bytes, without a sign, are copied, and the process crashes.  Nothing follows a
\* crash, and which of the files' sectors have reached the disk by then is not
\* modelled.
Rebuild(st, names, sizes) ==
    \E k \in {FirstEmpty(names, sizes)} :
       /\ Becomes(Rebuilt(st, names, sizes, Len(names) + k - 1))
       /\ outcome' = [result |-> IF k \in DOMAIN names THEN "crashed" ELSE "unchanged"]

\* defragment takes all files or none: that depends on what is found at the sector
\* whose number was never set.  More files than a new directory has entries run
\* over its buffers; what it then does is undefined and not modelled.
Defragment ==
    \E names \in {<<>>, InOrder} :
    \E st \in {Noted(State, ToSet(names))} :
       /\ \A n \in DOMAIN table : table[n].live
       /\ Len(names) <= MAX_FILES_IN_DIRECTORY
       /\ Rebuild(st, names, [n \in ToSet(names) |-> st.open[st.table[n].sector].length])

\* quit and a new start without formatting.  A free map whose inode is gone reads
\* as empty, and the first command that takes a sector then calls itself without
\* end, to make the map's own file longer; that start is not modelled.
Restart == /\ fs.at[FREE_MAP_SECTOR].kind = "inode"
           /\ open' = <<>>
           /\ table' = <<>>
           /\ NoOutcome /\ UNCHANGED <<fs, dir, lost>>

Command == \/ \E n \in Name, size \in Size : \/ Create(n, size) \/ CopyIn(n, size)
                                             \/ Write(n, size) \/ Read(n, size)
           \/ \E n \in Name, pos \in {0} \cup Size : Seek(n, pos)
           \/ \E n \in Name : SizeOf(n) \/ CopyOut(n) \/ Cat(n) \/ Rm(n)
           \/ FindFile \/ HiddenData \/ FragmentationDegree \/ Defragment \/ Restart

Running == outcome # [result |-> "crashed"]

Next == Running /\ Command

Spec == Init /\ [][Next]_vars

--------------------------------------------------------------------------------
(***************************************************************************)
(* recover 0: inodes found in unmarked sectors get an entry again.  It is  *)
(* kept out of Next: what the other commands guarantee ends with it.       *)
(***************************************************************************)

\* The name of a recovered file is made from the number of the sector.
RecoveredName(s) == <<"recovered0", s>>

\* One turn of the loop.  It ends by writing to the file the bytes it has read from
\* the same inode, which changes nothing.  When the entry cannot be made the file
\* is a null pointer, and the process crashes.
RecoverInode(st, s) ==
    IF s \in st.fs.map \/ st.fs.at[s].kind # "inode" THEN st
    ELSE LET o == inode_open(st.open, st.fs, s)
         IN IF InDirectory(st.dir, RecoveredName(s)) THEN [st EXCEPT !.open = o]
            ELSE LET r == dir_add(st.fs, st.dir, RecoveredName(s), s)
                 IN [ok |-> r.ok, fs |-> r.fs, dir |-> r.dir, open |-> o]

RecoverDeleted ==
    \E r \in {FoldLeft(RecoverInode, [ok |-> TRUE, fs |-> fs, dir |-> dir, open |-> open],
                       [k \in 1 .. DeviceSize - 1 |-> k - 1])} :
       /\ r.ok
       /\ fs' = r.fs
       /\ dir' = r.dir
       /\ open' = r.open
       /\ NoOutcome /\ UNCHANGED <<table, lost>>

RecoverSpec == Init /\ [][Next \/ (Running /\ RecoverDeleted)]_vars

--------------------------------------------------------------------------------
(***************************************************************************)
(* Properties.                                                             *)
(***************************************************************************)

InUse == {k \in DOMAIN dir \ {0} : dir[k].in_use}

\* The sectors of the inodes: the two system files' and one for each entry.
InodeSectors == {FREE_MAP_SECTOR, ROOT_DIR_SECTOR} \cup FileSectors

Owned(s) == {s} \cup SectorsOf(fs.at, fs.at[s].ptr, fs.at[s].length)

\* Every byte of every file lies in a sector of its own file: the sectors of
\* different inodes are disjoint, they are marked in the free map, and no two
\* indexes of one file share one.  Nothing that is in use can be given to
\* another file, whatever was created, extended, removed or failed before.
NoSharing ==
    /\ Cardinality(InodeSectors) = 2 + Cardinality(InUse)
    /\ \A s \in InodeSectors :
          LET i == fs.at[s]
          IN /\ i.kind = "inode"
             /\ Owned(s) \subseteq fs.map
             /\ Cardinality({index_to_sector(fs.at, i.ptr, b \div BLOCK_SECTOR_SIZE) :
                                b \in 0 .. i.length - 1} \ {0, s})
                   = (i.length + BLOCK_SECTOR_SIZE - 1) \div BLOCK_SECTOR_SIZE
             /\ \A t \in InodeSectors : s < t => Owned(s) \cap Owned(t) = {}

\* A sector that is marked belongs to a file or was taken by a command that
\* failed: removing a file gives back all of its sectors.
OnlyFailuresLose == fs.map \subseteq lost \cup UNION {Owned(s) : s \in InodeSectors}

\* The inode in memory agrees with the one on disk as far as the file reaches,
\* so that closing a file, by any command, loses nothing of it.
ClosingLosesNothing ==
    \A s \in DOMAIN open :
        /\ open[s].length = fs.at[s].length
        /\ \A p \in Paths(bytes_to_sectors(open[s].length)) :
              SectorAt(fs.at, open[s].ptr, p) = SectorAt(fs.at, fs.at[s].ptr, p)

\* After a defragment that ends no file has a sector behind a free one, so that all free space
\* is at the end; and a file that count_fragmented_files still counts has a sector
\* of the directory, or one that was lost, between its own.  (Every file is in the
\* table then, at the position its last write left.)
DefragmentPacks ==
    [][/\ DOMAIN table' = {n \in Name : Exists(n)}
       /\ \A n \in DOMAIN table' : table'[n].pos = fs'.at[table'[n].sector].length - 2
       /\ outcome' = [result |-> "unchanged"]
       /\ Defragment
       =>
         LET fixed == (Owned(ROOT_DIR_SECTOR) \cup lost)'
         IN \A s \in FileSectors' :
               /\ \A t \in Owned(s)', u \in Bits \ fs'.map : t < u
               /\ Fragmented(fs', s) =>
                     \E t, u \in Owned(s)', v \in fixed : t < v /\ v < u]_<<fs, dir, open, table>>

FileLengths == [n \in {m \in Name : Exists(m)} |-> fs.at[InodeSector(dir, n)].length]

Files == INSTANCE NamedFiles WITH files <- FileLengths

\* create, copy_in, write and rm change the file they name, and it only, to the
\* length they were asked for; one that fails changes none, except that a copy_in
\* that fails at its second step leaves the file it has created; and no other
\* command makes, removes or resizes a file, except a defragment that crashes on
\* an empty one.
ImplementsNamedFiles == Files!Spec

--------------------------------------------------------------------------------
(***************************************************************************)
(* What an assertion says and the code does not do.                        *)
(***************************************************************************)

\* free_map_release asserts "bitmap_all (free_map, sector, cnt)": the sector of
\* an inode, which removing the file will release, is marked.
RemovalReleasesMarked == FileSectors \subseteq fs.map

================================================================================
