# A TLA+ model of the shell, its paging kernel and its file system

The repository holds three assignments of an operating-systems course, each one
growing out of the one before. The last of them, `a3`, is a complete small
system: a shell with variables, a kernel that runs scripts with demand paging
and round-robin, and a disk file system with inodes, a free map, a directory and
a buffer cache. It is modelled here, and so are the kernel of `a2`, which pages
in quite another way, and the shell of `a1`, which has conditionals.

## Inventory

| Part | Source | State it keeps | Operations | What is hard about it |
| --- | --- | --- | --- | --- |
| Buffer cache | `a3/fs/cache.c` | 64 slots (sector, data, dirty, access), the clock hand | read, write, flush, evict, close | the order of write-back and reuse of a slot; the process can end between any two device accesses |
| Block device, partition | `a3/fs/block.c`, `ide.c`, `partition.c` | the contents of the device; the device registered last | register, read, write a sector; scan the partition table | recovery reads the device behind the cache; numbers from the disk that wrap around; a recursion the disk controls |
| Inodes, free map | `a3/fs/inode.c`, `free-map.c`, `bitmap.c` | pointers and length of each inode on disk; the list of open inodes; one bit per sector | create, open, close, remove, read, write (and grow) | allocation that fails half-way; the borders between direct, indirect and doubly indirect blocks; reference counts |
| Directory, files, commands | `a3/fs/directory.c`, `file.c`, `filesys.c`, `fsutil.c`, `fsutil2.c` | directory entries, the table of open files with their positions | create, rm, read, write, seek, size, cat, copy_in, copy_out, find_file, recover, fragmentation_degree, defragment | what one failing or half-done command leaves for the next one |
| Shell memory | `a3/shellmemory.c` | one array: frames first, variables behind them | set, get, resetmem, allocate, load and clear a frame | both zones lie in one array |
| Paging kernel | `a3/kernel.c`, `pcb.c`, `cpu.c`, `linked_list.c` | PCBs with page tables, ready queue, LRU list | new_proc, run_proc, page fault, run_proc_RR, free_PCB | three lists, page tables and frames must change together; exec must end |
| Command interpreter | `a3/interpreter.c`, `shell.c` | the place of `strtok`, the directory `backing_store`, the number of copies | cut a line into sections; one function per command; copies of scripts | it is entered again for each line of a script; return values are read by the kernel as faults; quit in a script |
| Lists | `a3/fs/list.c`, `list.h` | two links per node | insert, remove, splice, reverse, sort, unique, max, min | every function rewires links that others hold |
| Debug output | `a3/fs/debug.c` | - | - | `PANIC` and `ASSERT` print and go on |
| Kernel of the second assignment | `a2/kernel.c`, `shellmemory.c`, `ready_queue.c`, `pcb.c`, `interpreter.c` | memory with the time each line was last used, PCBs whose program counter is a memory address, ready queue | run, exec, process_initialize, execute_process, page fault, LRU victim | addresses that go stale when a frame is taken; frames nobody gives back |
| First shell | `a1` | a thousand variables, open scripts | set, print, run, if | interpreter, parser, run and if call each other; searches for words that may not be there |

The parts call each other; nothing runs concurrently, there is one process and
one thread. The interpreter calls the kernel (exec, run), the kernel calls the
interpreter for each line; the interpreter calls the file commands; these call
directory, file and inode functions, which call the cache, which calls the
device. So the hard behaviours are not races but long sequences of legal
commands, failures in the middle of a command, resources at their limit, and
the process ending at an arbitrary device access. `PROJECT.json` lists the
hazards, each at its line.

Correctness, part by part:

* cache: a read returns the last write, whatever was evicted in between; only
  values of the store reach the device; after a crash each sector is as it was
  at one of its writes; calls return; the clock evicts what it should.
* inodes and free map: no sector belongs to two files or twice to one; every
  marked sector is reachable except those a failing command took; the open
  inode and the one on disk agree.
* commands: each does to the file it names what it was asked and changes no other;
  one that fails changes none, except that a copy_in may fail with its file created.
* kernel: every line of every script is executed once, in order; pages and
  frames match; all frames come back; no process overtakes another for ever;
  exec returns. For `a2` the same as long as memory suffices; when it does not, a
  process at least stays within its own script and its own frames.
* command line: sections are interpreted once and in order, and none is lost before
  the first that runs scripts; exec runs the scripts it was given; the backing store is ready for the
  next command, also after a quit in a script; the prompt comes back.
* partitions: the file system ends up on the last partition that fits; if that has
  room for the two inodes of the system, all sectors the file system uses lie inside,
  and a restart finds the same one; the scan ends.
* lists: the links in both directions describe the same sequences, and each
  function changes them as promised; sorting is stable and ends.
* first shell: a variable has the value it was last given while entries last; a
  chain of conditionals runs the arm the conditions choose; every line returns.

## Modules

| Module | What it is |
| --- | --- |
| `SectorStore` | what the cache promises: a store of sectors whose medium lags behind and which falls back to it on a restart |
| `BufferCache` | `cache.c` in the steps between two device accesses, with the clock, close, recovery of data blocks and a restart at any step |
| `ShellMemory` | the array of frames and variables as operators |
| `ScriptRunner` | what run and exec promise: each script line by line, no memory, no pages |
| `PagedKernel` | kernel, page tables, LRU list, round-robin, exec, set, resetmem, quit; uses `ShellMemory` |
| `FrameKernel` | the kernel of `a2`: physical program counters, shared frames, LRU by time stamps; uses `ShellMemory` for the variables |
| `NamedFiles` | what each file command promises: names with lengths, what the last command was asked and how it ended |
| `Inodes` | the pointer tree of an inode, first-free allocation, what a failing allocation leaves, release |
| `FileSystem` | directory, open inodes, file table and one action per command; uses `Inodes` |
| `CommandLine` | the prompt of `a3`: sections, `strtok`, copies of scripts, quit, the lines of scripts in any order |
| `Partitions` | from the disk image to the device of the file system: registering, the scan, physical sectors, restart |
| `ElementLists` | what the list functions promise, on sequences |
| `LinkedLists` | `list.c` link by link |
| `FirstShell` | the shell of `a1`: variables, conditionals, scripts that run scripts |
| `MC...` | small instances for TLC |
| `...Proofs` | the theorems about the module it is named after |

### How state and actions correspond to the code

`BufferCache`. `cache` is the array `cache[]`, `clock` the static variable of
`buffer_cache_evict`, `disk` the device. `pc`, `req` and `slot` are the program
counter, the arguments and the local variables of the call in progress: `Hit` or
`Miss` is the lookup, `EvictFree`, `EvictSecondChance` and `EvictVictim` are the
three ways one turn of the clock loop goes, `Fill` is the `block_read`, `CopyOut`
and `CopyIn` the final `memcpy` of read and write. `CloseSlot` is one turn of the
loop of `buffer_cache_close`. `RecoverSector` is `recover 1`, which uses
`block_read` directly. `Restart` may happen in any state: the shell leaves with
`exit(99)` in several places without closing the cache. `miss` is a history
variable (the cold slots at the last miss).

`PagedKernel`. `pcb`, `QUEUE`, `LRU_CACHE`, `PID_counter` and `mem` are the
globals of the same names; the linked lists are sequences. `mode`, `args` and
`turn` are the program counter of exec: loading scripts (`NewProc`, `FillPage`,
`NewProcFails`), running (`Pop`, `RunLine`, `PageFault`, `RunLineReturning1`),
returning (`Finish`). A line of a script is one of a few kinds of command: plain,
set, resetmem, quit, rm, blank. `last` is the line executed last, which the
abstract specification also has; `since` is history, for fairness, and so is `faked`:
a line has been executed and then, because it returned 1, been handled as a page
fault (`RunLineReturning1`). "rm" stands for rm and for a read that gets all the
bytes it asked for, the two commands that return 1; neither touches the memory.

`FrameKernel`. `mem`, `last_used`, `timer`, `queue` and `pid_counter` are the
globals of `a2`; `pcb[pid]` has the page table, the program counter and the open
file (how many lines were read, whether the tail of the last one will be read
again, end of file). `mode` tells where the kernel is and why a page is loaded:
`init` is `process_initialize` (`LoadFirst`, `LoadSecond`), `lost` the search for
a program counter whose frame is gone (`LoadLost`), `fault` the page fault within
a turn (`PageFault`, then `LoadFault` or `LoadFails`). `Loads`, `LoadedMem`,
`LoadedUsed`, `Loaded` and `Others` are `load_page_into_frame_store` with
`pick_victim_frame`: where the page goes, what memory, time stamps, the loading
process and the owner of a taken frame are afterwards. `run` inside a script is
`RunOrQuitLine` followed by `NestedRun` and the loads. Comparing with a missing
page (`NULL`) ends the shell: `Crashes`. `last` and `procs` are history for the
refinement of `ScriptRunner`.

`Inodes` and `FileSystem`. A sector's place in a file is a *path* in the tree of
pointers. `inode_reserve` is given in closed form: the paths that lack a sector
get the free sectors in ascending order; what remains when the free ones run out
decides which blocks were written back, and whether the unnoticed failure in
`inode_reserve_indirect` wrote zeros to sector 0. `fs.map` is the free map,
which the code writes to its file on every change; `fs.at` holds the inodes and
blocks of pointers; user data is left out. `dir` are the directory entries, old
names included, `open` the list `open_inodes`, `table` the list `file_table`. The
field `live` of a table entry says whether its inode still exists; using a freed
inode is undefined, so no action starts from one. Likewise no read or write starts from a negative position. `lost` is
history: the sectors failing commands have taken. `outcome` is history, too: of a
create, copy_in, write or rm the name, the size asked for and the result, which
`NamedFiles` has as well, so that its actions are those of one command and one file;
of every other command, and of one that failed, only that. `ls` and `freespace` leave the
state as it is and have no action. `Defragment` is the whole command: `Noted` is
its first loop, `fsutil_rm` a turn of the second and `Recreated` of the third. At an
empty file the third loop copies 0 - 1 bytes, without a sign, and the shell crashes
(`Rebuild`); nothing follows a crash. Sizes may be 0: `create f 0` makes an empty file.
Both `defragment` and `count_fragmentable_files` open the inode at a sector number
they never set; the model lets `defragment` take all files or none, and leaves out
the case in which that number happens to be an inode in use. `recover 0` is an action of `RecoverSpec`
only, because the properties of the other commands end with it.

`CommandLine`. `typed` is the line, `token` the section the prompt's `parseInput`
works on and `cursor` the string `strtok` would go on with: one variable for all
calls, as in the library. `Interpret` is a section without scripts; `ExecCommand`
makes the copies and starts the scripts, `RunLine` is one line of one of them,
`ExecEnds` the return. In which order scripts take turns is left open, so what
holds here does not depend on the scheduler. `store` is the directory of copies; a
script's name is a stem and a number of letters `a`, all that the naming of copies
depends on. After `filesys_done` a file command works or crashes (`Crash`). `ran`
and `quits` are history.

`Partitions`. `mbr` is sector 0, the only one the scan reads; `calls` the calls of
`read_partition_table`, one record each with its loop index; `hard_drive` the
device registered last. `image` is the length of the image file, `disk_size` the
length it had when it was registered. `ReadTable` is a call up to its loop, `SkipEmpty`,
`Extended` and `Primary` the three kinds of entry, `TableDone` the return. `FileSectors`
are the sectors the file system reads and writes: those its free map has bits for, and
the sectors 0 and 1 of the two inodes, which it uses whatever the size of the device.
`Write` is a `block_write` of one of them. It may hit sector 0, and it may be past the
end of the device, since `PANIC` only prints: the image then grows. `Physical` is where
it ends up, byte offsets wrapping at 2^32. `Restart` is a new start on the same image,
registered with the length it then has.

`LinkedLists`. `links` has `prev` and `next` of every element and of the head and
the tail of every list. `list_sort` and `list_unique` run step by step with their
local variables in `job`; the other functions are single actions. An element that
leaves its list is freed, as the users do, so that its links are gone. `before` is
history: what the lists held when a job began, which is what the refinement shows
until it ends.

`FirstShell`. `stack` holds the scripts being read, `words` the command at hand;
`If` replaces it by the command it chooses, which goes through the parser again.
`Find` is the search for `else` and `fi`; where the code compares a word before it
checks that there is one, `Crash` is the other outcome. `asked` and `written` are
history.

Definitions called a slip in their comment are wrong on purpose: each stands in
for its neighbour to show that a property notices the slip.

## Runs

| Run | Instance | Shows |
| --- | --- | --- |
| `cache` | 2 slots, 3 sectors, 2 values | the cache is coherent and implements `SectorStore`, restarts included; the victim of the clock; a victim only when full; calls return |
| `kernel_plain` | 6 frames and an odd line, scripts of 1 to 13 lines, one with quit, one ending in rm, 3 processes | paging is invisible, and frames, page tables and LRU list agree, until a line is taken for a fault; no load or eviction reaches a variable; no process overtakes another; exec returns; giving back the last frame clears at most the two lines behind it |
| `frames_roomy` | 12 frames, scripts of 1 to 8 lines, some running others, 3 processes started by exec | address-based paging is invisible; each page table points at its own lines; exec returns |
| `frames_tight` | 3 frames, scripts of 0 to 12 lines | frames keep one owner and processes their own script when pages are taken all the time |
| `files_roomy` | 1 direct block, 2 pointers per block, 26 sectors, 2 files | growth into doubly indirect blocks, removal and reuse: nothing shared, nothing forgotten; defragment packs |
| `files_full` | 2 direct blocks, 10 sectors, 2 files, sizes 0 and 3 | every command fails wherever it can: sectors are lost, files are not, and each command does to the file it names what it was asked |
| `files_recover` | 3 direct blocks, 16 sectors, with recover 0 | a violation, see below |
| `shell` | lines of up to three sections, 4 scripts, one missing | which sections and scripts run; backing store; prompt |
| `shell_sections` | as `shell` | a violation, see below |
| `partitions` | 6 sectors, numbers modulo 16, byte offsets modulo 8 sectors, all tables of 2 entries and many of 3 | the device, its sectors, the end of the scan |
| `lists` | 5 elements, two with equal keys, 2 lists | links and sequences agree; each function does what its description says; sort and unique end |
| `first_shell` | 2 entries, 3 open files, 3 scripts, 12 chains of conditionals | variables, conditionals, nested scripts |

Of the type invariants only the cache's, which the proofs rest on, is checked by
a run; elsewhere a value of the wrong kind would stop TLC or break one of the
properties.

Bounds. Two slots over three sectors make every miss evict once warm, and the hand
meets warm, cold, dirty and clean slots; the proofs cover every other size. Scripts of 1 to 13 lines have last pages with one, two and
three lines and more pages than two scripts' share of six frames. `MaxPid` bounds
the scripts exec starts (three fill one exec, or leave two commands after each
other); in `FrameKernel` each may start one more by `run`, hence twice as many
process numbers. `MaxTimer` bounds the executed lines: in `frames_roomy` it is
more than all scripts have, in `frames_tight` it cuts off processes that reload
pages without end, when every frame was taken several times; three
frames for two-page processes make every exec of two scripts evict. With one direct
block and two pointers a file of 8 bytes (sectors have 2) needs the direct, the
indirect and a doubly indirect block, and a removed file's blocks of pointers are
reused as data, inode and block. `MaxLength` bounds growth, `MaxOpen` the file
table, `MaxLost` how often create is repeated on an existing name (each time
sectors are lost). It is 0 in `files_roomy`, where nothing fails and `OnlyFailuresLose`
thus says that nothing is lost; with what failures lose, it is left to the theorem. In `files_roomy` the device cannot become
full, since a full device destroys sector 0 when an indirect block is wanted; in
`files_full` it does become full but only direct blocks are used, by files of 0 to 4
bytes. File names are symmetric: they are only compared. `MCView` leaves out what no command of `Spec` reads:
sectors that are not marked, old names, and the outcome of the last command unless it is
a crash. The properties that speak of an outcome speak of the step that sets it, and TLC
checks those of every step. In `CommandLine` three sections suffice for one
before, one after and the one that runs scripts; `MaxCount` bounds the copies, which
the code's buffers bound as well. Numbers modulo 16 over 6 sectors make sums of two
offsets fall inside, at, behind and, wrapped, inside the device again, and byte offsets
modulo 8 sectors let a sector behind the image be the first one of it; the tables have
partitions of 1 and 2 sectors, which are too small, and of 3, which just are not. `MaxDepth` is
the stack, deeper than any scan that ends. Five elements make `list_sort` merge
three runs in more than one pass. Two entries for three variables fill the memory
of `FirstShell`, and three open files make a script that runs itself stop.

Fairness. Every `FairSpec` assumes weak fairness
of the steps the code takes once it was called: it is one thread that waits for
nothing. The user owes nothing.

### Disagreements

Two runs show the code doing something else than it says of itself; `PROJECT.json`
quotes the lines.

* `files_recover`, against an assertion (`fs/free-map.c:45`): recover 0 gives a removed
  file an entry again but leaves its sectors unmarked, free for the next file.
* `shell_sections`, against a comment (`shell.c:98`): of the line "exec p; quit" the
  second section is not interpreted, because the lines of the script move the place of
  `strtok`, which the prompt goes on from (`shell.c:135`). What is left of the promise,
  `SectionsInOrder`, is checked in `shell`: sections are interpreted once and in order,
  and none is lost before the first that runs scripts. After a quit in a script the
  place may even be in the script's line, whose sections are then taken for the prompt's.

Met while modelling and kept in the models, without a run of their own:

* giving back the last frame clears the two lines behind it, which are the first
  two variables when the frame store ends there (`shellmemory.c:167`);
  `FreeingClearsAtMostTwo` bounds the damage;
* on a full disk an indirect block that finds no sector is written to sector 0,
  over the inode of the free map (`fs/inode.c:428`);
* `a2`: in full memory the second page of a new process takes the frame of its
  first, and the process starts at line -3 (`a2/kernel.c:76`);
* two scripts of one exec whose names differ only in letters `a` at the end, by as
  many as they stand apart, share a copy, and the last one runs twice; a missing
  script can find such a copy (`interpreter.c:164`);
* the table of an extended partition is read from sector 0 instead of its own
  sector (`fs/partition.c:56`), so logical partitions are never found, the table's
  own partitions are tried again shifted, and some tables overflow the stack;
* a partition of one or two sectors is taken like any other, and the inodes of the
  system are then written behind it. With the partitions (5, 1) and (5, 2) on an image of
  6 sectors the first start takes (5, 1); writing its sector 0 makes the image one sector
  longer, and the next start takes (5, 2). `check_sector` notices, but `PANIC` only prints
  (`fs/block.c:33`);
* byte offsets on the image have 32 bits, so behind 4 GiB they begin again
  (`fs/ide.c:88`);
* `defragment` crashes when it comes to an empty file, after it has removed all of them
  (`fs/fsutil2.c:354`);
* a copy_in that finds no room for its last byte reports an error and leaves the file it
  has created (`fs/fsutil2.c:54`); one that has done everything runs off its end without
  a return value, so that what the shell makes of it is undefined (`fs/fsutil2.c:63`);
* `defragment` joins the contents of the files with `strcat`, so contents move when
  a file does not end in its only NUL (`fs/fsutil2.c:310`);
* `a1`: a conditional nested in a then-branch takes the inner else for its own and
  can run the wrong command (`a1/interpreter.c:222`);
* a successful rm in a script, or a read that gets all bytes it asked for, returns
  1, which `run_proc` takes for a page fault: its page is overwritten with later lines of the script (`kernel.c:45`);
* a final newline is counted as one more line; that line faults for ever and exec
  never returns (`pcb.c:130`);
* `inode_reopen` does not count, so copy_out of a file in the file table frees the
  inode the table still uses (`fs/inode.c:176`);
* `count_lines` does not count blank lines but `fgets` delivers them, so the last
  line of such a script does not run (`pcb.c:121`);
* a faulting process goes to the tail of the ready queue, not to its head as the
  comment at `kernel.c:31` has it (`NoOvertaking` relies on the tail);
* `run_proc` ignores the -1 of quit, so a script goes on after it (`kernel.c:66`);
* a failing write moves the position to two before where it was (`file.c:136`);
* `a2`: on a page fault it is the next process in the queue that goes to the tail,
  not the current one as the comment says (`a2/kernel.c:173`); run compares with
  the error code 11, which nothing returns, and schedules what is left in the
  queue (`a2/interpreter.c:276`);
* `a2`: a process whose frame was taken goes back three characters, not three
  lines, and reads on from there (`a2/kernel.c:142`), so it repeats and skips
  lines; a frame's age is that of its first line (`a2/shellmemory.c:307`); a
  script that ends in a newline leaves a hole inside its frame
  (`a2/shellmemory.c:227`); and `run` within a script in full memory may take a
  frame from the running process, which is in no queue and is not told
  (`a2/shellmemory.c:322`).

The scripts of `kernel_plain` therefore end without a newline and have no blank
lines; the model has both (`Trailing`, the kind "blank"), but no property is left to
check of them. One script does end in rm, and the properties about pages end with that
line (`faked`). The scripts of both `frames`
runs end without a newline, and only `frames_roomy` has scripts that run others.

## Proofs

| Theorem | Module | States |
| --- | --- | --- |
| `CacheTypeCorrect`, `CacheCoherence`, `CacheEvictsOnlyWhenFull`, `CacheVictimIsFirstCold`, `CacheImplementsStore` | `BufferCacheProofs` | `TypeOK`, `Coherent`, `EvictsOnlyWhenFull`, `VictimIsFirstCold`, `ImplementsSectorStore` |
| `KernelNoOvertaking` | `PagedKernelProofs` | `NoOvertaking`, for all scripts and any memory |
| `KernelPagesIntact`, `KernelLruListsResidents`, `KernelNoFrameLeft`, `KernelEvictsUsedUp`, `KernelPagingKeepsVariables`, `KernelFreeingClearsAtMostTwo`, `KernelImplementsScriptRunner` | `PagedKernelProofs` | the other safety properties of `PagedKernel`, for `PlainScripts` |
| `FrameKernelOwners`, `FrameKernelOwnLines` | `FrameKernelProofs` | `FramesDistinct`, `OwnLinesOnly`, for `WholeFrames` |
| `FrameKernelPages`, `FrameKernelImplementsScriptRunner` | `FrameKernelProofs` | `PagesInPlace`, `ImplementsScriptRunner`, for `WholeFrames` while no frame is taken |
| `PromptStoreReady`, `ExecOwnScripts`, `LineSectionsInOrder` | `CommandLineProofs` | `StoreReady`, `OwnScripts`, `SectionsInOrder` |
| `PartitionsFilesStayInside` | `PartitionsProofs` | `FilesStayInside`, on a device with room for two inodes |
| `MemoryLastValueCounts` | `FirstShellProofs` | `LastValueCounts` |
| `ListsBothWaysAgree`, `ListsAsDescribed`, `ListsImplementElementLists` | `LinkedListsProofs` | `BothWaysAgree`, `EachAsDescribed`, `ImplementsElementLists` |
| `NoSharingAlways`, `OnlyFailuresLoseAlways`, `ClosingLosesNothingAlways`, `ImplementsNamedFilesAlways` | `FileSystemProofs` | `NoSharing`, `OnlyFailuresLose`, `ClosingLosesNothing`, `ImplementsNamedFiles`; the first two while the inode of the free map is there |

Each rests on the theorem that the module's inductive invariant holds
(`CacheInvariant`, `QueueInvariant`, `KernelInvariant`, `FrameKernelInvariant`, `CommandLineInvariant`,
`PartitionsInvariant`, `MemoryInvariant`, `LinkedListsInvariant`, `InvAlways`), which is proved from one lemma or step per
action. The bounds of the models (`MaxPid`, `MaxCount`, `MaxDepth`) are constants
like any other: the theorems hold for every value of them.

### The cache

The assumption is `CacheAssumption`: there is at least one slot and one sector,
and the zero data is data. The inductive invariant is
`IInv == TypeOK /\ Coherent /\ CallInv /\ HandInv`. `Coherent` (one slot per
sector, clean slots match) is not inductive alone: `Fill` puts a sector into a
slot because of a lookup some steps earlier, so `CallInv` carries what the call
in progress knows: during evict and fill the sector is in no slot, in fill the
slot is unoccupied, in copy the slot holds the sector, and during close the
slots behind the loop index are clean. `EvictsOnlyWhenFull` needs `HandInv`:
slots are filled in the order of the hand and a slot's access bit is only off
when the hand has passed it with every slot occupied, so an unreferenced slot
under the hand means the array is full. `VictimIsFirstCold` needs to know what the
hand did since the miss, `TurnInv`: in its first turn (`FirstTurn`) the slots it has
passed were referenced at the miss and are no longer, those ahead are as they were
then; a hand that is back (`FullTurn`) found every slot referenced and stops at once.
`TurnLemma` has the arithmetic of a turn. The refinement takes one lemma per
action that changes the view (`EvictVictim`, `Fill`, `CopyIn`, `CloseSlot`,
`CloseDone`); the others leave it alone.

### The paging kernel

`KernelNoOvertaking` needs no hypothesis but `KernelAssumption` (scripts have at
least one line, and the word "none" is not a pid). Its invariant
`QueueInv` says that the ready queue is in the order of the last turns: nobody has
had a turn since a process behind him had one.

The other theorems assume `PlainScripts`, which says which scripts and memories
paging is right for at all: no final newline, no blank line and no `rm` (each
breaks the properties, see Disagreements), and room for six frames. Six are the
frames of three processes' first two pages; with five the third process of an exec
finds no frame and the shell ends, and with fewer scripts a page still needed may
have to go. `KernelInv` has, besides the queue:

* `PagesInv`: a page is not yet read, in a frame that holds its lines, or evicted
  and used up (`Spent`); frames are aligned and have one owner; a line of the
  frame store that no page has is free;
* `LruInv`: the list has every resident page once, except those of the process that
  is being loaded;
* `LoadInv`, `TurnInv`: the stages of exec, and how many lines a turn may still run;
* `LockstepInv`: as long as a process is in its first four lines no other one
  is more than a turn ahead of it;
* `RecencyInv`: what is ahead of the page that a waiting process needs next in the
  LRU list are pages that others used in the one turn they had since.

The last two are the argument why least-recently-used works here. The code
reloads a page by reading on in the file, so evicting a page that is still needed
would replace it by later lines: `PagesIntact` and the refinement hold only
because this never happens. A victim is taken when no frame is free. If it were
still needed, then by `RecencyInv` (or, in the first lines, by `LockstepInv`) it
and the pages that can be ahead of it in the list would be at most five, itself and two of
each of the two other processes (`AheadNumber`), and six frames would not be full
(`VictimLemma`, by counting). `KernelImplementsScriptRunner` maps each step to one
of `ScriptRunner` (no line of a plain script returns 1, so that this is so to the end,
`Runner!Spec`): a page fault, a load and an eviction to stutters, since the
line a process executes is by `PagesIntact` the one after its last.
`KernelFreeingClearsAtMostTwo` has the further hypothesis `VAR_STORE_SIZE >= 2`: with fewer
variables `clear_frame` would write behind the array.

The scripts of `kernel_plain` satisfy these hypotheses but for the one that ends in
rm: with it `faked` becomes true, and the run shows what is left then, where the
theorems say nothing.

### The kernel of the second assignment

`FrameKernelOwners` and `FrameKernelOwnLines` assume `WholeFrames`: the frame store is
a number of whole frames, no script ends in a newline, none is named "none" and none
runs another one. Each of these is needed. A script of one line and a newline leaves
the second line of its frame a hole, the next page begins there, and two pages share
the frame (TLC finds this at once when `Trailing` in `frames_tight` is not empty); so
does a frame cut off by the end of the frame store; a script of that name makes its
lines look free; a nested `run` may take the frame of the running process. The
scripts may have any other lines and any length, and the memory any number of
frames, so that frames are taken away all the time. `FrameKernelInv` has

* `MemOK`: a frame with a hole has one on its first line (`HolesOK`), which is
  why the first hole is always the start of a frame (`HoleLemma`); each entry of a page
  table is a frame with lines or tails of the process's own script, or padding
  (`PagesOK`), and is in no other place of a page table (`OneOwner`);
* `PidsInv`: a process waits in the queue, once, or it is the one that runs or loads.
  This is why it suffices that `load_page_into_frame_store` clears the frame taken in
  its own table and in one of the queue (`ToldLemma`);
* `RunInv`: the counter of the running process is in the page it is said to be in or
  just behind it; after the search of `execute_process` this holds because the page
  was found by comparing addresses (`LocatedLemma`).

`LoadLemma` is the core: whatever way `load_page_into_frame_store` goes, `MemOK` holds of
the new memory and the new page tables. What a process executes is then on a line of
its frame (`LineLemma`), and `OwnLinesOnly` follows.

That a process also executes its lines in order is not true in a tight memory (see
Disagreements), so `FrameKernelPages` and `FrameKernelImplementsScriptRunner` have a
second hypothesis, `[]NothingTaken`: whenever a page is about to be loaded, memory has a
hole. It is a condition on the behaviour and not on the constants, since what matters is
how many frames the live processes have together, not how long the scripts are; a memory
with three frames for each of three processes of up to eight lines meets it (TLC finds
`NothingTaken`, and the invariants below, true in every state of the scripts of
`frames_roomy` that run no others, with its 36 lines of memory). `ScriptsFit` adds
that a script has no more pages than a page table has entries, beyond which the code
writes behind the table. `InOrderInv` has

* `Layout`: holes are behind all frames in use (`Above`), which is why the first hole
  is above every frame the process has; hence a process's pages lie in ascending frames
  in the order of its lines (`Ordered`), and each frame holds just the three lines of its
  page, padded where the script ends (`Stored`). It is the ascending order that makes the
  address comparison of `execute_process` find the right page;
* `At`, for the process that runs and those that wait: the counter is where the line after
  the last executed one (`Done`) is or, between two pages, will be. A counter at the end
  of a frame is also one at the beginning of the next, so `WaitInv`, `BeginInv` and
  `TurnInv` say for a waiting process, one that is being started, and one that runs or
  faults which of the two it is;
* `CountInv`: no process has executed more lines than its script has, and numbers for
  the processes of an exec suffice.

`LoadNextLemma` says what loading does then: it stores exactly the next three lines of the
file into the first hole. `NextLineRuns` concludes that the line a process executes is the
one after the last, `AtTheEnd` that a process goes only when all its lines are done; with
`FinishedInv`, which keeps the latter of those that are gone, every step is one of
`ScriptRunner` (`RunnerNext`). Scripts that run others are outside the hypotheses:
those `frames_roomy` checks.

### The command line, the partitions and the first shell

`CommandLineAssumption` says what a line is: not empty, no exec without scripts, and
no script that runs scripts. `SectionsInv` ties what has been interpreted (`ran`)
and the place of `strtok` (`cursor`) to the typed line: before a section runs
scripts, `ran` is the beginning of the line and `cursor` the rest behind the
current section; once a script's line was cut, `cursor` is empty or, after a quit
in a script, unknown, and then only that the beginning was interpreted is kept.
`SectionsInv` knows this of every state, not only of those at the prompt, and
`UpToScriptsLemma` makes `SectionsInOrder` of it.

`PartitionsAssumption`: sector numbers are words, the device has at least one sector, and
no more than byte offsets reach, which are fewer than there are words. `DriveInv`: the
device registered last ends on the image as that was registered; the image becomes no
shorter, and no longer than byte offsets reach. `FitsLemma` shows that the check of
`found_partition` excludes sums that wrap around, and `PhysicalLemma` that the free map's
missing bit makes up for the sector that a partition's reads and writes skip. That needs
a device that is not `Tiny`: of a partition of one or two sectors, or a disk of one, the
sectors of the two inodes are used all the same, and one of them lies outside.

The invariant of `FirstShell` says that no variable has two entries, that an entry
holds what was last written, and that a variable without one was written when all
entries were taken.

### The lists

`LinkedListsProofs` assumes that there are finitely many elements, that NULL and the
heads and tails are none of them, and that keys are integers. A state is described by
two functions of the nodes, the list that owns a node and its place there: `Rep` says
that next and prev lead from each place to the ones beside it. `PutInLemma` and
`TakenOutLemma` give the places after a run of nodes was put in or taken out, and
every function of `list.c` is made of these two, `ReverseLemma` and `FreedLemma`.
`WalkLemma` and `PlacesLemma` say that walking along the links meets the nodes in the
order of their places. The invariant adds four things about a job:

* `SortOK`, `UniqueOK`: the variables of `list_sort` and `list_unique` point into their
  list, those of `inplace_merge` in the order of their places: this is what allows its
  `list_splice`.
* `PassOK`: what a pass knows of the order. Until its first merge is over, everything
  before `a0` is in order and not greater than what is between `a0` and `b1`, and both
  runs are in order; of the later merges only the first run's order is kept. A pass
  that has put out one run is thus known to leave the whole list in order, which is
  when `AfterPass` ends the function. `MovedLemma` is the step that needs it: the
  element that is moved forwards is less than every one it passes.
* `Stable`: elements of equal keys still are in the order they had in `before`. It
  holds because a moved element only passes elements with a greater key.
* `UniquingOK`: what `list_unique` has made of the lists up to place `w` of what it was
  given. The elements at the places `kept` stay and those at `gone` have left
  (`Looked`), so that its list is the former and what is behind `w`, and the list of
  duplicates has got the latter (`Halfway`). `elem` is the last one that stays, and its
  key is the key at place `w`: comparing the next element with `elem`, as the code
  does, is comparing it with its neighbour in the list as it was (`RepeatIsEqual`).

`SortedLemma` says that the only rearrangement of a sequence with equal keys in
their order is the one `ElementLists` calls `Sorted` (which finds each element by the
number of elements that go before it); `OrderedLemma` applies it to the end of
`list_sort` and `InsertedInOrder` to `list_insert_ordered`. `list_max` and `list_min`
are recursive functions: `CandidatesExist` and `CandidateLemma` give, by `Induction`,
that they exist and what they return.

The refinement maps the content of the lists to `Content`, or to `before` while
`list_sort` or `list_unique` runs (`Seen`). `InsertRefines`, `RemoveRefines` and
`MoveRefines` translate the new places into the new sequences, in which `ElementLists`
speaks: a run of elements put before a place, an element or a run taken out.
`SeenBegins` and `SeenRuns` say that the beginning and the steps of the two long
functions are not seen; `SortHeld` and `UniqueStepLemma` that their last step is
`SortList` or `RemoveRepeats` of the lists as they were in `before`.

### The file system

`FileSystemProofs` is about any device, any numbers of direct blocks and of pointers
per block, any names and any sizes, 0 included. `SystemIntact` says that the inodes of
the free map and of the root directory are on disk. The theorems about the invariant, about
`ClosingLosesNothing` and `ImplementsNamedFiles` have the form
`Spec /\ SystemIntact => ...`: they assume it at the beginning, that is that formatting
has succeeded (`do_format` panics when it cannot make an inode, and `PANIC` prints and goes
on). `NoSharing` and `OnlyFailuresLose`, which speak of the sectors of these two inodes as
well, assume `[]SystemIntact`: on a full disk `inode_reserve_indirect` writes a block of
pointers to sector 0 (`fs/inode.c:428`). The shell goes on with the free map in memory;
only the next start finds it gone, and that start is not modelled (see Not modelled). In
both passing runs `SystemIntact` holds throughout: `files_roomy` never fills the disk,
`files_full` never needs a block of pointers. The theorems also cover a disk that is full
while files of any size grow.

The properties are far from inductive. That `rm` gives back all sectors of a file and
no other's needs that the pointers in memory are those on disk, that no path of the
file leads where another leads, and that a freed inode is nobody's. The invariant
`Inv` is `Good(fs, dir, open, table, lost)`:

* `Directory`: entries without gaps, no name and no inode twice;
* `Forest`: the pointers of each inode, the open one's if it is open, span a tree
  (`Tree`: no two paths lead to one sector, all are marked), and the trees have nothing
  in common with each other or with the inodes (`Apart`). It speaks of all the pointers
  an inode has, those behind its end included, which a failed growth leaves in memory;
* `Held`: the inode on disk has all the sectors of its length;
* `OpenInodes`: an open inode has the length of the one on disk and its pointers, and
  perhaps more;
* `Tabled`: a file of the table is in the directory under its sector, or its inode was
  freed and it is not `live`;
* `Accounted`: a marked sector is in `lost` or is some inode's.

The parts of the argument build on each other:

* paths: no two indexes have one path (`DataPathInjective`), a file's paths are closed
  under prefixes and finite (`PathsClosed`, `PathsFinite`), and `Before` orders them so
  that no two lacking paths are given one sector (`BeforeIsEarlier`, `RankInjective`,
  `GivenSectors`);
* `ReserveExtends`: after `inode_reserve`, whether it succeeds or not, the pointers
  span a tree again, what was reached is reached as before, and everything new was
  free. `Extends` is all that the rest uses of it;
* `ForestReserve`, `ForestWrite`, `ForestNew`, `ForestDrop`: what this means for the
  other inodes' trees;
* `GrowSucceeds`, `GrowFails`, `NewSucceeds`, `NewFails`, `GiveBack`, `Reopen`: `Sound`
  after each way `inode_write_at`, `inode_create`, `inode_close` and `inode_open` end;
* one lemma for each function of the directory (`DirAdd`, `FilesysCreate`, `RemoveStep`)
  and one for each command (`KeepsCreate` to `KeepsRestart`).

`KeepsDefragment` needs the states between the two loops: while the files are removed,
all names not yet removed are still there (`Emptied`), and each creation leaves a good
state, whether it succeeds or not. The loops are recursive functions of the number of
turns, so that `Induction` applies (`StagesExist`, `RebuildGood`).

The refinement of `NamedFiles` maps the state to `Image(fs, dir)`, the length of each
file that has an entry, and to `outcome`; `Advances` says that one pair follows from
another in a step of `NamedFiles`, of the command and for the file that `outcome` names,
and one lemma for each command shows it (`AdvancesCreate` to `AdvancesDefragment`, and `FailureAdvances` for the rest). A
`copy_in` whose second step fails is seen to be "half": the file is there with the length
`filesys_create` gave it. A `defragment` that crashes has come to an empty file
(`FirstEmptyIs`), and the files there are then are the ones before it, with their lengths
(`RebuildRefills`). One that ends is the hard case: it must not be seen, although it
removes every file and creates it again, and a creation fails when the disk is full. That
none fails is an argument of counting:

* `Needs(size)` is the number of sectors a file of that size takes, its inode and its
  blocks of pointers included, `Free(f)` the number of unmarked ones.
  `ReserveEnough` says that `inode_reserve` succeeds when as many are free as paths are
  lacking, and `ReserveCounted` how many are free after it;
* a file owns at least `Needs` of its length (`OwnedCounted`), so removing it frees as
  many (`RemovalCounted`), and `CreateFits` turns them into a creation that succeeds and
  leaves the rest;
* the entry needs room too: `dir_add` takes sectors when the directory is to grow.
  `RootRoom`, which is part of the invariant of this theorem, says that the directory's
  inode reaches over all the entries there are (`CreateRoot`, `FilesInitially`), and
  there are entries enough since removing keeps them;
* `RebuildRefills` carries both sums through the two loops (`Refilled`, `RefillTurn`), and
  `RebuildKeeps` gives `SameFiles`.

### What stays with TLC

* liveness (`CallReturns`, `ExecReturns`, `PromptReturns`, `LineReturns`, `ScanEnds`,
  `JobEnds`), which is out of the prover's reach;
* `DriveIsLastCandidate` and `RunsChosenArm`: they compare with a fold over a
  sequence or with a recursive function, of which the provers know nothing without
  induction over data;
* `DefragmentPacks` of `FileSystem`, for which one would have to say not only how many
  sectors each creation takes but which;
* `PagesInPlace` and the refinement of `FrameKernel` for scripts that run others, which
  the theorems exclude.

## Not modelled

* the bytes of files, path names with directories (the code always uses the root
  directory), `inode_deny_write` and `run_proc_FIFO` (nothing calls them). The order
  in which commands' writes reach the disk is the cache's; the code promises nothing
  about the mixture of old and new sectors a crash leaves, so beyond `SectorStore`
  there is nothing to state; that goes for the crash of `defragment` too, after which
  the model stops.
* a start on a disk whose sector 0 was zeroed: the free map then reads as empty, and the
  first allocation has to make the map's own file longer, for which it allocates
  (`fs/free-map.c:33`), without end. `Restart` is not enabled there.
* `defragment` of more files than `MAX_FILES_IN_DIRECTORY`, which run over its buffers
  (`fs/fsutil2.c:269`) once the directory has grown: not enabled. And the write at
  the end of recover 0 (`fs/fsutil2.c:426`), which writes what was read from the same
  inode and changes no length.
* scripts that themselves call run or exec: the inner call frees the PCB the
  outer one is running, which is undefined.
* how a section is cut into words, and `debug.c`: text only.
* of `a2`: exec within a script, the copies of scripts in the backing store, the
  commands that only call the host system (`my_ls`, `my_mkdir`, `my_touch`,
  `my_cd`), and the schedulers SJF and AGING, which are commented out.
* of `a1`: empty scripts and lines that end in else, for which the code uses memory
  nobody has written.

## Plan

Modelled and checked: the cache, both paging kernels, inodes, free map, directory
and file commands, the command line, the partition scan, the lists and the first
shell. Proved: the safety properties of all of them but those listed under What stays
with TLC. What is left is `DefragmentPacks` of `FileSystem`.
