------------------------------ MODULE FrameKernel ------------------------------
(***************************************************************************)
(* The kernel of the second assignment (a2/kernel.c, shellmemory.c,        *)
(* ready_queue.c, pcb.c): scripts run in pages of three lines, frames are  *)
(* shared by all processes and never given back, and a page that finds no  *)
(* hole takes the least recently used frame.  A program counter is an      *)
(* index into the memory, not into the script.                             *)
(*                                                                         *)
(* A line of a script is at least three characters long, newline included: *)
(* fseek(fp, -FRAME_SIZE, SEEK_CUR) then goes back into the line read      *)
(* last, and the tail of that line is read again as a line.  No command is *)
(* that short, so running a tail does nothing.                             *)
(***************************************************************************)
EXTENDS Integers, Sequences, FiniteSets, FiniteSetsExt

CONSTANTS
    THRESHOLD,          \* lines of the frame store
    VARMEMSIZE,         \* lines of the variable store
    None,               \* the word "none", as a key and as a value
    PAGE_TABLE_SIZE,    \* pages a process can have
    Script,             \* the names of scripts
    Lines,              \* for each script the sequence of its commands
    Trailing,           \* the scripts whose last line ends in a newline
    Missing,            \* the scripts there is no file for
    Var, Val,           \* what the user sets at the prompt
    MaxPid,             \* bound: exec starts no more processes
    MaxTimer            \* bound: no more lines are executed

FRAME_SIZE == 3
MAX_INT == 2147483646

ASSUME FrameKernelAssumption ==
    /\ THRESHOLD \in Nat \ {0, 1, 2}
    /\ VARMEMSIZE \in Nat \ {0, 1}
    /\ PAGE_TABLE_SIZE \in Nat \ {0, 1}
    /\ MaxPid \in Nat /\ MaxTimer \in Nat
    /\ Script \subseteq DOMAIN Lines
    /\ Trailing \subseteq Script /\ Missing \subseteq Script
    /\ \A s \in Script : Len(Lines[s]) \in Nat

VARIABLES
    mem,            \* shellmemory: keys and values
    last_used,      \* shellmemory: when a line was last used
    timer,          \* the lines executed so far
    pcb,            \* the processes, by pid
    queue,          \* the ready queue
    pid_counter,    \* the next pid
    mode,           \* prompt, args, schedule, run, exited, crashed, or why a page is loaded
    args,           \* the scripts of the command that are not loaded yet
    policy,         \* FCFS for one script, RR for more
    load,           \* the process and the page being loaded
    turn,           \* execute_process: the process, page_num, lines left
    last,           \* history: the line executed last
    procs           \* history: the lines that each process has executed

store == <<mem, last_used>>

history == <<last, procs>>

vars == <<store, timer, pcb, queue, pid_counter, mode, args, policy, load, turn, history>>

Mem == INSTANCE ShellMemory WITH FRAME_STORE_SIZE <- THRESHOLD, VAR_STORE_SIZE <- VARMEMSIZE

Frame == 0 .. THRESHOLD \div FRAME_SIZE - 1

Page == 0 .. PAGE_TABLE_SIZE - 1

LinesOfFrame(f) == f * FRAME_SIZE .. f * FRAME_SIZE + 2

NoTurn == [pid |-> 0, page |-> 0, left |-> 0]

NoLoad == [pid |-> 0, page |-> 0]

NoLine == [pid |-> 0, script |-> "none", line |-> 0]

NoPages == [i \in Page |-> -1]

Without(f, x) == [y \in DOMAIN f \ {x} |-> f[y]]

With(f, x, v) == [y \in DOMAIN f \cup {x} |-> IF y = x THEN v ELSE f[y]]

Init == /\ mem = Mem!MemInit
        /\ last_used = [i \in Mem!Memory |-> 0]
        /\ timer = 0
        /\ pcb = <<>>
        /\ queue = <<>>
        /\ pid_counter = 1
        /\ mode = "prompt"
        /\ args = <<>>
        /\ policy = "FCFS"
        /\ load = NoLoad
        /\ turn = NoTurn
        /\ last = NoLine
        /\ procs = <<>>

--------------------------------------------------------------------------------
(***************************************************************************)
(* Loading a page, load_page_into_frame_store.  An open file is how many   *)
(* lines were read, whether the tail of the last one is to be read again,  *)
(* and the end-of-file flag.                                               *)
(***************************************************************************)

\* What the calls of fgets from here on will deliver.
Unread(p) ==
    LET next == IF p.tail THEN p.pos ELSE p.pos + 1
    IN [k \in 1 .. Len(Lines[p.script]) - next + 1 |->
           [script |-> p.script, line |-> next + k - 1, tail |-> p.tail /\ k = 1]]

Loading == pcb[load.pid]

Holes == {i \in 0 .. THRESHOLD - 1 : mem[i].var = None}

Evicts == Holes = {} /\ ~Loading.eof

\* Only the first line of a frame tells when the frame was used.
pick_victim_frame ==
    CHOOSE f \in Frame : \A g \in Frame :
        \/ last_used[f * FRAME_SIZE] < last_used[g * FRAME_SIZE]
        \/ last_used[f * FRAME_SIZE] = last_used[g * FRAME_SIZE] /\ f <= g

\* The line the page begins at: the first hole, the frame taken, or nowhere.
FirstLine == IF Holes # {} THEN Min(Holes)
             ELSE IF Evicts THEN pick_victim_frame * FRAME_SIZE
             ELSE THRESHOLD

\* A slip to compare with: the third line of a page is not read.
LinesReadTwo(i) == IF Loading.eof THEN 0 ELSE Min({2, THRESHOLD - i, Len(Unread(Loading))})

\* How many lines are then read.
LinesRead(i) == IF Loading.eof THEN 0 ELSE Min({FRAME_SIZE, THRESHOLD - i, Len(Unread(Loading))})

\* Where the page begins and how long it is.
Loads == {[at |-> i, n |-> LinesRead(i)] : i \in {FirstLine}}

\* The file ends with the last line read when no newline follows it; else the
\* next fgets finds nothing, leaves its line of the memory alone, and ends it.
EndsWith(r) == r.n > 0 /\ r.n = Len(Unread(Loading)) /\ Loading.script \notin Trailing

Misses(r) == ~Loading.eof /\ ~EndsWith(r) /\ r.n < FRAME_SIZE /\ r.at + r.n < THRESHOLD

\* A slip to compare with: padding is left out.
PaddingForgotten(r) == {}

\* The rest of the page is padded once the file has ended.
Padding(r) == IF EndsWith(r) THEN r.at + r.n .. r.at + 2
              ELSE IF Misses(r) THEN r.at + r.n + 1 .. r.at + 2
              ELSE {}

Read(r) == r.at .. r.at + r.n - 1

TakenFrame(r) == r.at \div FRAME_SIZE

Taken(r) == IF Evicts THEN LinesOfFrame(TakenFrame(r)) ELSE {}

LoadedMem(r) ==
    [k \in Mem!Memory |->
        IF k \in Read(r) THEN [var |-> Loading.script, value |-> Unread(Loading)[k - r.at + 1]]
        ELSE IF k \in Padding(r) THEN [var |-> Loading.script, value |-> None]
        ELSE IF k \in Taken(r) THEN Mem!FreeLine
        ELSE mem[k]]

LoadedUsed(r) ==
    [k \in Mem!Memory |-> IF k \in Read(r) THEN timer
                          ELSE IF k \in Padding(r) \cup Taken(r) THEN 0
                          ELSE last_used[k]]

\* The page table of the process that loads loses every entry for the frame
\* taken, and that of the first process in the queue that has one its first.
Cleared(table, f) == [i \in Page |-> IF table[i] = f THEN -1 ELSE table[i]]

ClearedFirst(table, f) ==
    [table EXCEPT ![CHOOSE i \in Page : table[i] = f /\ \A k \in 0 .. i - 1 : table[k] # f] = -1]

Owners(f) == {k \in DOMAIN queue : \E i \in Page : pcb[queue[k]].page_table[i] = f}

\* A slip to compare with: only the process that loads is told.
ToldUntold(f) == pcb

Told(f) ==
    IF Owners(f) = {} THEN pcb
    ELSE [pcb EXCEPT ![queue[Min(Owners(f))]].page_table = ClearedFirst(@, f)]

Others(r) == IF Evicts THEN Told(TakenFrame(r)) ELSE pcb

OwnTable(r) == IF Evicts THEN Cleared(Loading.page_table, TakenFrame(r)) ELSE Loading.page_table

\* The process after the page was loaded.
Loaded(r) ==
    [Loading EXCEPT !.pos = @ + r.n - (IF Loading.tail /\ r.n > 0 THEN 1 ELSE 0),
                    !.tail = @ /\ r.n = 0,
                    !.eof = @ \/ EndsWith(r) \/ Misses(r),
                    !.page_table = IF r.n > 0 THEN [OwnTable(r) EXCEPT ![load.page] = TakenFrame(r)]
                                   ELSE OwnTable(r)]

--------------------------------------------------------------------------------
(***************************************************************************)
(* Commands at the prompt.                                                 *)
(***************************************************************************)

SetVar(v, x) == /\ mode = "prompt"
                /\ mem' = Mem!MemSetValue(mem, v, x)
                /\ UNCHANGED <<last_used, timer, pcb, queue, pid_counter, mode, args, policy,
                               load, turn, history>>

ResetMem == /\ mode = "prompt"
            /\ mem' = Mem!ResetVarZone(mem)
            /\ UNCHANGED <<last_used, timer, pcb, queue, pid_counter, mode, args, policy,
                           load, turn, history>>

Quit == /\ mode = "prompt"
        /\ mode' = "exited"
        /\ UNCHANGED <<store, timer, pcb, queue, pid_counter, args, policy, load, turn, history>>

\* exec with one to three scripts; with one it is run.
Exec(scripts) ==
    /\ mode = "prompt"
    /\ pid_counter + Len(scripts) <= MaxPid + 1
    /\ mode' = "args"
    /\ args' = scripts
    /\ policy' = IF Len(scripts) = 1 THEN "FCFS" ELSE "RR"
    /\ UNCHANGED <<store, timer, pcb, queue, pid_counter, load, turn, history>>

--------------------------------------------------------------------------------
(***************************************************************************)
(* process_initialize.                                                     *)
(***************************************************************************)

NewPCB(s) == [script |-> s, pos |-> 0, tail |-> FALSE, eof |-> FALSE,
              page_table |-> NoPages, PC |-> 0]

Initialize(s) ==
    /\ s \notin Missing
    /\ pcb' = With(pcb, pid_counter, NewPCB(s))
    /\ procs' = With(procs, pid_counter, [script |-> s, done |-> 0])
    /\ load' = [pid |-> pid_counter, page |-> 0]
    /\ pid_counter' = pid_counter + 1
    /\ mode' = "init"
    /\ UNCHANGED <<store, timer, queue, policy, turn, last>>

NextScript == mode = "args" /\ Initialize(Head(args)) /\ args' = Tail(args)

\* exec returns with what it has loaded left in the queue.  run looks for the
\* error code 11, which there is not, and goes on.
NoSuchFile ==
    /\ mode = "args"
    /\ Head(args) \in Missing
    /\ args' = <<>>
    /\ mode' = IF policy = "FCFS" THEN "schedule" ELSE "prompt"
    /\ UNCHANGED <<store, timer, pcb, queue, pid_counter, policy, load, turn, history>>

LoadFirst ==
    /\ mode = "init"
    /\ load.page = 0
    /\ \E r \in Loads : /\ mem' = LoadedMem(r)
                        /\ last_used' = LoadedUsed(r)
                        /\ pcb' = With(Others(r), load.pid, Loaded(r))
    /\ load' = [load EXCEPT !.page = 1]
    /\ UNCHANGED <<timer, queue, pid_counter, mode, args, policy, turn, history>>

makePCB_withPageTable(p) == [p EXCEPT !.PC = p.page_table[0] * FRAME_SIZE]

\* The end of the loop over the quantum; scheduler_RR puts the process back.
EndTurn(q) ==
    IF turn.left > 1
    THEN turn' = [turn EXCEPT !.left = @ - 1] /\ mode' = "run" /\ queue' = q
    ELSE turn' = NoTurn /\ mode' = "schedule" /\ queue' = Append(q, turn.pid)

\* increment_lastused.
UsedNow(used, k) == IF k < THRESHOLD THEN [used EXCEPT ![k] = timer + 1] ELSE used

\* After the second page the process is put at the tail of the queue.
LoadSecond ==
    /\ mode = "init"
    /\ load.page = 1
    /\ turn = NoTurn
    /\ \E r \in Loads : /\ mem' = LoadedMem(r)
                        /\ last_used' = LoadedUsed(r)
                        /\ pcb' = With(Others(r), load.pid, makePCB_withPageTable(Loaded(r)))
    /\ load' = NoLoad
    /\ queue' = Append(queue, load.pid)
    /\ mode' = IF args = <<>> THEN "schedule" ELSE "args"
    /\ UNCHANGED <<timer, pid_counter, args, policy, turn, history>>

\* The same for run within a script; schedule_by_policy then does nothing, as it
\* is in_background, and the script goes on.
LoadSecondNested ==
    /\ mode = "init"
    /\ load.page = 1
    /\ turn # NoTurn
    /\ \E r \in Loads : /\ mem' = LoadedMem(r)
                        /\ last_used' = UsedNow(LoadedUsed(r), pcb[turn.pid].PC - 1)
                        /\ pcb' = With(Others(r), load.pid, makePCB_withPageTable(Loaded(r)))
    /\ load' = NoLoad
    /\ timer' = timer + 1
    /\ EndTurn(Append(queue, load.pid))
    /\ UNCHANGED <<pid_counter, args, policy, history>>

--------------------------------------------------------------------------------
(***************************************************************************)
(* The schedulers, and execute_process up to its first line.               *)
(***************************************************************************)

Quanta == IF policy = "RR" THEN 2 ELSE MAX_INT

\* A slip to compare with: the line after a page is not taken for the page's.
AtPageInside(p, i) == p.page_table[i] # -1 /\ p.PC \in LinesOfFrame(p.page_table[i])

\* The search for the program counter: it may be on a line of the page or, when
\* the page was run to its end, on the line after it.
AtPage(p, i) ==
    LET start == p.page_table[i] * FRAME_SIZE
    IN p.PC = start \/ (p.page_table[i] # -1 /\ p.PC \in start .. start + FRAME_SIZE)

Located(p) == \E i \in Page : AtPage(p, i)

PageOf(p) == CHOOSE i \in Page : AtPage(p, i) /\ \A k \in 0 .. i - 1 : ~AtPage(p, k)

\* The program counter is in no page of the process: execute_process goes back
\* three characters in the file, which also clears the end-of-file flag, forgets
\* all pages and loads one as page 0.
Rewound(p) == [p EXCEPT !.tail = TRUE, !.eof = FALSE, !.page_table = NoPages]

Search(pid, p, others, left) ==
    IF Located(p)
    THEN /\ turn' = [pid |-> pid, page |-> PageOf(p), left |-> left]
         /\ pcb' = With(others, pid, p)
         /\ load' = NoLoad
         /\ mode' = "run"
    ELSE /\ turn' = [pid |-> pid, page |-> 0, left |-> left]
         /\ pcb' = With(others, pid, Rewound(p))
         /\ load' = [pid |-> pid, page |-> 0]
         /\ mode' = "lost"

Dispatch ==
    /\ mode = "schedule"
    /\ queue # <<>>
    /\ queue' = Tail(queue)
    /\ Search(Head(queue), pcb[Head(queue)], pcb, Quanta)
    /\ UNCHANGED <<store, timer, pid_counter, args, policy, history>>

\* The search goes on, as long as it takes: there always is a line to load.
LoadLost ==
    /\ mode = "lost"
    /\ \E r \in Loads : /\ mem' = LoadedMem(r)
                        /\ last_used' = LoadedUsed(r)
                        /\ Search(load.pid, Loaded(r), Others(r), turn.left)
    /\ UNCHANGED <<timer, queue, pid_counter, args, policy, history>>

\* The scheduler finds the queue empty.
Return ==
    /\ mode = "schedule"
    /\ queue = <<>>
    /\ mode' = "prompt"
    /\ procs' = <<>>
    /\ UNCHANGED <<store, timer, pcb, queue, pid_counter, args, policy, load, turn, last>>

--------------------------------------------------------------------------------
(***************************************************************************)
(* The lines of a turn.                                                    *)
(***************************************************************************)

Current == pcb[turn.pid]

\* The program counter has left the page.
PageDone == /\ Current.PC % FRAME_SIZE = 0
            /\ Current.PC # Current.page_table[turn.page] * FRAME_SIZE

NextEntry == IF turn.page + 1 \in Page THEN Current.page_table[turn.page + 1] ELSE THRESHOLD

Moved(p, page) == [p EXCEPT !.PC = p.page_table[page] * FRAME_SIZE]

NextPage ==
    /\ mode = "run"
    /\ PageDone
    /\ NextEntry \in Frame
    /\ pcb' = [pcb EXCEPT ![turn.pid] = Moved(@, turn.page + 1)]
    /\ turn' = [turn EXCEPT !.page = @ + 1]
    /\ UNCHANGED <<store, timer, queue, pid_counter, mode, args, policy, load, history>>

Rotated(q) == IF q = <<>> THEN q ELSE Append(Tail(q), Head(q))

\* The next page is not there.  It is the next process in the queue, not this
\* one, that is put at the tail.
PageFault ==
    /\ mode = "run"
    /\ PageDone
    /\ NextEntry = -1
    /\ queue' = Rotated(queue)
    /\ load' = [pid |-> turn.pid, page |-> turn.page + 1]
    /\ mode' = "fault"
    /\ UNCHANGED <<store, timer, pcb, pid_counter, args, policy, turn, history>>

LoadFault ==
    /\ mode = "fault"
    /\ \E r \in Loads : /\ r.n > 0
                        /\ mem' = LoadedMem(r)
                        /\ last_used' = LoadedUsed(r)
                        /\ pcb' = With(Others(r), load.pid, Moved(Loaded(r), load.page))
    /\ turn' = [turn EXCEPT !.page = load.page]
    /\ load' = NoLoad
    /\ mode' = "run"
    /\ UNCHANGED <<timer, queue, pid_counter, args, policy, history>>

\* A slip to compare with: a process that ends is put back as if its turn were over.
TerminateRequeued(others) ==
    /\ pcb' = others
    /\ turn' = NoTurn
    /\ load' = NoLoad
    /\ mode' = "schedule"
    /\ queue' = Append(queue, turn.pid)
    /\ UNCHANGED <<timer, pid_counter, args, policy, history>>

\* terminate_process: the frames of the process stay as they are.
Terminate(others) ==
    /\ pcb' = Without(others, turn.pid)
    /\ turn' = NoTurn
    /\ load' = NoLoad
    /\ mode' = "schedule"
    /\ UNCHANGED <<timer, queue, pid_counter, args, policy, history>>

LoadFails ==
    /\ mode = "fault"
    /\ \E r \in Loads : /\ r.n = 0
                        /\ mem' = LoadedMem(r)
                        /\ last_used' = LoadedUsed(r)
                        /\ Terminate(Others(r))

\* There is no next page, or the line is padding.
Ends ==
    /\ mode = "run"
    /\ IF PageDone THEN NextEntry \notin Frame \cup {-1}
       ELSE Current.PC >= 0 /\ mem[Current.PC].value = None
    /\ Terminate(pcb)
    /\ UNCHANGED store

\* The program counter of a process without a first page is -3, and the line
\* there NULL.
Crashes ==
    /\ mode = "run"
    /\ ~PageDone
    /\ Current.PC < 0
    /\ mode' = "crashed"
    /\ UNCHANGED <<store, timer, pcb, queue, pid_counter, args, policy, load, turn, history>>

Executable == /\ mode = "run"
              /\ timer < MaxTimer
              /\ ~PageDone
              /\ Current.PC >= 0
              /\ mem[Current.PC].value # None

Line == mem[Current.PC].value

Command == IF Line.tail THEN [op |-> "bad"] ELSE Lines[Line.script][Line.line]

Effect(m, cmd) == CASE cmd.op = "set"      -> Mem!MemSetValue(m, cmd.var, cmd.val)
                    [] cmd.op = "resetmem" -> Mem!ResetVarZone(m)
                    [] OTHER               -> m

Recorded == /\ last' = [pid |-> turn.pid, script |-> Line.script, line |-> Line.line]
            /\ procs' = [procs EXCEPT ![turn.pid].done = @ + 1]

RunLine ==
    /\ Executable
    /\ Command.op \notin {"run", "quit"}
    /\ mem' = Effect(mem, Command)
    /\ last_used' = UsedNow(last_used, Current.PC)
    /\ timer' = timer + 1
    /\ pcb' = [pcb EXCEPT ![turn.pid].PC = @ + 1]
    /\ Recorded
    /\ EndTurn(queue)
    /\ UNCHANGED <<pid_counter, args, policy, load>>

\* A line with run, or quit, which ends the shell.
RunOrQuitLine ==
    /\ Executable
    /\ Command.op \in {"run", "quit"}
    /\ mode' = IF Command.op = "run" THEN "nested" ELSE "exited"
    /\ pcb' = [pcb EXCEPT ![turn.pid].PC = @ + 1]
    /\ Recorded
    /\ UNCHANGED <<store, timer, queue, pid_counter, args, policy, load, turn>>

\* What run does with the script it names.
Named == Lines[last.script][last.line].val

NestedRun == mode = "nested" /\ Initialize(Named) /\ UNCHANGED args

NestedNoSuchFile ==
    /\ mode = "nested"
    /\ Named \in Missing
    /\ last_used' = UsedNow(last_used, Current.PC - 1)
    /\ timer' = timer + 1
    /\ EndTurn(queue)
    /\ UNCHANGED <<mem, pcb, pid_counter, args, policy, load, history>>

Kernel == \/ NextScript \/ NoSuchFile \/ LoadFirst \/ LoadSecond \/ LoadSecondNested
          \/ Dispatch \/ LoadLost \/ Return
          \/ NextPage \/ PageFault \/ LoadFault \/ LoadFails \/ Ends \/ Crashes
          \/ RunLine \/ RunOrQuitLine \/ NestedRun \/ NestedNoSuchFile

User == \/ \E v \in Var, x \in Val : SetVar(v, x)
        \/ ResetMem
        \/ \E n \in 1 .. 3 : \E scripts \in [1 .. n -> Script] : Exec(scripts)
        \/ Quit

Next == Kernel \/ User

Spec == Init /\ [][Next]_vars

\* Once called, the kernel keeps executing: it waits for nothing.
FairSpec == Spec /\ WF_vars(Kernel)

--------------------------------------------------------------------------------
(***************************************************************************)
(* Properties.                                                             *)
(***************************************************************************)

Entry == {e \in (DOMAIN pcb) \X Page : pcb[e[1]].page_table[e[2]] # -1}

FrameOf(e) == pcb[e[1]].page_table[e[2]]

\* No two pages have one frame: a frame that is taken from a process leaves its
\* page table, be the process waiting in the queue or the one that takes it.
FramesDistinct == \A d, e \in Entry : FrameOf(d) = FrameOf(e) => d = e

\* A page table points at lines of the process's own script: page i holds the
\* lines from 3i + 1 on.
PagesInPlace ==
    \A e \in Entry : \A j \in 0 .. 2 :
        LET p == pcb[e[1]]
            n == FRAME_SIZE * e[2] + j + 1
        IN mem[FRAME_SIZE * FrameOf(e) + j] =
             [var |-> p.script,
              value |-> IF n <= Len(Lines[p.script])
                        THEN [script |-> p.script, line |-> n, tail |-> FALSE] ELSE None]

\* However its pages were taken away and loaded again, a process only executes
\* lines of its own script: its program counter is never left in a frame that
\* was given to another process.
OwnLinesOnly ==
    [][last' # last => last'.script = procs[last'.pid].script]_vars

Runner == INSTANCE ScriptRunner WITH Pid <- 1 .. 2 * MaxPid

\* Paging by physical program counters is invisible: every process executes the
\* lines of its script in order and once, and the prompt returns when all are
\* done ("run SCRIPT.TXT  Executes the file SCRIPT.TXT").
ImplementsScriptRunner == Runner!Spec

\* exec comes back, unless a script ends the shell.
ExecReturns == (mode \notin {"prompt", "exited"}) ~> (mode \in {"prompt", "exited"})

================================================================================
