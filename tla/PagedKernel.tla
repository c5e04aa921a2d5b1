------------------------------ MODULE PagedKernel ------------------------------
(***************************************************************************)
(* The kernel of the shell with demand paging (a3/kernel.c, pcb.c, cpu.c,  *)
(* linked_list.c, and exec, run, set and resetmem of interpreter.c).       *)
(* exec turns each script into a process with a page table, loads its      *)
(* first two pages, and runs all processes round-robin, two lines a turn.  *)
(* A line whose page is not in the frame store is a page fault: the next   *)
(* lines of the script's file are read into a frame, if need be that of    *)
(* the least recently used page, and the process goes to the end of the    *)
(* ready queue.  When every process is done all frames are given back and  *)
(* the prompt returns.                                                     *)
(*                                                                         *)
(* The three linked lists are sequences; the elements are pids, and pairs  *)
(* of a pid and a page number.                                             *)
(***************************************************************************)
EXTENDS ShellMemory, Sequences, SequencesExt, FiniteSets

CONSTANTS
    Script,     \* the names of the scripts a user can pass to exec
    Lines,      \* [Script -> Seq(Command)]: the lines of each file
    Trailing,   \* the scripts whose last line ends in a newline
    Missing,    \* the scripts whose file does not exist
    Var, Val,   \* the variables and values a user can pass to set
    MaxPid      \* bound: the user calls exec while pids are left

ASSUME KernelAssumption ==
    /\ Trailing \subseteq Script
    /\ Missing \subseteq Script
    /\ \A s \in Script : Len(Lines[s]) \in Nat \ {0}
    /\ None \notin Nat    \* the word "none" is no pid
    /\ MaxPid \in Nat

VARIABLES
    mem,            \* shellmemory
    pcb,            \* the PCBs of ALL_PCB, by pid
    QUEUE,          \* the ready queue
    LRU_CACHE,      \* the pages in the frame store, most recently used first
    PID_counter,
    mode,           \* prompt, load and fill (new_proc), run (run_proc_RR) or exited
    args,           \* the scripts that exec has still to load
    turn,           \* the process being filled or popped, and the pages or lines it has left
    last,           \* the line executed last
    bye,            \* quit has shut down the file system and said "Bye!"
    since,          \* history: who had a turn since this process had one
    faked           \* history: a line that was executed has been taken for a page fault

vars == <<mem, pcb, QUEUE, LRU_CACHE, PID_counter, mode, args, turn, last, bye, since, faked>>

Unset == 1000   \* PAGE_init's index of a page that was never loaded

NoTurn == [pid |-> 0, left |-> 0, back |-> FALSE]

NoLine == [pid |-> 0, script |-> "none", line |-> 0]

Empty == <<>>   \* a function with no pids

--------------------------------------------------------------------------------
(***************************************************************************)
(* Files, pages and processes.                                             *)
(***************************************************************************)

\* The newlines of the file that end a line with something in it.
NewlinesCounted(s) ==
    {k \in 1 .. Len(Lines[s]) : /\ k < Len(Lines[s]) \/ s \in Trailing
                                /\ Lines[s][k].op # "blank"}

count_lines(s) == Cardinality(NewlinesCounted(s)) + 1

PAGE_table_size(lines) == IF lines % 3 = 0 THEN lines \div 3 ELSE lines \div 3 + 1

PAGE_init == [index |-> [j \in 0 .. 2 |-> Unset], valid |-> [j \in 0 .. 2 |-> FALSE]]

EvictedPage == [index |-> [j \in 0 .. 2 |-> 0], valid |-> [j \in 0 .. 2 |-> FALSE]]

NewPCB(s) ==
    LET n == PAGE_table_size(count_lines(s))
    IN [script |-> s, size |-> count_lines(s), pos |-> 0,
        page_table |-> [i \in 0 .. n - 1 |-> PAGE_init],
        program_counter |-> [i \in 0 .. n - 1 |-> 0]]

\* A slip to compare with: the third line of a page is not read.
LinesLeftTwo(p) == LET n == Len(Lines[p.script]) - p.pos IN IF n < 2 THEN n ELSE 2

\* How many of the next three fgets calls find a line.
LinesLeft(p) == LET n == Len(Lines[p.script]) - p.pos IN IF n < 3 THEN n ELSE 3

\* load_PAGE: a frame, then up to three lines from where the file stands (there
\* is no seek to the page), or nothing when no frame is free.
LoadedMem(m, pid, p) ==
    LET lines == [k \in 1 .. LinesLeft(p) |-> [script |-> p.script, line |-> p.pos + k]]
    IN IF FreeFrames(m) = {} THEN m ELSE FrameLoad(m, FirstFrame(m), lines, pid)

LoadedPCB(m, p, i) ==
    LET f == FirstFrame(m)
    IN IF FreeFrames(m) = {} THEN p
       ELSE [p EXCEPT !.pos = @ + LinesLeft(p),
                      !.page_table[i] = [index |-> [j \in 0 .. 2 |-> f + j],
                                         valid |-> [j \in 0 .. 2 |-> j < LinesLeft(p)]]]

\* The page whose next line is to run: the first that is not used up.
CurrentPage(p) == CHOOSE i \in DOMAIN p.page_table :
                      /\ p.program_counter[i] # 3
                      /\ \A k \in 0 .. i - 1 : p.program_counter[k] = 3

PCB_done(p) == \A i \in DOMAIN p.page_table : p.program_counter[i] = 3

queue_done == \A k \in DOMAIN QUEUE : PCB_done(pcb[QUEUE[k]])

ThePage(e) == pcb[e.pid].page_table[e.page]

PAGE_equal(e, f) == ThePage(e).index[0] = ThePage(f).index[0]

\* A slip to compare with: the page is added at the head and not removed.
AddToHeadOnly(list, e) == <<e>> \o list

\* remove_elem, then add_head.
MoveToHead(list, e) ==
    LET k == CHOOSE k \in DOMAIN list : /\ PAGE_equal(list[k], e)
                                        /\ \A l \in 1 .. k - 1 : ~PAGE_equal(list[l], e)
    IN <<list[k]>> \o RemoveAt(list, k)

--------------------------------------------------------------------------------
(***************************************************************************)
(* Commands, as far as the kernel notices them.                            *)
(***************************************************************************)

Effect(m, c) == CASE c.op = "set"      -> MemSetValue(m, c.var, c.val)
                  [] c.op = "resetmem" -> ResetVarZone(m)
                  [] OTHER             -> m

\* What parseInput returns for the line: a successful rm returns 1, and so does a
\* read that gets all the bytes it asked for ("rm" stands for both, neither of which
\* the memory notices); quit returns -1, and the other commands 0 or an error code
\* greater than 1.
CommandRet(c) == CASE c.op = "rm"    -> 1
                   [] c.op = "quit"  -> -1
                   [] c.op = "blank" -> 7
                   [] OTHER          -> 0

--------------------------------------------------------------------------------
Init == /\ mem = MemInit
        /\ pcb = Empty
        /\ QUEUE = <<>>
        /\ LRU_CACHE = <<>>
        /\ PID_counter = 1
        /\ mode = "prompt"
        /\ args = <<>>
        /\ turn = NoTurn
        /\ last = NoLine
        /\ bye = FALSE
        /\ since = Empty
        /\ faked = FALSE

\* set and resetmem typed at the prompt.
SetVar(v, x) == /\ mode = "prompt"
                /\ mem' = MemSetValue(mem, v, x)
                /\ UNCHANGED <<pcb, QUEUE, LRU_CACHE, PID_counter, mode, args,
                               turn, last, bye, since, faked>>

ResetMem == /\ mode = "prompt"
            /\ mem' = ResetVarZone(mem)
            /\ UNCHANGED <<pcb, QUEUE, LRU_CACHE, PID_counter, mode, args,
                           turn, last, bye, since, faked>>

\* exec with one to three scripts, or run with one.
Exec(scripts) == /\ mode = "prompt"
                 /\ PID_counter + Len(scripts) <= MaxPid + 1
                 /\ mode' = "load"
                 /\ args' = scripts
                 /\ UNCHANGED <<mem, pcb, QUEUE, LRU_CACHE, PID_counter,
                                turn, last, bye, since, faked>>

\* PCB_init loads the first two pages, or the only one.
PagesAtStart(p) == IF Cardinality(DOMAIN p.page_table) > 1 THEN 2 ELSE 1

\* new_proc, up to the point where PCB_init has set up the page table.
NewProc ==
    /\ mode = "load"
    /\ args # <<>>
    /\ Head(args) \notin Missing
    /\ LET p == NewPCB(Head(args))
       IN /\ pcb' = [q \in DOMAIN pcb \cup {PID_counter} |->
                        IF q = PID_counter THEN p ELSE pcb[q]]
          /\ turn' = [pid |-> PID_counter, left |-> PagesAtStart(p), back |-> FALSE]
    /\ since' = [q \in DOMAIN pcb \cup {PID_counter} |-> {}]
    /\ PID_counter' = PID_counter + 1
    /\ args' = Tail(args)
    /\ mode' = "fill"
    /\ UNCHANGED <<mem, QUEUE, LRU_CACHE, last, bye, faked>>

\* Its next page; after the last one the process enters the ready queue and its
\* pages the LRU list, page 0 first.
FillPage ==
    LET pid == turn.pid
        n == PagesAtStart(pcb[pid])
    IN /\ mode = "fill"
       /\ FreeFrames(mem) # {}
       /\ mem' = LoadedMem(mem, pid, pcb[pid])
       /\ pcb' = [pcb EXCEPT ![pid] = LoadedPCB(mem, @, n - turn.left)]
       /\ IF turn.left > 1
          THEN /\ turn' = [turn EXCEPT !.left = @ - 1]
               /\ UNCHANGED <<QUEUE, LRU_CACHE, mode>>
          ELSE /\ turn' = NoTurn
               /\ QUEUE' = Append(QUEUE, pid)
               /\ LRU_CACHE' = [k \in 1 .. n |-> [pid |-> pid, page |-> n - k]] \o LRU_CACHE
               /\ mode' = "load"
       /\ UNCHANGED <<PID_counter, args, last, bye, since, faked>>

\* PCB_init calls exit(99) when the file is missing or no frame is left.
NewProcFails ==
    /\ \/ mode = "load" /\ args # <<>> /\ Head(args) \in Missing
       \/ mode = "fill" /\ FreeFrames(mem) = {}
    /\ mode' = "exited"
    /\ UNCHANGED <<mem, pcb, QUEUE, LRU_CACHE, PID_counter, args, turn, last, bye, since, faked>>

AllLoaded == /\ mode = "load"
             /\ args = <<>>
             /\ mode' = "run"
             /\ UNCHANGED <<mem, pcb, QUEUE, LRU_CACHE, PID_counter, args,
                            turn, last, bye, since, faked>>

\* run_proc_RR pops a process: two lines if it has more than one left, one if it
\* has one, and none, dropping the process, if it has run all of them.
Pop == /\ mode = "run"
       /\ turn = NoTurn
       /\ ~queue_done
       /\ LET pid == Head(QUEUE)
              size == pcb[pid].size
          IN /\ turn' = IF size = 0 THEN NoTurn
                        ELSE [pid |-> pid, left |-> IF size > 1 THEN 2 ELSE 1, back |-> size > 1]
             /\ since' = IF size = 0 THEN since
                         ELSE [q \in DOMAIN since |-> IF q = pid THEN {} ELSE since[q] \cup {pid}]
       /\ QUEUE' = Tail(QUEUE)
       /\ UNCHANGED <<mem, pcb, LRU_CACHE, PID_counter, mode, args, last, bye, faked>>

Running == mode = "run" /\ turn # NoTurn

RunningPage == [pid |-> turn.pid, page |-> CurrentPage(pcb[turn.pid])]

RunningLine == pcb[turn.pid].program_counter[RunningPage.page]

RunningAt == ThePage(RunningPage).index[RunningLine]

Valid == ThePage(RunningPage).valid[RunningLine]

\* The line in memory at a position, and its command.
Fetched(m, at) == [pid |-> turn.pid, script |-> m[at].value.script, line |-> m[at].value.line]

Command == LET f == Fetched(mem, RunningAt) IN Lines[f.script][f.line]

StepPCB(p, i) == [p EXCEPT !.program_counter[i] = @ + 1, !.size = @ - 1]

\* cpu_run executes the line; run_proc moves its page to the head of the list.
RunLine ==
    /\ Running
    /\ Valid
    /\ CommandRet(Command) # 1
    /\ last' = Fetched(mem, RunningAt)
    /\ mem' = Effect(mem, Command)
    /\ pcb' = [pcb EXCEPT ![turn.pid] = StepPCB(@, RunningPage.page)]
    /\ bye' = (bye \/ Command.op = "quit")
    /\ LRU_CACHE' = MoveToHead(LRU_CACHE, RunningPage)
    /\ turn' = IF turn.left = 1 THEN NoTurn ELSE [turn EXCEPT !.left = @ - 1]
    /\ QUEUE' = IF turn.left = 1 /\ turn.back THEN Append(QUEUE, turn.pid) ELSE QUEUE
    /\ UNCHANGED <<PID_counter, mode, args, since, faked>>

\* A slip to compare with: the most recently used page goes.
VictimMostRecent == LRU_CACHE[1]

\* The page-fault half of run_proc: m and ps are the memory and the processes
\* when load_PAGE is called for page e.  The victim is the tail of the list.
Victim == LRU_CACHE[Len(LRU_CACHE)]

EvictNeeded(m) == FreeFrames(m) = {}

EvictedMem(m, ps) ==
    IF EvictNeeded(m)
    THEN LET page == ps[Victim.pid].page_table[Victim.page]
         IN MemFree(m, {page.index[j] : j \in 0 .. 2})
    ELSE m

\* A slip to compare with: the victim's page table is not told.
EvictedPCBsUntold(m, ps) == ps

EvictedPCBs(m, ps) ==
    IF EvictNeeded(m)
    THEN [ps EXCEPT ![Victim.pid].page_table[Victim.page] = EvictedPage]
    ELSE ps

\* Slips to compare with: back to the head of the queue; not put back.
RequeueAtHead(q, pid) == <<pid>> \o q

RequeueForgotten(q, pid) == q

Requeue(q, pid) == Append(q, pid)

HandleFault(m, ps, e) ==
    LET m1 == EvictedMem(m, ps)
        ps1 == EvictedPCBs(m, ps)
    IN /\ mem' = LoadedMem(m1, e.pid, ps1[e.pid])
       /\ pcb' = [ps1 EXCEPT ![e.pid] = LoadedPCB(m1, @, e.page)]
       /\ LRU_CACHE' = <<e>> \o (IF EvictNeeded(m) THEN Front(LRU_CACHE) ELSE LRU_CACHE)
       /\ QUEUE' = Requeue(QUEUE, e.pid)
       /\ turn' = NoTurn
       /\ UNCHANGED <<PID_counter, mode, args, since>>

PageFault == /\ Running
             /\ ~Valid
             /\ HandleFault(mem, pcb, RunningPage)
             /\ UNCHANGED <<last, bye, faked>>

\* A line that was executed but returned 1 is handled as a page fault too: the next
\* lines of the file replace its page, and the page is in the list a second time.
RunLineReturning1 ==
    /\ Running
    /\ Valid
    /\ CommandRet(Command) = 1
    /\ last' = Fetched(mem, RunningAt)
    /\ HandleFault(mem,
                   [pcb EXCEPT ![turn.pid] = StepPCB(@, RunningPage.page)],
                   RunningPage)
    /\ faked' = TRUE
    /\ UNCHANGED bye

\* A slip to compare with: the loop over the page table stops one page early.
PageIndexesButLast ==
    UNION {{pcb[pid].page_table[i].index[j] :
               i \in DOMAIN pcb[pid].page_table \ {Cardinality(DOMAIN pcb[pid].page_table) - 1},
               j \in 0 .. 2} :
           pid \in DOMAIN pcb}

PageIndexes == UNION {{pcb[pid].page_table[i].index[j] :
                           i \in DOMAIN pcb[pid].page_table, j \in 0 .. 2} :
                       pid \in DOMAIN pcb}

\* A slip to compare with: clear_frame clears a fourth line.
FreedLinesFour == UNION {at .. at + 3 : at \in PageIndexes}

\* free_PCB calls clear_frame, which clears three lines, for each of the three
\* lines of every page.
FreedLines == UNION {FrameLines(at) : at \in PageIndexes}

\* run_proc_RR returns, and with it exec.
Finish == /\ mode = "run"
          /\ turn = NoTurn
          /\ queue_done
          /\ mem' = MemFree(mem, FreedLines)
          /\ pcb' = Empty
          /\ QUEUE' = <<>>
          /\ LRU_CACHE' = <<>>
          /\ since' = Empty
          /\ mode' = "prompt"
          /\ UNCHANGED <<PID_counter, args, turn, last, bye, faked>>

\* quit typed at the prompt makes main exit.
Quit == /\ mode = "prompt"
        /\ mode' = "exited"
        /\ bye' = TRUE
        /\ UNCHANGED <<mem, pcb, QUEUE, LRU_CACHE, PID_counter, args, turn, last, since, faked>>

Kernel == \/ NewProc \/ FillPage \/ NewProcFails \/ AllLoaded
          \/ Pop \/ RunLine \/ PageFault \/ RunLineReturning1
          \/ Finish

User == \/ \E v \in Var, x \in Val : SetVar(v, x)
        \/ ResetMem
        \/ \E n \in 1 .. 3 : \E scripts \in [1 .. n -> Script] : Exec(scripts)
        \/ Quit

Next == Kernel \/ User

Spec == Init /\ [][Next]_vars

\* Once called, exec keeps executing: it waits for nothing.
FairSpec == Spec /\ WF_vars(Kernel)

--------------------------------------------------------------------------------
(***************************************************************************)
(* Properties.  Those about pages end with the first command that returns  *)
(* 1: run_proc takes it for a page fault, and loads the wrong lines.       *)
(***************************************************************************)

Pid == 1 .. MaxPid

Pages == UNION {{[pid |-> pid, page |-> i] : i \in DOMAIN pcb[pid].page_table} : pid \in DOMAIN pcb}

\* The pages that are in the frame store.
Resident == {e \in Pages : ThePage(e).valid[0]}

\* The LRU list holds every resident page once and nothing else, whatever
\* sequence of faults, evictions and reloads: pop_tail then always has a
\* victim, and remove_elem always finds the page it looks for.
LruListsResidents ==
    ~faked => /\ mode \in {"prompt", "load", "run"} => ToSet(LRU_CACHE) = Resident
              /\ Cardinality(ToSet(LRU_CACHE)) = Len(LRU_CACHE)

\* A valid line of a page table points at that very line of the script, tagged
\* with the process: frames never overlap, no eviction or load disturbs another
\* page, and reading on in the file without a seek brings in the right page.
PagesIntact ==
    ~faked => \A e \in Resident : \A j \in 0 .. 2 :
                 ThePage(e).valid[j] =>
                     mem[ThePage(e).index[j]] =
                         [var |-> e.pid,
                          value |-> [script |-> pcb[e.pid].script,
                                     line |-> 3 * e.page + j + 1]]

\* Every frame is free again when the prompt is back, so that the next exec
\* finds the whole frame store: run_proc_RR frees by page table alone, and a
\* frame no page table points at would be lost.
NoFrameLeft == ~faked /\ mode = "prompt" => \A p \in FrameZone : mem[p] = FreeLine

UsedUp(p, i) == \A j \in 0 .. 2 : p.page_table[i].valid[j] => j < p.program_counter[i]

\* A page is only evicted when all its lines have been run.  load_PAGE depends on
\* it: reloading an unfinished page would read the lines that follow instead.
OnlyUsedUpPagesEvicted ==
    [][~faked' => \A e \in Resident :
                     e.pid \in DOMAIN pcb' /\ ~pcb'[e.pid].page_table[e.page].valid[0]
                     => UsedUp(pcb[e.pid], e.page)]_vars

\* No process gets a second turn while another one that still has lines to run
\* waits for its first, page faults included.
NoOvertaking ==
    [][turn = NoTurn /\ turn' # NoTurn
       => \A k \in 2 .. Len(QUEUE) :
             pcb[QUEUE[k]].size > 0 => turn'.pid \notin since[QUEUE[k]]]_vars

\* Loading and evicting pages never touches the variables.
PagingKeepsVariables ==
    [][mode' # "prompt" /\ last' = last /\ mode # "prompt"
       => \A p \in VarZone : mem'[p] = mem[p]]_vars

\* The last line that can be part of a frame.
LastFrameLine == 3 * (FRAME_STORE_SIZE \div 3) - 1

\* free_PCB only clears lines of the array: when run_proc_RR ends, no page is left
\* with the index 1000 it got from PAGE_init.  It clears two lines too many behind
\* each frame, and behind the last frame these may be variables; but never more
\* than the first two lines behind it: all other variables survive exec.
FreeingClearsAtMostTwo ==
    [][mode = "run" /\ mode' = "prompt"
       => /\ FreedLines \subseteq Memory
          /\ \A p \in VarZone : p > LastFrameLine + 2 => mem'[p] = mem[p]]_vars

Done(p) == count_lines(p.script) - p.size

Runner == INSTANCE ScriptRunner
            WITH procs <- [pid \in DOMAIN pcb |->
                              [script |-> pcb[pid].script, done |-> Done(pcb[pid])]]

\* Paging and round-robin are invisible in what is executed: every process runs
\* the lines of its script in order, each of them once, and the prompt returns
\* when all have been run ("run SCRIPT.TXT  Executes the file SCRIPT.TXT"), up to
\* the first command that returns 1.
ImplementsScriptRunner == Runner!Init /\ [][~faked' => Runner!Next]_(Runner!vars)

\* exec comes back: to the prompt or, when a script cannot be loaded, by ending
\* the shell.
ExecReturns == (mode \in {"load", "fill", "run"}) ~> (mode \in {"prompt", "exited"})

================================================================================
