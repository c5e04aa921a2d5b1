--------------------------- MODULE PagedKernelProofs ---------------------------
(***************************************************************************)
(* Proofs about PagedKernel for every set of scripts.  No process overtakes *)
(* another, whatever the scripts hold.  For scripts whose lines            *)
(* count_lines counts as fgets reads them, and a frame store of the six    *)
(* frames that three processes start with, paging is correct: the LRU      *)
(* policy never evicts a page that is still needed, so every line runs     *)
(* once and in order.                                                      *)
(***************************************************************************)
EXTENDS PagedKernel, WellFoundedInduction, FiniteSetTheorems, SequenceTheorems, TLAPS

\* A set of natural numbers that is not empty has a least element.
LEMMA LeastElement ==
    ASSUME NEW S \in SUBSET Nat, S # {}
    PROVE  \E i \in S : \A j \in S : i <= j
  <1>1. IsWellFoundedOn(OpToRel(<, Nat), Nat)
    BY NatLessThanWellFounded
  <1>2. PICK i \in S : \A j \in S : ~(<<j, i>> \in OpToRel(<, Nat))
    BY <1>1, WFMin
  <1>3. \A j \in S : ~(j < i)
    <2> SUFFICES ASSUME NEW j \in S, j < i PROVE FALSE
      OBVIOUS
    <2>1. <<j, i>> \in OpToRel(<, Nat)
      BY DEF OpToRel
    <2> QED
      BY <1>2, <2>1
  <1> QED
    BY <1>3

--------------------------------------------------------------------------------
(***************************************************************************)
(* The ready queue, for all scripts.                                       *)
(***************************************************************************)

\* The processes have the pids handed out last; no process is queued twice, and
\* the one whose turn it is is not queued.
PidsInv ==
    /\ PID_counter \in Nat \ {0}
    /\ turn \in [pid : Nat, left : Int, back : BOOLEAN]
    /\ \A q \in DOMAIN pcb : q \in Nat \ {0} /\ q < PID_counter
    /\ QUEUE \in Seq(DOMAIN pcb)
    /\ \A i, j \in DOMAIN QUEUE : QUEUE[i] = QUEUE[j] => i = j
    /\ turn # NoTurn => turn.pid \in DOMAIN pcb /\ \A i \in DOMAIN QUEUE : QUEUE[i] # turn.pid

\* Nobody who is ahead in the queue has had a turn since one further back had one.
SinceInv ==
    /\ DOMAIN since = DOMAIN pcb
    /\ \A q \in DOMAIN pcb : q \notin since[q]
    /\ \A i, j \in DOMAIN QUEUE : i < j => QUEUE[i] \notin since[QUEUE[j]]
    /\ turn # NoTurn => since[turn.pid] = {}
    /\ mode \in {"load", "fill"} => \A q \in DOMAIN pcb : since[q] = {}
    /\ mode = "run" /\ turn # NoTurn =>
           \A q \in DOMAIN pcb : q # turn.pid => turn.pid \in since[q]

StageInv ==
    /\ mode = "prompt" => pcb = Empty /\ QUEUE = <<>> /\ LRU_CACHE = <<>>
    /\ mode \in {"prompt", "load"} => turn = NoTurn
    /\ mode = "fill" => turn # NoTurn

QueueInv == PidsInv /\ SinceInv /\ StageInv

LEMMA QueueInit == Init => QueueInv
  <1> SUFFICES ASSUME Init PROVE QueueInv
    OBVIOUS
  <1>1. DOMAIN pcb = {} /\ DOMAIN since = {} /\ DOMAIN QUEUE = {}
    BY DEF Init, Empty
  <1>2. QUEUE \in Seq(DOMAIN pcb)
    BY DEF Init
  <1> QED
    BY <1>1, <1>2 DEF Init, QueueInv, PidsInv, SinceInv, StageInv, NoTurn

\* What a step does to the queue when it neither starts a process nor a turn.
LEMMA SameQueue ==
    ASSUME QueueInv, mode # "prompt", mode' = mode \/ mode' = "exited" \/ (mode = "load" /\ mode' = "run"),
           DOMAIN pcb' = DOMAIN pcb,
           UNCHANGED <<PID_counter, since, QUEUE>>, 
           turn' \in [pid : Nat, left : Int, back : BOOLEAN],
           turn' # NoTurn => turn # NoTurn /\ turn'.pid = turn.pid,
           mode' = "fill" => turn' # NoTurn,
           mode = "load" => turn' = NoTurn
    PROVE  QueueInv'
  <1>1. PidsInv'
    BY DEF QueueInv, PidsInv
  <1>2. SinceInv'
    BY DEF QueueInv, SinceInv
  <1>3. StageInv'
    BY DEF QueueInv, StageInv
  <1> QED
    BY <1>1, <1>2, <1>3 DEF QueueInv

\* The process whose turn it is goes to the end of the queue.
LEMMA RequeueTurn ==
    ASSUME QueueInv, turn # NoTurn, turn' = NoTurn,
           (mode = "run" /\ mode' = "run") \/ (mode = "fill" /\ mode' = "load"),
           DOMAIN pcb' = DOMAIN pcb,
           UNCHANGED <<PID_counter, since>>,
           QUEUE' = Append(QUEUE, turn.pid)
    PROVE  QueueInv'
  <1>1. /\ DOMAIN QUEUE = 1 .. Len(QUEUE)
        /\ Len(QUEUE) \in Nat
        /\ DOMAIN QUEUE' = 1 .. Len(QUEUE) + 1
        /\ \A i \in DOMAIN QUEUE : QUEUE'[i] = QUEUE[i]
        /\ QUEUE'[Len(QUEUE) + 1] = turn.pid
    BY DEF QueueInv, PidsInv
  <1>2. QUEUE' \in Seq(DOMAIN pcb')
    BY DEF QueueInv, PidsInv
  <1>3. PidsInv'
    BY <1>1, <1>2 DEF QueueInv, PidsInv, NoTurn
  <1>4. SinceInv'
    BY <1>1, <1>2 DEF QueueInv, PidsInv, SinceInv
  <1>5. StageInv'
    BY DEF QueueInv, StageInv
  <1> QED
    BY <1>3, <1>4, <1>5 DEF QueueInv

LEMMA QueueNewProc == QueueInv /\ NewProc => QueueInv'
  <1> SUFFICES ASSUME QueueInv, NewProc PROVE QueueInv'
    OBVIOUS
  <1> DEFINE n == PagesAtStart(NewPCB(Head(args)))
  <1>1. /\ DOMAIN pcb' = DOMAIN pcb \cup {PID_counter}
        /\ DOMAIN since' = DOMAIN pcb \cup {PID_counter}
        /\ \A q \in DOMAIN since' : since'[q] = {}
        /\ turn' = [pid |-> PID_counter, left |-> n, back |-> FALSE]
        /\ UNCHANGED QUEUE
        /\ PID_counter' = PID_counter + 1
        /\ mode' = "fill"
    BY DEF NewProc
  <1>2. n \in Int
    BY DEF PagesAtStart
  <1> HIDE DEF n
  <1>3. PidsInv'
    <2>1. PID_counter' \in Nat \ {0} /\ PID_counter \in Nat /\ \A q \in DOMAIN pcb' : q \in Nat \ {0} /\ q < PID_counter'
      BY <1>1 DEF QueueInv, PidsInv
    <2>2. QUEUE' \in Seq(DOMAIN pcb')
      BY <1>1 DEF QueueInv, PidsInv
    <2>3. turn' \in [pid : Nat, left : Int, back : BOOLEAN] /\ turn'.pid \in DOMAIN pcb'
      BY <1>1, <1>2, <2>1
    <2>4. \A i \in DOMAIN QUEUE : QUEUE[i] < PID_counter
      BY DEF QueueInv, PidsInv
    <2>5. \A i \in DOMAIN QUEUE' : QUEUE'[i] # turn'.pid
      BY <1>1, <2>1, <2>4
    <2>6. \A i, j \in DOMAIN QUEUE' : QUEUE'[i] = QUEUE'[j] => i = j
      BY <1>1 DEF QueueInv, PidsInv
    <2> QED
      BY <2>1, <2>2, <2>3, <2>5, <2>6 DEF PidsInv
  <1>4. SinceInv'
    <2>1. \A i \in DOMAIN QUEUE' : QUEUE'[i] \in DOMAIN since'
      BY <1>1 DEF QueueInv, PidsInv
    <2>2. turn'.pid \in DOMAIN since'
      BY <1>1
    <2> QED
      BY <1>1, <2>1, <2>2 DEF SinceInv
  <1>5. StageInv'
    BY <1>1 DEF StageInv, QueueInv, PidsInv, NoTurn
  <1> QED
    BY <1>3, <1>4, <1>5 DEF QueueInv

\* The process popped joins those the others have seen take a turn, and none of
\* those behind it had seen it.
LEMMA QueuePop == QueueInv /\ Pop => QueueInv'
  <1> SUFFICES ASSUME QueueInv, Pop PROVE QueueInv'
    OBVIOUS
  <1> DEFINE pid == Head(QUEUE)
             n == IF pcb[pid].size > 1 THEN 2 ELSE 1
  <1>1. QUEUE # <<>> /\ QUEUE \in Seq(DOMAIN pcb)
    BY DEF Pop, queue_done, QueueInv, PidsInv
  <1>2. /\ DOMAIN QUEUE = 1 .. Len(QUEUE)
        /\ Len(QUEUE) \in Nat \ {0}
        /\ DOMAIN QUEUE' = 1 .. Len(QUEUE) - 1
        /\ \A i \in DOMAIN QUEUE' : QUEUE'[i] = QUEUE[i + 1]
        /\ QUEUE' \in Seq(DOMAIN pcb)
        /\ pid = QUEUE[1]
    BY <1>1 DEF Pop
  <1>3. UNCHANGED <<pcb, PID_counter, mode>> /\ mode = "run"
    BY DEF Pop
  <1>4. pid \in DOMAIN pcb /\ \A i \in DOMAIN QUEUE' : QUEUE'[i] # pid
    <2>1. \A i \in DOMAIN QUEUE' : i + 1 \in DOMAIN QUEUE /\ i + 1 # 1 /\ 1 \in DOMAIN QUEUE
      BY <1>2
    <2> QED
      BY <1>1, <1>2, <2>1 DEF QueueInv, PidsInv
  <1>d. \A i, j \in DOMAIN QUEUE' : QUEUE'[i] = QUEUE'[j] => i = j
    <2>1. \A i \in DOMAIN QUEUE' : i \in Int /\ i + 1 \in DOMAIN QUEUE
      BY <1>2
    <2> QED
      BY <1>2, <2>1 DEF QueueInv, PidsInv
  <1>5. CASE pcb[pid].size = 0
    <2>1. turn' = NoTurn /\ since' = since
      BY <1>5 DEF Pop
    <2>2. PidsInv'
      BY <1>2, <1>3, <1>d, <2>1 DEF QueueInv, PidsInv, NoTurn
    <2>3. SinceInv'
      BY <1>2, <1>3, <2>1 DEF QueueInv, SinceInv
    <2> QED
      BY <1>3, <2>2, <2>3 DEF QueueInv, StageInv
  <1>6. CASE pcb[pid].size # 0
    <2>1. /\ turn' = [pid |-> pid, left |-> n, back |-> pcb[pid].size > 1]
          /\ since' = [q \in DOMAIN since |-> IF q = pid THEN {} ELSE since[q] \cup {pid}]
      BY <1>6 DEF Pop
    <2>2. turn' \in [pid : Nat, left : Int, back : BOOLEAN]
      BY <2>1, <1>4 DEF QueueInv, PidsInv
    <2> HIDE DEF n, pid
    <2>3. PidsInv'
      BY <1>2, <1>3, <1>4, <1>d, <2>1, <2>2 DEF QueueInv, PidsInv
    <2>4. \A i \in DOMAIN QUEUE' : QUEUE'[i] \in DOMAIN since
      BY <1>2 DEF QueueInv, SinceInv
    <2>5. \A i, j \in DOMAIN QUEUE' : i < j => QUEUE'[i] \notin since[QUEUE'[j]]
      BY <1>2 DEF QueueInv, SinceInv
    <2>6. SinceInv'
      BY <1>2, <1>3, <1>4, <2>1, <2>4, <2>5 DEF QueueInv, SinceInv
    <2> QED
      BY <1>3, <2>3, <2>6 DEF QueueInv, StageInv
  <1> QED
    BY <1>5, <1>6

LEMMA QueueFault ==
    ASSUME QueueInv, mode = "run", turn # NoTurn, NEW m, NEW ps, NEW e, e.pid = turn.pid,
           DOMAIN ps = DOMAIN pcb, HandleFault(m, ps, e)
    PROVE  QueueInv'
  <1>1. DOMAIN EvictedPCBs(m, ps) = DOMAIN pcb
    BY DEF EvictedPCBs
  <1>2. /\ DOMAIN pcb' = DOMAIN pcb
        /\ UNCHANGED <<PID_counter, since, mode>>
        /\ QUEUE' = Append(QUEUE, turn.pid)
        /\ turn' = NoTurn
    BY <1>1 DEF HandleFault, Requeue
  <1> QED
    BY <1>2, RequeueTurn

LEMMA QueueNext == QueueInv /\ [Next]_vars => QueueInv'
  <1> SUFFICES ASSUME QueueInv, [Next]_vars PROVE QueueInv'
    OBVIOUS
  <1>a. turn \in [pid : Nat, left : Int, back : BOOLEAN]
    BY DEF QueueInv, PidsInv
  <1>1. CASE NewProc
    BY <1>1, QueueNewProc
  <1>2. CASE FillPage
    <2>1. DOMAIN pcb' = DOMAIN pcb /\ UNCHANGED <<PID_counter, since>> /\ mode = "fill"
      BY <1>2 DEF FillPage
    <2>2. CASE turn.left > 1
      <3>1. UNCHANGED <<QUEUE, mode>> /\ turn' = [turn EXCEPT !.left = @ - 1]
        BY <1>2, <2>2 DEF FillPage
      <3>2. turn' \in [pid : Nat, left : Int, back : BOOLEAN] /\ turn'.pid = turn.pid /\ turn # NoTurn
        BY <1>a, <2>2, <3>1 DEF NoTurn
      <3>3. turn' # NoTurn
        BY <1>a, <2>2, <3>1 DEF NoTurn
      <3> QED
        BY <2>1, <3>1, <3>2, <3>3, SameQueue
    <2>3. CASE ~(turn.left > 1)
      <3>1. /\ turn' = NoTurn /\ mode' = "load" /\ QUEUE' = Append(QUEUE, turn.pid)
        BY <1>2, <2>3 DEF FillPage
      <3> QED
        BY <2>1, <3>1, RequeueTurn DEF QueueInv, StageInv
    <2> QED
      BY <2>2, <2>3
  <1>3. CASE NewProcFails
    BY <1>3, <1>a, SameQueue DEF NewProcFails, QueueInv, StageInv
  <1>4. CASE AllLoaded
    BY <1>4, <1>a, SameQueue DEF AllLoaded, QueueInv, StageInv
  <1>5. CASE Pop
    BY <1>5, QueuePop
  <1>6. CASE RunLine
    <2>1. DOMAIN pcb' = DOMAIN pcb /\ UNCHANGED <<PID_counter, mode, since>> /\ mode = "run" /\ turn # NoTurn
      BY <1>6 DEF RunLine, Running
    <2>2. CASE turn.left = 1 /\ turn.back
      BY <1>6, <2>1, <2>2, RequeueTurn DEF RunLine
    <2>3. CASE ~(turn.left = 1 /\ turn.back)
      <3>1. QUEUE' = QUEUE
        BY <1>6, <2>3 DEF RunLine
      <3>2. /\ turn' \in [pid : Nat, left : Int, back : BOOLEAN]
            /\ turn' # NoTurn => turn'.pid = turn.pid
        BY <1>6, <1>a DEF RunLine, NoTurn
      <3> QED
        BY <2>1, <3>1, <3>2, SameQueue
    <2> QED
      BY <2>2, <2>3
  <1>7. CASE PageFault
    BY <1>7, QueueFault DEF PageFault, Running, RunningPage
  <1>8. CASE RunLineReturning1
    <2> DEFINE ps == [pcb EXCEPT ![turn.pid] = StepPCB(@, RunningPage.page)]
    <2>1. DOMAIN ps = DOMAIN pcb /\ RunningPage.pid = turn.pid
      BY DEF RunningPage
    <2> HIDE DEF ps
    <2>2. HandleFault(mem, ps, RunningPage) /\ mode = "run" /\ turn # NoTurn
      BY <1>8 DEF RunLineReturning1, Running, ps
    <2> QED
      BY <2>1, <2>2, QueueFault
  <1>9. CASE Finish
    <2>1. /\ DOMAIN pcb' = {} /\ DOMAIN since' = {} /\ DOMAIN QUEUE' = {}
          /\ turn' = NoTurn /\ PID_counter' = PID_counter /\ mode' = "prompt"
          /\ pcb' = Empty /\ QUEUE' = <<>> /\ LRU_CACHE' = <<>>
      BY <1>9 DEF Finish, Empty
    <2>2. QUEUE' \in Seq(DOMAIN pcb')
      BY <2>1
    <2> QED
      BY <1>a, <2>1, <2>2 DEF QueueInv, PidsInv, SinceInv, StageInv, NoTurn
  <1>10. CASE User
    <2>1. /\ UNCHANGED <<pcb, QUEUE, LRU_CACHE, PID_counter, turn, since>>
          /\ mode = "prompt" /\ mode' \in {"prompt", "load", "exited"}
      BY <1>10 DEF User, SetVar, ResetMem, Exec, Quit
    <2>2. DOMAIN pcb = {} /\ turn = NoTurn /\ DOMAIN QUEUE = {}
      BY <2>1 DEF QueueInv, StageInv, Empty
    <2> QED
      BY <2>1, <2>2 DEF QueueInv, PidsInv, SinceInv, StageInv
  <1>11. CASE UNCHANGED vars
    BY <1>11 DEF QueueInv, PidsInv, SinceInv, StageInv, vars
  <1> QED
    BY <1>1, <1>2, <1>3, <1>4, <1>5, <1>6, <1>7, <1>8, <1>9, <1>10, <1>11 DEF Next, Kernel

\* The ready queue is in the order in which the processes had their turns.
THEOREM QueueInvariant == Spec => []QueueInv
  BY QueueInit, QueueNext, PTL DEF Spec

\* run_proc_RR gives no process a second turn while another one that has lines to
\* run waits for its first, whatever the scripts and whatever page faults occur.
THEOREM KernelNoOvertaking == Spec => NoOvertaking
  <1>1. QueueInv /\ [Next]_vars =>
          [turn = NoTurn /\ turn' # NoTurn
             => \A k \in 2 .. Len(QUEUE) :
                  pcb[QUEUE[k]].size > 0 => turn'.pid \notin since[QUEUE[k]]]_vars
    <2> SUFFICES ASSUME QueueInv, Next, turn = NoTurn, turn' # NoTurn, NEW k \in 2 .. Len(QUEUE)
                 PROVE  turn'.pid \notin since[QUEUE[k]]
      OBVIOUS
    <2>1. QUEUE \in Seq(DOMAIN pcb) /\ k \in DOMAIN QUEUE /\ 1 \in DOMAIN QUEUE /\ QUEUE # <<>>
      BY DEF QueueInv, PidsInv
    <2>2. CASE NewProc
      BY <2>1, <2>2 DEF NewProc, QueueInv, SinceInv
    <2>3. CASE Pop
      <3>1. turn'.pid = QUEUE[1]
        BY <2>1, <2>3 DEF Pop
      <3> QED
        BY <2>1, <3>1 DEF QueueInv, SinceInv
    <2>4. ~FillPage
      BY DEF FillPage, NoTurn
    <2> QED
      BY <2>2, <2>3, <2>4 DEF Next, Kernel, User, NewProcFails, AllLoaded, RunLine, Running, PageFault,
         RunLineReturning1, HandleFault, Finish, SetVar, ResetMem, Exec, Quit
  <1> QED
    BY <1>1, QueueInvariant, PTL DEF Spec, NoOvertaking

--------------------------------------------------------------------------------
(***************************************************************************)
(* Pages and frames, for scripts as count_lines expects them.              *)
(***************************************************************************)

PlainScripts ==
    /\ FRAME_STORE_SIZE >= 18
    /\ Trailing = {}
    /\ \A s \in Script : \A k \in 1 .. Len(Lines[s]) : Lines[s][k].op \notin {"blank", "rm"}

Length(p) == Len(Lines[p.script])

\* The lines a process has run.
Ran(p) == Length(p) - p.size

\* The frames, and the pages of a script of n lines.
Frame == {g \in 0 .. FRAME_STORE_SIZE : 3 * g + 2 < FRAME_STORE_SIZE}

PageOf(n) == {i \in 0 .. n : 3 * i < n}

InFrame(p, i, g) ==
    \A j \in 0 .. 2 : /\ p.page_table[i].index[j] = 3 * g + j
                      /\ p.page_table[i].valid[j] <=> 3 * i + j < Length(p)

NotLoaded(p, i, at) ==
    \A j \in 0 .. 2 : p.page_table[i].index[j] = at /\ ~p.page_table[i].valid[j]

\* A page that is used up is never needed again.
Spent(p, i) == Ran(p) >= 3 * i + 3 \/ Ran(p) = Length(p)

\* The pages the file has been read up to are in frames, or spent and evicted; the
\* others were never loaded.  Apart from the first two a page is not loaded before
\* its first line is due.
GoodPage(p, i) ==
    /\ \/ 3 * i >= p.pos /\ NotLoaded(p, i, Unset)
       \/ 3 * i < p.pos /\ \E g \in Frame : InFrame(p, i, g)
       \/ 3 * i < p.pos /\ NotLoaded(p, i, 0) /\ Spent(p, i)
    /\ 3 * i < p.pos => i <= 1 \/ 3 * i <= Ran(p)
    /\ 3 * i < p.pos => 3 * i + 3 <= p.pos \/ p.pos = Length(p)
    /\ p.program_counter[i] = IF Ran(p) >= 3 * i + 3 THEN 3
                              ELSE IF Ran(p) <= 3 * i THEN 0 ELSE Ran(p) - 3 * i

PcbShape(p) == p \in [script : Script, size : Nat, pos : Nat,
                      page_table : {p.page_table}, program_counter : {p.program_counter}]

GoodPCB(p) ==
    /\ PcbShape(p)
    /\ p.size <= Length(p)
    /\ p.pos <= Length(p)
    /\ Ran(p) <= p.pos
    /\ p.page_table = [i \in PageOf(Length(p)) |-> p.page_table[i]]
    /\ p.program_counter = [i \in PageOf(Length(p)) |-> p.program_counter[i]]
    /\ \A i \in PageOf(Length(p)) : GoodPage(p, i)

GoodPCBs(ps) == \A q \in DOMAIN ps : q \in Nat \ {0} /\ GoodPCB(ps[q])

\* Page i of process q is in the frame store, and where.
In(ps, q, i) == /\ q \in DOMAIN ps
                /\ i \in PageOf(Length(ps[q]))
                /\ ps[q].page_table[i].valid[0]

At(ps, q, i) == ps[q].page_table[i].index[0]

LineOf(ps, q, n) == [var |-> q, value |-> [script |-> ps[q].script, line |-> n]]

OnMemory(m) == m = [p \in Memory |-> m[p]]

\* The lines of the page are in its frame.
InPlace(m, ps, q, i) ==
    \A j \in 0 .. 2 : /\ m[At(ps, q, i) + j].var = q
                      /\ 3 * i + j < Length(ps[q]) => m[At(ps, q, i) + j] = LineOf(ps, q, 3 * i + j + 1)

FramesInv(m, ps) ==
    /\ OnMemory(m)
    /\ \A q \in DOMAIN ps : \A i \in PageOf(Length(ps[q])) : In(ps, q, i) => InPlace(m, ps, q, i)
    /\ \A q, r \in DOMAIN ps : \A i \in PageOf(Length(ps[q])), k \in PageOf(Length(ps[r])) :
           In(ps, q, i) /\ In(ps, r, k) /\ At(ps, q, i) = At(ps, r, k) => q = r /\ i = k
    /\ \A p \in FrameZone :
           m[p] = FreeLine \/ \E q \in DOMAIN ps : \E i \in PageOf(Length(ps[q])), j \in 0 .. 2 :
                                    In(ps, q, i) /\ p = At(ps, q, i) + j

PagesInv == GoodPCBs(pcb) /\ FramesInv(mem, pcb)

--------------------------------------------------------------------------------
(***************************************************************************)
(* The LRU list.                                                           *)
(***************************************************************************)

Filling(q) == mode = "fill" /\ q = turn.pid

LruInv ==
    /\ LRU_CACHE \in Seq([pid : Nat, page : Nat])
    /\ \A a, b \in DOMAIN LRU_CACHE : LRU_CACHE[a] = LRU_CACHE[b] => a = b
    /\ mode # "exited" =>
         /\ \A a \in DOMAIN LRU_CACHE : /\ In(pcb, LRU_CACHE[a].pid, LRU_CACHE[a].page)
                                        /\ ~Filling(LRU_CACHE[a].pid)
         /\ \A q \in DOMAIN pcb : \A i \in PageOf(Length(pcb[q])) :
               In(pcb, q, i) /\ ~Filling(q) =>
                   \E a \in DOMAIN LRU_CACHE : LRU_CACHE[a] = [pid |-> q, page |-> i]

--------------------------------------------------------------------------------
(***************************************************************************)
(* The stages of exec.                                                     *)
(***************************************************************************)

StartPages(p) == IF Length(p) > 3 THEN 2 ELSE 1

LoadInv ==
    /\ mode \in {"prompt", "load", "fill", "run", "exited"}
    /\ args \in Seq(Script)
    /\ mode # "load" /\ mode # "fill" /\ mode # "exited" => args = <<>>
    /\ mode \in {"load", "fill", "run"} =>
         /\ PID_counter + Len(args) <= MaxPid + 1
         /\ \E lo \in Nat : /\ PID_counter + Len(args) <= lo + 3 /\ lo <= PID_counter
                            /\ \A q \in DOMAIN pcb : lo <= q
    /\ mode = "load" => turn = NoTurn
    /\ mode \in {"load", "fill"} => \A q \in DOMAIN pcb : Ran(pcb[q]) = 0
    /\ mode = "fill" =>
         /\ turn # NoTurn
         /\ turn.left \in 1 .. StartPages(pcb[turn.pid])
         /\ turn = [pid |-> turn.pid, left |-> turn.left, back |-> FALSE]
         /\ pcb[turn.pid].pos = 3 * (StartPages(pcb[turn.pid]) - turn.left)
    /\ mode \in {"load", "fill", "run"} =>
         \A q \in DOMAIN pcb : ~Filling(q) =>
             pcb[q].pos >= 6 \/ pcb[q].pos = Length(pcb[q])

Queued(q) == \E k \in DOMAIN QUEUE : QUEUE[k] = q

TurnInv ==
    mode \in {"load", "fill", "run"} =>
      /\ \A q \in DOMAIN pcb : pcb[q].size > 0 => Queued(q) \/ (turn # NoTurn /\ q = turn.pid)
      /\ mode = "run" /\ turn # NoTurn =>
           /\ turn.left \in 1 .. 2
           /\ turn.back \in BOOLEAN
           /\ turn = [pid |-> turn.pid, left |-> turn.left, back |-> turn.back]
           /\ turn.left <= pcb[turn.pid].size
           /\ ~turn.back => turn.left = 1 /\ pcb[turn.pid].size = 1

\* The lines a process will have run at the end of its turn.
WillHaveRun(q) == Ran(pcb[q]) + IF turn # NoTurn /\ q = turn.pid THEN turn.left ELSE 0

\* While a process is in its first four lines nobody is more than a turn ahead.
LockstepInv ==
    mode = "run" =>
      \A q, r \in DOMAIN pcb :
        WillHaveRun(q) < Length(pcb[q]) /\ WillHaveRun(q) < 4 =>
           /\ WillHaveRun(r) <= WillHaveRun(q) + 2
           /\ r \notin since[q] => WillHaveRun(r) <= WillHaveRun(q)

\* Later, only pages others used in the one turn they had since are ahead of the
\* page a waiting process needs next.
RecencyInv ==
    mode = "run" =>
      \A q \in DOMAIN pcb : \A a, b \in DOMAIN LRU_CACHE :
        /\ ~(turn # NoTurn /\ q = turn.pid)
        /\ 4 <= Ran(pcb[q]) /\ Ran(pcb[q]) < Length(pcb[q])
        /\ LRU_CACHE[a].pid = q
        /\ 3 * LRU_CACHE[a].page <= Ran(pcb[q])
        /\ Ran(pcb[q]) < 3 * LRU_CACHE[a].page + 3
        /\ b < a
        => /\ LRU_CACHE[b].pid \in since[q]
           /\ 3 * LRU_CACHE[b].page <= Ran(pcb[LRU_CACHE[b].pid])
           /\ WillHaveRun(LRU_CACHE[b].pid) < 3 * LRU_CACHE[b].page + 5

\* The line executed last is behind its process.
LastInv == /\ last.pid \in Nat /\ last.line \in Nat
           /\ last.pid < PID_counter
           /\ last.pid \in DOMAIN pcb => last.line <= Ran(pcb[last.pid])

KernelInv == /\ QueueInv /\ PagesInv /\ LruInv /\ LoadInv
             /\ TurnInv /\ LockstepInv /\ RecencyInv /\ LastInv

--------------------------------------------------------------------------------
\* In a plain script the newlines that count_lines counts are all but the missing
\* last one.
LEMMA CountLemma ==
    ASSUME PlainScripts, NEW s \in Script
    PROVE  count_lines(s) = Len(Lines[s]) /\ Len(Lines[s]) \in Nat \ {0}
  <1>1. Len(Lines[s]) \in Nat \ {0}
    BY KernelAssumption
  <1>2. NewlinesCounted(s) = 1 .. Len(Lines[s]) - 1
    BY <1>1 DEF PlainScripts, NewlinesCounted
  <1>3. Cardinality(1 .. Len(Lines[s]) - 1) = Len(Lines[s]) - 1
    <2> DEFINE n == Len(Lines[s]) - 1
    <2>1. n \in Nat
      BY <1>1
    <2> HIDE DEF n
    <2>2. Cardinality(1 .. n) = IF 1 > n THEN 0 ELSE n - 1 + 1
      BY <2>1, FS_Interval
    <2>3. Cardinality(1 .. n) = n
      BY <2>1, <2>2
    <2> QED
      BY <2>3 DEF n
  <1> QED
    BY <1>1, <1>2, <1>3 DEF count_lines

LEMMA TableLemma ==
    ASSUME NEW n \in Nat \ {0}
    PROVE  /\ 0 .. PAGE_table_size(n) - 1 = PageOf(n)
           /\ Cardinality(PageOf(n)) > 1 <=> n > 3
  <1> DEFINE k == PAGE_table_size(n)
  <1>1. k \in Nat \ {0} /\ 3 * k >= n /\ 3 * (k - 1) < n
    BY DEF PAGE_table_size
  <1> HIDE DEF k
  <1>2. 0 .. k - 1 = PageOf(n)
    BY <1>1 DEF PageOf
  <1>3. Cardinality(0 .. k - 1) = k
    <2> DEFINE l == k - 1
    <2>1. l \in Nat
      BY <1>1
    <2> HIDE DEF l
    <2>2. Cardinality(0 .. l) = IF 0 > l THEN 0 ELSE l - 0 + 1
      BY <2>1, FS_Interval
    <2> QED
      BY <1>1, <2>1, <2>2 DEF l
  <1> QED
    BY <1>1, <1>2, <1>3 DEF k

LEMMA LengthLemma ==
    ASSUME NEW p, GoodPCB(p)
    PROVE  /\ Length(p) \in Nat \ {0}
           /\ p.script \in Script
           /\ p.size \in Nat /\ p.pos \in Nat
           /\ Ran(p) \in Nat /\ Ran(p) + p.size = Length(p)
           /\ DOMAIN p.page_table = PageOf(Length(p))
           /\ DOMAIN p.program_counter = PageOf(Length(p))
           /\ 0 \in PageOf(Length(p))
           /\ \A i \in PageOf(Length(p)) : i \in Nat /\ 3 * i < Length(p)
  <1>1. p.script \in Script /\ p.size \in Nat /\ p.pos \in Nat
    BY DEF GoodPCB, PcbShape
  <1>2. Length(p) \in Nat \ {0}
    BY <1>1, KernelAssumption DEF Length
  <1> QED
    BY <1>1, <1>2 DEF GoodPCB, Ran, PageOf

\* PCB_init's page table before anything is loaded.
LEMMA NewPCBLemma ==
    ASSUME PlainScripts, NEW s \in Script
    PROVE  /\ GoodPCB(NewPCB(s))
           /\ NewPCB(s).script = s
           /\ NewPCB(s).pos = 0
           /\ Ran(NewPCB(s)) = 0
           /\ \A i \in PageOf(Length(NewPCB(s))) : ~NewPCB(s).page_table[i].valid[0]
  <1> DEFINE L == Len(Lines[s])
             p == NewPCB(s)
  <1>1. L \in Nat \ {0} /\ count_lines(s) = L
    BY CountLemma
  <1>2. p = [script |-> s, size |-> L, pos |-> 0,
             page_table |-> [i \in PageOf(L) |-> PAGE_init],
             program_counter |-> [i \in PageOf(L) |-> 0]]
    BY <1>1, TableLemma DEF NewPCB
  <1> HIDE DEF p
  <1>3. PcbShape(p)
    BY <1>1, <1>2 DEF PcbShape
  <1>4. Length(p) = L /\ Ran(p) = 0 /\ p.pos = 0 /\ p.size = L
    BY <1>1, <1>2 DEF Length, Ran
  <1>5. p.page_table = [i \in PageOf(L) |-> PAGE_init] /\ p.program_counter = [i \in PageOf(L) |-> 0]
    BY <1>2
  <1> HIDE DEF L
  <1>6. ASSUME NEW i \in PageOf(L)
        PROVE  GoodPage(p, i) /\ ~p.page_table[i].valid[0]
    <2>1. i \in Nat /\ 3 * i < L
      BY <1>1 DEF PageOf
    <2>2. NotLoaded(p, i, Unset)
      BY <1>5 DEF NotLoaded, PAGE_init
    <2> QED
      BY <1>4, <1>5, <2>1, <2>2 DEF GoodPage, NotLoaded
  <1>7. GoodPCB(p)
    BY <1>1, <1>3, <1>4, <1>5, <1>6 DEF GoodPCB
  <1> QED
    BY <1>2, <1>4, <1>6, <1>7 DEF p

LEMMA StartLemma ==
    ASSUME NEW p, GoodPCB(p)
    PROVE  PagesAtStart(p) = StartPages(p)
  BY LengthLemma, TableLemma DEF PagesAtStart, StartPages

--------------------------------------------------------------------------------
LEMMA ZoneLemma ==
    /\ \A p : p \in FrameZone <=> p \in Int /\ 0 <= p /\ p < FRAME_STORE_SIZE
    /\ \A g \in Frame : g \in Nat /\ \A j \in 0 .. 2 : 3 * g + j \in FrameZone /\ 3 * g + j \in Int
    /\ FrameZone \subseteq Memory /\ VarZone \subseteq Memory
    /\ \A p \in FrameZone : p \notin VarZone
  BY MemoryAssumption DEF FrameZone, VarZone, Memory, Frame

\* A page in the frame store has a frame of its own.
LEMMA InLemma ==
    ASSUME NEW ps, GoodPCBs(ps), NEW q, NEW i, In(ps, q, i)
    PROVE  \E g \in Frame : At(ps, q, i) = 3 * g /\ InFrame(ps[q], i, g) /\ 3 * i < ps[q].pos
  <1>1. GoodPage(ps[q], i)
    BY DEF In, GoodPCBs, GoodPCB
  <1>2. ps[q].page_table[i].valid[0]
    BY DEF In
  <1>3. \E g \in Frame : InFrame(ps[q], i, g) /\ 3 * i < ps[q].pos
    BY <1>1, <1>2 DEF GoodPage, NotLoaded
  <1> QED
    BY <1>3 DEF InFrame, At, Frame

\* frame_alloc finds free lines only where a whole frame is free.
LEMMA FirstFrameLemma ==
    ASSUME NEW m, NEW ps, GoodPCBs(ps), FramesInv(m, ps), FreeFrames(m) # {}
    PROVE  \E g \in Frame : FirstFrame(m) = 3 * g /\ \A j \in 0 .. 2 : m[3 * g + j] = FreeLine
  <1> DEFINE f == FirstFrame(m)
  <1>1. FreeFrames(m) \in SUBSET Nat
    BY ZoneLemma DEF FreeFrames
  <1>2. f \in FreeFrames(m) /\ \A k \in FreeFrames(m) : f <= k
    BY <1>1, LeastElement DEF FirstFrame
  <1> HIDE DEF f
  <1>3. f \in Nat /\ f + 2 < FRAME_STORE_SIZE /\ \A p \in f .. f + 2 : m[p].var = None
    <2>1. f \in Nat
      BY <1>1, <1>2
    <2>2. f + 2 \in FrameLines(f)
      BY <2>1 DEF FrameLines
    <2> QED
      BY <1>2, <2>1, <2>2, ZoneLemma DEF FreeFrames, FrameLines
  <1>4. PICK g \in Nat, k \in 0 .. 2 : f = 3 * g + k
    <2>1. f \div 3 \in Nat /\ f % 3 \in 0 .. 2 /\ f = 3 * (f \div 3) + (f % 3)
      BY <1>3
    <2> QED
      BY <2>1
  <1>5. g \in Frame
    BY <1>3, <1>4, MemoryAssumption DEF Frame
  <1>6. ASSUME NEW j \in 0 .. 2 PROVE m[3 * g + j] = FreeLine
    <2>1. 3 * g + j \in FrameZone
      BY <1>5, ZoneLemma
    <2> SUFFICES ASSUME NEW q \in DOMAIN ps, NEW i \in PageOf(Length(ps[q])), NEW l \in 0 .. 2,
                        In(ps, q, i), 3 * g + j = At(ps, q, i) + l
                 PROVE  FALSE
      BY <2>1 DEF FramesInv
    <2>2. PICK h \in Frame : At(ps, q, i) = 3 * h
      BY InLemma
    <2>3. h \in Nat
      BY ZoneLemma
    <2>4. At(ps, q, i) + k = f
      BY <1>4, <2>2, <2>3
    <2>5. m[f].var = q
      <3>1. InPlace(m, ps, q, i)
        BY DEF FramesInv
      <3> QED
        BY <2>4, <3>1 DEF InPlace
    <2>6. m[f].var = None
      BY <1>3
    <2> QED
      BY <2>5, <2>6, KernelAssumption DEF GoodPCBs
  <1>7. 3 * g \in FreeFrames(m)
    <2>1. \A p \in FrameLines(3 * g) : \E j \in 0 .. 2 : p = 3 * g + j
      BY <1>4 DEF FrameLines
    <2>2. \A p \in FrameLines(3 * g) : p \in FrameZone /\ m[p].var = None
      BY <1>5, <1>6, <2>1, ZoneLemma DEF FreeLine
    <2>3. 3 * g + 0 \in FrameZone /\ 3 * g + 0 = 3 * g
      BY <1>4, <1>5, ZoneLemma
    <2> QED
      BY <2>2, <2>3 DEF FreeFrames
  <1>8. f = 3 * g
    BY <1>2, <1>3, <1>4, <1>7
  <1> QED
    BY <1>5, <1>6, <1>8 DEF f

\* When frame_alloc finds nothing every frame holds a page.
LEMMA FullLemma ==
    ASSUME NEW m, NEW ps, GoodPCBs(ps), FramesInv(m, ps), FreeFrames(m) = {}, NEW g \in Frame
    PROVE  \E q \in DOMAIN ps : \E i \in PageOf(Length(ps[q])) : In(ps, q, i) /\ At(ps, q, i) = 3 * g
  <1>1. g \in Nat /\ \A j \in 0 .. 2 : 3 * g + j \in FrameZone
    BY ZoneLemma
  <1>2. FrameLines(3 * g) = {3 * g + j : j \in 0 .. 2}
    BY <1>1 DEF FrameLines
  <1>3. 3 * g \in FrameZone
    BY <1>1, ZoneLemma DEF Frame
  <1>4. PICK j \in 0 .. 2 : m[3 * g + j].var # None
    BY <1>1, <1>2, <1>3 DEF FreeFrames
  <1>5. m[3 * g + j] # FreeLine
    BY <1>4 DEF FreeLine
  <1>6. PICK q \in DOMAIN ps : \E i \in PageOf(Length(ps[q])), l \in 0 .. 2 :
              In(ps, q, i) /\ 3 * g + j = At(ps, q, i) + l
    BY <1>1, <1>5 DEF FramesInv
  <1>7. PICK i \in PageOf(Length(ps[q])), l \in 0 .. 2 : In(ps, q, i) /\ 3 * g + j = At(ps, q, i) + l
    BY <1>6
  <1>8. PICK h \in Frame : At(ps, q, i) = 3 * h
    BY <1>7, InLemma
  <1>9. h \in Nat
    BY ZoneLemma
  <1> QED
    BY <1>1, <1>7, <1>8, <1>9

--------------------------------------------------------------------------------
\* What frame_alloc and mem_set_value_at leave in the three lines and elsewhere.
FrameLoaded(m2, m, f, lines, q) ==
    /\ OnMemory(m2)
    /\ \A p \in Memory : (\A j \in 0 .. 2 : p # f + j) => m2[p] = m[p]
    /\ \A j \in 0 .. 2 : /\ m2[f + j].var = q
                         /\ j < Len(lines) => m2[f + j] = [var |-> q, value |-> lines[j + 1]]

LEMMA FrameLoadLemma ==
    ASSUME NEW m, OnMemory(m), NEW f \in Int, \A j \in 0 .. 2 : f + j \in Memory,
           NEW lines, Len(lines) \in Nat, NEW q
    PROVE  FrameLoaded(FrameLoad(m, f, lines, q), m, f, lines, q)
  <1> DEFINE m2 == FrameLoad(m, f, lines, q)
  <1> DEFINE Put(line, k) == [var |-> q, value |-> IF k <= Len(lines) THEN lines[k] ELSE line.value]
  <1>1. m2 = [m EXCEPT ![f] = Put(@, 1), ![f + 1] = Put(@, 2), ![f + 2] = Put(@, 3)]
    BY DEF FrameLoad
  <1> HIDE DEF Put, m2
  <1>2. f \in Memory /\ f + 1 \in Memory /\ f + 2 \in Memory
    <2>1. f + 0 \in Memory /\ f + 0 = f /\ f + 1 \in Memory /\ f + 2 \in Memory
      OBVIOUS
    <2> QED
      BY <2>1
  <1>3. /\ m2 = [p \in Memory |-> m2[p]]
        /\ m2[f] = Put(m[f], 1) /\ m2[f + 1] = Put(m[f + 1], 2) /\ m2[f + 2] = Put(m[f + 2], 3)
        /\ \A p \in Memory : p # f /\ p # f + 1 /\ p # f + 2 => m2[p] = m[p]
    <2>1. DOMAIN m = Memory
      BY DEF OnMemory
    <2>2. f # f + 1 /\ f # f + 2 /\ f + 1 # f + 2
      OBVIOUS
    <2>3. m2 = [p \in Memory |-> m2[p]]
      BY <1>1, <2>1
    <2>4. m2[f] = Put(m[f], 1) /\ m2[f + 1] = Put(m[f + 1], 2) /\ m2[f + 2] = Put(m[f + 2], 3)
      BY <1>1, <1>2, <2>1, <2>2
    <2>5. \A p \in Memory : p # f /\ p # f + 1 /\ p # f + 2 => m2[p] = m[p]
      BY <1>1, <2>1
    <2> QED
      BY <2>3, <2>4, <2>5
  <1>4. \A p \in Memory : (\A j \in 0 .. 2 : p # f + j) => m2[p] = m[p]
    <2>1. \A p : (\A j \in 0 .. 2 : p # f + j) => p # f /\ p # f + 1 /\ p # f + 2
      <3>1. f + 0 = f
        OBVIOUS
      <3> QED
        BY <3>1
    <2> QED
      BY <1>3, <2>1
  <1>5. ASSUME NEW j \in 0 .. 2
        PROVE  /\ m2[f + j].var = q
               /\ j < Len(lines) => m2[f + j] = [var |-> q, value |-> lines[j + 1]]
    <2>1. m2[f + j] = Put(m[f + j], j + 1)
      <3>1. f + 0 = f
        OBVIOUS
      <3>2. CASE j = 0
        BY <1>3, <3>1, <3>2
      <3>3. CASE j = 1
        BY <1>3, <3>3
      <3>4. CASE j = 2
        BY <1>3, <3>4
      <3> QED
        BY <3>2, <3>3, <3>4
    <2> QED
      BY <2>1 DEF Put
  <1> QED
    BY <1>3, <1>4, <1>5 DEF OnMemory, FrameLoaded, m2

\* What load_PAGE does to the PCB.
LEMMA LoadedPCBLemma ==
    ASSUME NEW m, FreeFrames(m) # {}, NEW p, GoodPCB(p), NEW i \in PageOf(Length(p)), p.pos = 3 * i,
           NEW f, f = FirstFrame(m), NEW p2, p2 = LoadedPCB(m, p, i)
    PROVE  /\ PcbShape(p2)
           /\ p2.script = p.script /\ p2.size = p.size /\ p2.program_counter = p.program_counter
           /\ p2.pos = 3 * i + LinesLeft(p)
           /\ p2.page_table = [k \in PageOf(Length(p)) |-> p2.page_table[k]]
           /\ \A k \in PageOf(Length(p)) : k # i => p2.page_table[k] = p.page_table[k]
           /\ \A j \in 0 .. 2 : /\ p2.page_table[i].index[j] = f + j
                                /\ p2.page_table[i].valid[j] <=> j < LinesLeft(p)
           /\ LinesLeft(p) \in 1 .. 3
           /\ \A j \in 0 .. 2 : j < LinesLeft(p) <=> 3 * i + j < Length(p)
           /\ LinesLeft(p) < 3 => 3 * i + LinesLeft(p) = Length(p)
  <1> DEFINE n == LinesLeft(p)
             page == [index |-> [j \in 0 .. 2 |-> f + j], valid |-> [j \in 0 .. 2 |-> j < n]]
             table == [p.page_table EXCEPT ![i] = page]
  <1>0. /\ Length(p) \in Nat \ {0} /\ i \in Nat /\ 3 * i < Length(p)
        /\ DOMAIN p.page_table = PageOf(Length(p)) /\ p.pos \in Nat
    BY LengthLemma
  <1>1. n \in 1 .. 3 /\ n <= Length(p) - 3 * i /\ (n < 3 => n = Length(p) - 3 * i)
    <2>1. n = IF Length(p) - p.pos < 3 THEN Length(p) - p.pos ELSE 3
      BY DEF LinesLeft, Length
    <2> HIDE DEF n
    <2> QED
      BY <1>0, <2>1
  <1>2. p2 = [p EXCEPT !.pos = p.pos + n, !.page_table = table]
    BY DEF LoadedPCB
  <1> HIDE DEF n, page, table
  <1>3. p \in [script : Script, size : Nat, pos : Nat, page_table : {p.page_table},
               program_counter : {p.program_counter}]
    BY DEF GoodPCB, PcbShape
  <1>4. p2 = [script |-> p.script, size |-> p.size, pos |-> p.pos + n, page_table |-> table,
              program_counter |-> p.program_counter]
    BY <1>2, <1>3
  <1>5. PcbShape(p2)
    BY <1>0, <1>1, <1>3, <1>4 DEF PcbShape
  <1>6. p.page_table = [k \in PageOf(Length(p)) |-> p.page_table[k]]
    BY DEF GoodPCB
  <1>7. /\ table = [k \in PageOf(Length(p)) |-> table[k]]
        /\ table[i] = page
        /\ \A k \in PageOf(Length(p)) : k # i => table[k] = p.page_table[k]
    BY <1>6 DEF table
  <1>8. \A j \in 0 .. 2 : page.index[j] = f + j /\ (page.valid[j] <=> j < n)
    BY DEF page
  <1>9. p2.page_table = table /\ p2.pos = 3 * i + n /\ p2.script = p.script /\ p2.size = p.size
        /\ p2.program_counter = p.program_counter
    BY <1>4
  <1>10. \A j \in 0 .. 2 : j < n <=> 3 * i + j < Length(p)
    BY <1>0, <1>1
  <1>11. n < 3 => 3 * i + n = Length(p)
    BY <1>0, <1>1
  <1> QED
    BY <1>1, <1>5, <1>7, <1>8, <1>9, <1>10, <1>11 DEF n

\* A page that depends only on the same parts of two PCBs.
LEMMA SamePageLemma ==
    ASSUME NEW p, NEW p2, NEW i, p2.page_table[i] = p.page_table[i], p2.script = p.script
    PROVE  /\ \A g : InFrame(p2, i, g) <=> InFrame(p, i, g)
           /\ \A at : NotLoaded(p2, i, at) <=> NotLoaded(p, i, at)
  BY DEF InFrame, NotLoaded, Length

LEMMA LoadGoodLemma ==
    ASSUME NEW m, FreeFrames(m) # {}, NEW p, GoodPCB(p), NEW i \in PageOf(Length(p)), p.pos = 3 * i,
           i <= 1 \/ 3 * i <= Ran(p), NEW g \in Frame, FirstFrame(m) = 3 * g,
           NEW p2, p2 = LoadedPCB(m, p, i)
    PROVE  /\ GoodPCB(p2)
           /\ p2.script = p.script /\ p2.size = p.size
           /\ p2.pos = Length(p) \/ p2.pos = 3 * i + 3
           /\ p2.pos <= 3 * i + 3
           /\ InFrame(p2, i, g)
           /\ \A k \in PageOf(Length(p)) : k # i => p2.page_table[k] = p.page_table[k]
  <1>0. /\ Length(p) \in Nat \ {0} /\ i \in Nat /\ 3 * i < Length(p)
        /\ p.pos \in Nat /\ p.size \in Nat /\ Ran(p) \in Nat
        /\ \A k \in PageOf(Length(p)) : k \in Nat /\ 3 * k < Length(p)
        /\ g \in Nat
    BY LengthLemma, ZoneLemma
  <1>1. /\ PcbShape(p2)
        /\ p2.script = p.script /\ p2.size = p.size /\ p2.program_counter = p.program_counter
        /\ p2.pos = 3 * i + LinesLeft(p)
        /\ p2.page_table = [k \in PageOf(Length(p)) |-> p2.page_table[k]]
        /\ \A k \in PageOf(Length(p)) : k # i => p2.page_table[k] = p.page_table[k]
        /\ \A j \in 0 .. 2 : /\ p2.page_table[i].index[j] = 3 * g + j
                             /\ p2.page_table[i].valid[j] <=> j < LinesLeft(p)
        /\ LinesLeft(p) \in 1 .. 3
        /\ \A j \in 0 .. 2 : j < LinesLeft(p) <=> 3 * i + j < Length(p)
        /\ LinesLeft(p) < 3 => 3 * i + LinesLeft(p) = Length(p)
    BY LoadedPCBLemma
  <1>2. Length(p2) = Length(p) /\ Ran(p2) = Ran(p)
    BY <1>1 DEF Length, Ran
  <1>3. InFrame(p2, i, g)
    BY <1>1, <1>2 DEF InFrame
  <1>4. p2.pos \in Nat /\ 3 * i < p2.pos /\ p2.pos <= 3 * i + 3 /\ p2.pos <= Length(p)
        /\ (p2.pos = Length(p) \/ p2.pos = 3 * i + 3)
    <2> DEFINE n == LinesLeft(p)
    <2> HIDE DEF n
    <2>1. n \in 1 .. 3 /\ (n < 3 => 3 * i + n = Length(p)) /\ p2.pos = 3 * i + n
          /\ (2 < n <=> 3 * i + 2 < Length(p))
      BY <1>1 DEF n
    <2> QED
      BY <1>0, <2>1
  <1>5. ASSUME NEW k \in PageOf(Length(p)) PROVE GoodPage(p2, k)
    <2>1. GoodPage(p, k) /\ k \in Nat
      BY <1>0 DEF GoodPCB
    <2>2. p2.program_counter[k] = IF Ran(p2) >= 3 * k + 3 THEN 3
                                  ELSE IF Ran(p2) <= 3 * k THEN 0 ELSE Ran(p2) - 3 * k
      BY <1>1, <1>2, <2>1 DEF GoodPage
    <2>3. CASE k = i
      <3>1. 3 * k < p2.pos /\ (k <= 1 \/ 3 * k <= Ran(p2)) /\ (3 * k + 3 <= p2.pos \/ p2.pos = Length(p2))
        BY <1>0, <1>2, <1>4, <2>3
      <3> QED
        BY <1>3, <2>2, <2>3, <3>1 DEF GoodPage
    <2>4. CASE k # i
      <3>1. 3 * k < p2.pos <=> 3 * k < p.pos
        BY <1>0, <1>4, <2>1, <2>4
      <3>2. 3 * k < p.pos => 3 * k + 3 <= p2.pos
        BY <1>0, <1>4, <2>1, <2>4
      <3>3. /\ \A h : InFrame(p2, k, h) <=> InFrame(p, k, h)
            /\ \A at : NotLoaded(p2, k, at) <=> NotLoaded(p, k, at)
        BY <1>1, <2>4, SamePageLemma
      <3>4. Spent(p2, k) <=> Spent(p, k)
        BY <1>2 DEF Spent
      <3>5. 3 * k >= p2.pos <=> 3 * k >= p.pos
        BY <1>0, <1>4, <2>1, <3>1
      <3> QED
        BY <1>2, <2>1, <2>2, <3>1, <3>2, <3>3, <3>4, <3>5 DEF GoodPage
    <2> QED
      BY <2>3, <2>4
  <1>6. GoodPCB(p2)
    <2>1. p2.size <= Length(p2) /\ p2.pos <= Length(p2) /\ Ran(p2) <= p2.pos
      BY <1>0, <1>1, <1>2, <1>4 DEF GoodPCB
    <2>2. p2.program_counter = [k \in PageOf(Length(p2)) |-> p2.program_counter[k]]
      BY <1>1, <1>2 DEF GoodPCB
    <2> QED
      BY <1>1, <1>2, <1>5, <2>1, <2>2 DEF GoodPCB
  <1> QED
    BY <1>1, <1>3, <1>4, <1>6

\* load_PAGE adds one page to the frame store: the one the file stands at.
WithPage(ps, m, q, i) == [ps EXCEPT ![q] = LoadedPCB(m, @, i)]

LoadResult(m, ps, q, i, m2, ps2) ==
    /\ GoodPCBs(ps2) /\ FramesInv(m2, ps2)
    /\ DOMAIN ps2 = DOMAIN ps
    /\ \A r \in DOMAIN ps : /\ r # q => ps2[r] = ps[r]
                            /\ ps2[r].script = ps[r].script /\ ps2[r].size = ps[r].size
    /\ ps2[q].pos = Length(ps[q]) \/ ps2[q].pos = 3 * i + 3
    /\ ps2[q].pos <= 3 * i + 3
    /\ \A r \in DOMAIN ps : \A k \in PageOf(Length(ps[r])) :
          In(ps2, r, k) <=> In(ps, r, k) \/ (r = q /\ k = i)
    /\ \A p \in VarZone : m2[p] = m[p]

LEMMA LoadLemma ==
    ASSUME NEW m, NEW ps, GoodPCBs(ps), FramesInv(m, ps), FreeFrames(m) # {},
           NEW q \in DOMAIN ps, NEW i \in PageOf(Length(ps[q])), ps[q].pos = 3 * i,
           i <= 1 \/ 3 * i <= Ran(ps[q]),
           NEW m2, m2 = LoadedMem(m, q, ps[q]),
           NEW ps2, ps2 = WithPage(ps, m, q, i)
    PROVE  LoadResult(m, ps, q, i, m2, ps2)
  <1> DEFINE p == ps[q]
             p2 == ps2[q]
             lines == [k \in 1 .. LinesLeft(p) |-> [script |-> p.script, line |-> p.pos + k]]
  <1>1. PICK g \in Frame : FirstFrame(m) = 3 * g /\ \A j \in 0 .. 2 : m[3 * g + j] = FreeLine
    BY FirstFrameLemma
  <1>2. GoodPCB(p) /\ q \in Nat \ {0}
    BY DEF GoodPCBs
  <1>3. DOMAIN ps2 = DOMAIN ps /\ p2 = LoadedPCB(m, p, i) /\ \A r \in DOMAIN ps : r # q => ps2[r] = ps[r]
    BY DEF WithPage
  <1>4. /\ LinesLeft(p) \in 1 .. 3
        /\ \A j \in 0 .. 2 : j < LinesLeft(p) <=> 3 * i + j < Length(p)
    BY <1>2, LoadedPCBLemma
  <1>5. Len(lines) = LinesLeft(p) /\ Len(lines) \in Nat
    BY <1>4
  <1>6. m2 = FrameLoad(m, 3 * g, lines, q)
    BY <1>1 DEF LoadedMem
  <1>7. /\ OnMemory(m)
        /\ g \in Nat /\ i \in Nat /\ 3 * g \in Int
        /\ \A j \in 0 .. 2 : 3 * g + j \in Memory
    BY <1>2, ZoneLemma, LengthLemma DEF FramesInv
  <1> HIDE DEF lines, p, p2
  <1>8. /\ OnMemory(m2)
        /\ \A a \in Memory : (\A j \in 0 .. 2 : a # 3 * g + j) => m2[a] = m[a]
        /\ \A j \in 0 .. 2 : /\ m2[3 * g + j].var = q
                             /\ j < Len(lines) => m2[3 * g + j] = [var |-> q, value |-> lines[j + 1]]
    <2> DEFINE f == 3 * g
    <2>1. f \in Int /\ \A j \in 0 .. 2 : f + j \in Memory
      BY <1>7
    <2> HIDE DEF f
    <2>2. FrameLoaded(FrameLoad(m, f, lines, q), m, f, lines, q)
      BY <1>5, <1>7, <2>1, FrameLoadLemma
    <2>3. FrameLoaded(m2, m, 3 * g, lines, q)
      BY <1>6, <2>2 DEF f
    <2> QED
      BY <2>3 DEF FrameLoaded
  <1>9. /\ GoodPCB(p2)
        /\ p2.script = p.script /\ p2.size = p.size
        /\ p2.pos = Length(p) \/ p2.pos = 3 * i + 3
        /\ p2.pos <= 3 * i + 3
        /\ InFrame(p2, i, g)
        /\ \A k \in PageOf(Length(p)) : k # i => p2.page_table[k] = p.page_table[k]
    BY <1>1, <1>2, <1>3, LoadGoodLemma DEF p
  <1>10. \A r \in DOMAIN ps : ps2[r].script = ps[r].script /\ ps2[r].size = ps[r].size
                              /\ Length(ps2[r]) = Length(ps[r]) /\ r \in Nat \ {0}
    BY <1>3, <1>9 DEF p, p2, Length, GoodPCBs
  <1>11. GoodPCBs(ps2)
    BY <1>3, <1>9 DEF GoodPCBs, p2
  <1>12. In(ps2, q, i) /\ At(ps2, q, i) = 3 * g
    <2>1. 3 * i < Length(ps2[q])
      BY <1>2, <1>10, LengthLemma DEF p
    <2>2. p2.page_table[i].valid[0] /\ p2.page_table[i].index[0] = 3 * g
      BY <1>7, <1>9, <2>1 DEF InFrame, p2
    <2> QED
      BY <1>3, <1>10, <2>2 DEF In, At, p2
  <1>13. ASSUME NEW r \in DOMAIN ps, NEW k \in PageOf(Length(ps[r])), ~(r = q /\ k = i)
         PROVE  ps2[r].page_table[k] = ps[r].page_table[k] /\ (In(ps2, r, k) <=> In(ps, r, k))
                /\ At(ps2, r, k) = At(ps, r, k)
    BY <1>3, <1>9, <1>10, <1>13 DEF In, At, p, p2
  <1>14. \A r \in DOMAIN ps : \A k \in PageOf(Length(ps[r])) :
                 In(ps2, r, k) <=> In(ps, r, k) \/ (r = q /\ k = i)
    BY <1>12, <1>13
  <1>15. \A a \in VarZone : m2[a] = m[a]
    BY <1>8, ZoneLemma
  <1>16. ASSUME NEW r \in DOMAIN ps, NEW k \in PageOf(Length(ps[r])), In(ps2, r, k), ~(r = q /\ k = i)
         PROVE  /\ In(ps, r, k) /\ At(ps2, r, k) = At(ps, r, k) /\ At(ps, r, k) # 3 * g
                /\ \A j \in 0 .. 2 : m2[At(ps, r, k) + j] = m[At(ps, r, k) + j]
    <2>1. In(ps, r, k) /\ At(ps2, r, k) = At(ps, r, k)
      BY <1>13, <1>16
    <2>2. PICK h \in Frame : At(ps, r, k) = 3 * h
      BY <2>1, InLemma
    <2>3. h \in Nat
      BY ZoneLemma
    <2>4. h # g
      <3>1. m[At(ps, r, k) + 0].var = r
        BY <2>1 DEF FramesInv, InPlace
      <3>2. m[3 * g + 0].var = None
        BY <1>1 DEF FreeLine
      <3> QED
        BY <2>2, <3>1, <3>2, <1>10, KernelAssumption
    <2>5. \A j, l \in 0 .. 2 : 3 * h + j # 3 * g + l
      <3>1. g \in Nat
        BY <1>7
      <3>2. h < g \/ g < h
        BY <2>3, <2>4, <3>1
      <3> QED
        BY <2>3, <3>1, <3>2
    <2>6. \A j \in 0 .. 2 : 3 * h + j \in Memory
      BY ZoneLemma
    <2> QED
      BY <1>7, <1>8, <2>1, <2>2, <2>3, <2>4, <2>5, <2>6
  <1>17. ASSUME NEW r \in DOMAIN ps2, NEW k \in PageOf(Length(ps2[r])), In(ps2, r, k), NEW j \in 0 .. 2
         PROVE  /\ m2[At(ps2, r, k) + j].var = r
                /\ 3 * k + j < Length(ps2[r]) => m2[At(ps2, r, k) + j] = LineOf(ps2, r, 3 * k + j + 1)
    <2>0. r \in DOMAIN ps /\ k \in PageOf(Length(ps[r])) /\ Length(ps2[r]) = Length(ps[r])
      BY <1>3, <1>10
    <2>1. CASE r = q /\ k = i
      <3>1. m2[At(ps2, r, k) + j].var = r
        BY <1>8, <1>12, <2>1
      <3>2. ASSUME 3 * k + j < Length(ps2[r])
            PROVE  m2[At(ps2, r, k) + j] = LineOf(ps2, r, 3 * k + j + 1)
        <4>1. j < LinesLeft(p)
          BY <1>4, <2>0, <2>1, <3>2 DEF p
        <4>2. lines[j + 1] = [script |-> p.script, line |-> p.pos + (j + 1)]
          BY <1>4, <4>1 DEF lines
        <4>3. p.pos + (j + 1) = 3 * i + j + 1
          BY <1>7 DEF p
        <4>4. m2[3 * g + j] = [var |-> q, value |-> lines[j + 1]]
          BY <1>5, <1>8, <4>1
        <4> QED
          BY <1>12, <2>1, <4>2, <4>3, <4>4, <1>10 DEF LineOf, p
      <3> QED
        BY <3>1, <3>2
    <2>2. CASE ~(r = q /\ k = i)
      <3>1. /\ In(ps, r, k) /\ At(ps2, r, k) = At(ps, r, k)
            /\ m2[At(ps, r, k) + j] = m[At(ps, r, k) + j]
        BY <1>16, <1>17, <2>0, <2>2
      <3>2. /\ m[At(ps, r, k) + j].var = r
            /\ 3 * k + j < Length(ps[r]) => m[At(ps, r, k) + j] = LineOf(ps, r, 3 * k + j + 1)
        <4>1. InPlace(m, ps, r, k)
          BY <2>0, <3>1 DEF FramesInv
        <4> QED
          BY <4>1 DEF InPlace
      <3> QED
        BY <1>10, <2>0, <3>1, <3>2 DEF LineOf
    <2> QED
      BY <2>1, <2>2
  <1>18. ASSUME NEW r \in DOMAIN ps2, NEW t \in DOMAIN ps2,
                NEW k \in PageOf(Length(ps2[r])), NEW l \in PageOf(Length(ps2[t])),
                In(ps2, r, k) /\ In(ps2, t, l) /\ At(ps2, r, k) = At(ps2, t, l)
         PROVE  r = t /\ k = l
    <2>0. r \in DOMAIN ps /\ k \in PageOf(Length(ps[r])) /\ t \in DOMAIN ps /\ l \in PageOf(Length(ps[t]))
      BY <1>3, <1>10
    <2>1. CASE r = q /\ k = i
      BY <1>12, <1>16, <1>18, <2>0, <2>1
    <2>2. CASE t = q /\ l = i
      BY <1>12, <1>16, <1>18, <2>0, <2>2
    <2>3. CASE ~(r = q /\ k = i) /\ ~(t = q /\ l = i)
      <3>1. In(ps, r, k) /\ At(ps2, r, k) = At(ps, r, k) /\ In(ps, t, l) /\ At(ps2, t, l) = At(ps, t, l)
        BY <1>16, <1>18, <2>0, <2>3
      <3> QED
        BY <1>18, <2>0, <3>1 DEF FramesInv
    <2> QED
      BY <2>1, <2>2, <2>3
  <1>19. ASSUME NEW a \in FrameZone
         PROVE  m2[a] = FreeLine \/ \E r \in DOMAIN ps2 : \E k \in PageOf(Length(ps2[r])), j \in 0 .. 2 :
                                        In(ps2, r, k) /\ a = At(ps2, r, k) + j
    <2>1. CASE \E j \in 0 .. 2 : a = 3 * g + j
      BY <1>3, <1>10, <1>12, <2>1
    <2>2. CASE \A j \in 0 .. 2 : a # 3 * g + j
      <3>1. m2[a] = m[a]
        BY <1>8, <2>2, ZoneLemma
      <3>2. ASSUME NEW r \in DOMAIN ps, NEW k \in PageOf(Length(ps[r])), NEW j \in 0 .. 2,
                   In(ps, r, k), a = At(ps, r, k) + j
            PROVE  In(ps2, r, k) /\ a = At(ps2, r, k) + j
        <4>1. In(ps2, r, k)
          BY <1>14, <3>2
        <4>2. CASE r = q /\ k = i
          <5>1. ~In(ps, q, i)
            <6>1. GoodPage(p, i)
              BY <1>2 DEF GoodPCB, p
            <6>2. NotLoaded(p, i, Unset)
              BY <1>7, <6>1 DEF GoodPage, p
            <6> QED
              BY <6>2 DEF NotLoaded, In, p
          <5> QED
            BY <3>2, <4>2, <5>1
        <4>3. CASE ~(r = q /\ k = i)
          BY <1>13, <3>2, <4>1, <4>3
        <4> QED
          BY <4>2, <4>3
      <3>3. m[a] = FreeLine \/ \E r \in DOMAIN ps : \E k \in PageOf(Length(ps[r])), j \in 0 .. 2 :
                                   In(ps, r, k) /\ a = At(ps, r, k) + j
        BY DEF FramesInv
      <3>4. CASE m[a] = FreeLine
        BY <3>1, <3>4
      <3>5. CASE m[a] # FreeLine
        <4>1. PICK r \in DOMAIN ps : \E k \in PageOf(Length(ps[r])), j \in 0 .. 2 :
                                        In(ps, r, k) /\ a = At(ps, r, k) + j
          BY <3>3, <3>5
        <4>2. PICK k \in PageOf(Length(ps[r])), j \in 0 .. 2 : In(ps, r, k) /\ a = At(ps, r, k) + j
          BY <4>1
        <4>3. In(ps2, r, k) /\ a = At(ps2, r, k) + j
          BY <3>2, <4>2
        <4> QED
          BY <1>3, <1>10, <4>3
      <3> QED
        BY <3>4, <3>5
    <2> QED
      BY <2>1, <2>2
  <1>20. FramesInv(m2, ps2)
    <2>1. \A r \in DOMAIN ps2 : \A k \in PageOf(Length(ps2[r])) : In(ps2, r, k) => InPlace(m2, ps2, r, k)
      BY <1>17 DEF InPlace
    <2>2. \A r, t \in DOMAIN ps2 : \A k \in PageOf(Length(ps2[r])), l \in PageOf(Length(ps2[t])) :
            In(ps2, r, k) /\ In(ps2, t, l) /\ At(ps2, r, k) = At(ps2, t, l) => r = t /\ k = l
      BY <1>18
    <2> QED
      BY <1>8, <1>19, <2>1, <2>2 DEF FramesInv
  <1> QED
    BY <1>3, <1>9, <1>10, <1>11, <1>14, <1>15, <1>20 DEF p, p2, LoadResult

WithoutPage(p, k) == [p EXCEPT !.page_table[k] = EvictedPage]

LEMMA EvictGoodLemma ==
    ASSUME NEW p, GoodPCB(p), NEW k \in PageOf(Length(p)), 3 * k < p.pos, Spent(p, k),
           NEW p2, p2 = WithoutPage(p, k)
    PROVE  /\ GoodPCB(p2)
           /\ p2.script = p.script /\ p2.size = p.size /\ p2.pos = p.pos
           /\ ~p2.page_table[k].valid[0]
           /\ \A l \in PageOf(Length(p)) : l # k => p2.page_table[l] = p.page_table[l]
  <1> DEFINE table == [p.page_table EXCEPT ![k] = EvictedPage]
  <1>1. p \in [script : Script, size : Nat, pos : Nat, page_table : {p.page_table},
               program_counter : {p.program_counter}]
    BY DEF GoodPCB, PcbShape
  <1>2. p2 = [p EXCEPT !.page_table = table]
    BY DEF WithoutPage
  <1>3. /\ table = [l \in PageOf(Length(p)) |-> table[l]]
        /\ table[k] = EvictedPage
        /\ \A l \in PageOf(Length(p)) : l # k => table[l] = p.page_table[l]
    BY DEF GoodPCB
  <1> HIDE DEF table
  <1>4. p2 = [script |-> p.script, size |-> p.size, pos |-> p.pos, page_table |-> table,
              program_counter |-> p.program_counter]
    BY <1>1, <1>2
  <1>5. /\ p2.page_table = table /\ p2.pos = p.pos /\ p2.script = p.script /\ p2.size = p.size
        /\ p2.program_counter = p.program_counter
    BY <1>4
  <1>6. PcbShape(p2)
    BY <1>1, <1>4 DEF PcbShape
  <1>7. Length(p2) = Length(p) /\ Ran(p2) = Ran(p)
    BY <1>5 DEF Length, Ran
  <1>8. NotLoaded(p2, k, 0)
    BY <1>3, <1>5 DEF NotLoaded, EvictedPage
  <1>9. ASSUME NEW l \in PageOf(Length(p)) PROVE GoodPage(p2, l)
    <2>1. GoodPage(p, l) /\ (Spent(p2, l) <=> Spent(p, l))
      BY <1>7 DEF GoodPCB, Spent
    <2>2. CASE l = k
      BY <1>5, <1>7, <1>8, <2>1, <2>2 DEF GoodPage
    <2>3. CASE l # k
      <3>1. /\ \A h : InFrame(p2, l, h) <=> InFrame(p, l, h)
            /\ \A at : NotLoaded(p2, l, at) <=> NotLoaded(p, l, at)
        BY <1>3, <1>5, <2>3, SamePageLemma
      <3> QED
        BY <1>5, <1>7, <2>1, <3>1 DEF GoodPage
    <2> QED
      BY <2>2, <2>3
  <1>10. GoodPCB(p2)
    BY <1>3, <1>5, <1>6, <1>7, <1>9 DEF GoodPCB
  <1> QED
    BY <1>3, <1>5, <1>8, <1>10 DEF NotLoaded

\* free_PAGE takes one page out of the frame store and leaves a frame free.
ClearedFrame(m, ps, v, k) == MemFree(m, {ps[v].page_table[k].index[j] : j \in 0 .. 2})

WithPageEvicted(ps, v, k) == [ps EXCEPT ![v].page_table[k] = EvictedPage]

EvictResult(m, ps, v, k, m2, ps2) ==
    /\ GoodPCBs(ps2) /\ FramesInv(m2, ps2)
    /\ FreeFrames(m2) # {}
    /\ DOMAIN ps2 = DOMAIN ps
    /\ \A r \in DOMAIN ps : /\ ps2[r].script = ps[r].script /\ ps2[r].size = ps[r].size
                            /\ ps2[r].pos = ps[r].pos
    /\ \A r \in DOMAIN ps : \A l \in PageOf(Length(ps[r])) :
          In(ps2, r, l) <=> In(ps, r, l) /\ ~(r = v /\ l = k)
    /\ \A p \in VarZone : m2[p] = m[p]

LEMMA EvictLemma ==
    ASSUME NEW m, NEW ps, GoodPCBs(ps), FramesInv(m, ps),
           NEW v \in DOMAIN ps, NEW k \in PageOf(Length(ps[v])), In(ps, v, k), Spent(ps[v], k),
           NEW m2, m2 = ClearedFrame(m, ps, v, k),
           NEW ps2, ps2 = WithPageEvicted(ps, v, k)
    PROVE  EvictResult(m, ps, v, k, m2, ps2)
  <1> DEFINE p == ps[v]
             p2 == ps2[v]
  <1>1. PICK g \in Frame : At(ps, v, k) = 3 * g /\ InFrame(ps[v], k, g) /\ 3 * k < ps[v].pos
    BY InLemma
  <1>2. GoodPCB(p) /\ g \in Nat
    BY ZoneLemma DEF GoodPCBs
  <1>3. {ps[v].page_table[k].index[j] : j \in 0 .. 2} = {3 * g + j : j \in 0 .. 2}
    BY <1>1 DEF InFrame
  <1>4. /\ OnMemory(m2)
        /\ \A a \in Memory : m2[a] = IF \E j \in 0 .. 2 : a = 3 * g + j THEN FreeLine ELSE m[a]
    BY <1>3 DEF ClearedFrame, MemFree, OnMemory
  <1>5. /\ DOMAIN ps2 = DOMAIN ps /\ \A r \in DOMAIN ps : r # v => ps2[r] = ps[r]
        /\ p2 = WithoutPage(p, k)
    BY DEF WithoutPage, WithPageEvicted
  <1> HIDE DEF p, p2
  <1>6. /\ GoodPCB(p2)
        /\ p2.script = p.script /\ p2.size = p.size /\ p2.pos = p.pos
        /\ ~p2.page_table[k].valid[0]
        /\ \A l \in PageOf(Length(p)) : l # k => p2.page_table[l] = p.page_table[l]
    <2>1. k \in PageOf(Length(p)) /\ 3 * k < p.pos /\ Spent(p, k)
      BY <1>1 DEF p
    <2> QED
      BY <1>2, <1>5, <2>1, EvictGoodLemma
  <1>7. \A r \in DOMAIN ps : /\ ps2[r].script = ps[r].script /\ ps2[r].size = ps[r].size
                             /\ ps2[r].pos = ps[r].pos
                             /\ Length(ps2[r]) = Length(ps[r]) /\ r \in Nat \ {0}
    BY <1>5, <1>6 DEF p, p2, Length, GoodPCBs
  <1>8. GoodPCBs(ps2)
    BY <1>5, <1>6 DEF GoodPCBs, p2
  <1>9. ~In(ps2, v, k)
    BY <1>6 DEF In, p2
  <1>10. ASSUME NEW r \in DOMAIN ps, NEW l \in PageOf(Length(ps[r])), ~(r = v /\ l = k)
         PROVE  (In(ps2, r, l) <=> In(ps, r, l)) /\ At(ps2, r, l) = At(ps, r, l)
    BY <1>5, <1>6, <1>7, <1>10 DEF In, At, p, p2
  <1>11. \A r \in DOMAIN ps : \A l \in PageOf(Length(ps[r])) :
                 In(ps2, r, l) <=> In(ps, r, l) /\ ~(r = v /\ l = k)
    BY <1>9, <1>10
  <1>12. \A j \in 0 .. 2 : 3 * g + j \in FrameZone /\ 3 * g + j \in Memory
    BY ZoneLemma
  <1>13. \A a \in VarZone : m2[a] = m[a]
    BY <1>4, <1>12, ZoneLemma
  <1>14. FreeFrames(m2) # {}
    <2>1. FrameLines(3 * g) = {3 * g + j : j \in 0 .. 2}
      BY <1>2 DEF FrameLines
    <2>2. \A a \in FrameLines(3 * g) : a \in FrameZone /\ m2[a].var = None
      BY <1>4, <1>12, <2>1 DEF FreeLine
    <2>3. 3 * g \in FrameZone
      BY <1>2, <1>12, ZoneLemma DEF Frame
    <2> QED
      BY <2>2, <2>3 DEF FreeFrames
  <1>15. ASSUME NEW r \in DOMAIN ps, NEW l \in PageOf(Length(ps[r])), In(ps2, r, l)
         PROVE  /\ In(ps, r, l) /\ At(ps2, r, l) = At(ps, r, l)
                /\ \A j \in 0 .. 2 : m2[At(ps, r, l) + j] = m[At(ps, r, l) + j]
    <2>1. In(ps, r, l) /\ ~(r = v /\ l = k) /\ At(ps2, r, l) = At(ps, r, l)
      BY <1>10, <1>11, <1>15
    <2>2. PICK h \in Frame : At(ps, r, l) = 3 * h
      BY <2>1, InLemma
    <2>3. h \in Nat /\ \A j \in 0 .. 2 : 3 * h + j \in Memory
      BY ZoneLemma
    <2>4. h # g
      BY <1>1, <2>1, <2>2 DEF FramesInv
    <2>5. h < g \/ g < h
      BY <1>2, <2>3, <2>4
    <2>6. \A j, i \in 0 .. 2 : 3 * h + j # 3 * g + i
      BY <1>2, <2>3, <2>5
    <2> QED
      BY <1>4, <2>1, <2>2, <2>3, <2>6
  <1>16. FramesInv(m2, ps2)
    <2>1. ASSUME NEW r \in DOMAIN ps2, NEW l \in PageOf(Length(ps2[r])), In(ps2, r, l), NEW j \in 0 .. 2
          PROVE  /\ m2[At(ps2, r, l) + j].var = r
                 /\ 3 * l + j < Length(ps2[r]) => m2[At(ps2, r, l) + j] = LineOf(ps2, r, 3 * l + j + 1)
      <3>1. r \in DOMAIN ps /\ l \in PageOf(Length(ps[r])) /\ Length(ps2[r]) = Length(ps[r])
        BY <1>5, <1>7
      <3>2. In(ps, r, l) /\ At(ps2, r, l) = At(ps, r, l) /\ m2[At(ps, r, l) + j] = m[At(ps, r, l) + j]
        BY <1>15, <2>1, <3>1
      <3>3. /\ m[At(ps, r, l) + j].var = r
            /\ 3 * l + j < Length(ps[r]) => m[At(ps, r, l) + j] = LineOf(ps, r, 3 * l + j + 1)
        <4>1. InPlace(m, ps, r, l)
          BY <3>1, <3>2 DEF FramesInv
        <4> QED
          BY <4>1 DEF InPlace
      <3> QED
        BY <1>7, <3>1, <3>2, <3>3 DEF LineOf
    <2>2. ASSUME NEW r \in DOMAIN ps2, NEW t \in DOMAIN ps2,
                 NEW i \in PageOf(Length(ps2[r])), NEW l \in PageOf(Length(ps2[t])),
                 In(ps2, r, i) /\ In(ps2, t, l) /\ At(ps2, r, i) = At(ps2, t, l)
          PROVE  r = t /\ i = l
      <3>1. r \in DOMAIN ps /\ i \in PageOf(Length(ps[r])) /\ t \in DOMAIN ps /\ l \in PageOf(Length(ps[t]))
        BY <1>5, <1>7
      <3>2. In(ps, r, i) /\ At(ps2, r, i) = At(ps, r, i) /\ In(ps, t, l) /\ At(ps2, t, l) = At(ps, t, l)
        BY <1>15, <2>2, <3>1
      <3> QED
        BY <2>2, <3>1, <3>2 DEF FramesInv
    <2>3. ASSUME NEW a \in FrameZone
          PROVE  m2[a] = FreeLine \/ \E r \in DOMAIN ps2 : \E l \in PageOf(Length(ps2[r])), j \in 0 .. 2 :
                                        In(ps2, r, l) /\ a = At(ps2, r, l) + j
      <3>1. CASE m2[a] = FreeLine
        BY <3>1
      <3>2. CASE m2[a] # FreeLine
        <4>1. m2[a] = m[a] /\ \A j \in 0 .. 2 : a # 3 * g + j
          BY <1>4, <3>2, ZoneLemma
        <4>2. PICK r \in DOMAIN ps : \E l \in PageOf(Length(ps[r])), j \in 0 .. 2 :
                                        In(ps, r, l) /\ a = At(ps, r, l) + j
          BY <3>2, <4>1 DEF FramesInv
        <4>3. PICK l \in PageOf(Length(ps[r])), j \in 0 .. 2 : In(ps, r, l) /\ a = At(ps, r, l) + j
          BY <4>2
        <4>4. ~(r = v /\ l = k)
          BY <1>1, <4>1, <4>3
        <4>5. In(ps2, r, l) /\ At(ps2, r, l) = At(ps, r, l)
          BY <1>10, <4>3, <4>4
        <4> QED
          BY <1>5, <1>7, <4>3, <4>5
      <3> QED
        BY <3>1, <3>2
    <2>4. \A r \in DOMAIN ps2 : \A l \in PageOf(Length(ps2[r])) : In(ps2, r, l) => InPlace(m2, ps2, r, l)
      BY <2>1 DEF InPlace
    <2>5. \A r, t \in DOMAIN ps2 : \A i \in PageOf(Length(ps2[r])), l \in PageOf(Length(ps2[t])) :
            In(ps2, r, i) /\ In(ps2, t, l) /\ At(ps2, r, i) = At(ps2, t, l) => r = t /\ i = l
      BY <2>2
    <2> QED
      BY <1>4, <2>3, <2>4, <2>5 DEF FramesInv
  <1> QED
    BY <1>5, <1>7, <1>8, <1>11, <1>13, <1>14, <1>16 DEF EvictResult

--------------------------------------------------------------------------------
\* A step that leaves scripts and page tables alone.
LEMMA SamePagesLemma ==
    ASSUME NEW m, NEW ps, FramesInv(m, ps), NEW ps2, DOMAIN ps2 = DOMAIN ps,
           \A r \in DOMAIN ps : ps2[r].script = ps[r].script /\ ps2[r].page_table = ps[r].page_table
    PROVE  FramesInv(m, ps2) /\ \A r, k : In(ps2, r, k) <=> In(ps, r, k)
  <1>1. \A r \in DOMAIN ps : Length(ps2[r]) = Length(ps[r])
    BY DEF Length
  <1>2. \A r, k : In(ps2, r, k) <=> In(ps, r, k)
    BY <1>1 DEF In
  <1>3. \A r \in DOMAIN ps : \A k : At(ps2, r, k) = At(ps, r, k)
    BY DEF At
  <1>4. \A r \in DOMAIN ps : \A n : LineOf(ps2, r, n) = LineOf(ps, r, n)
    BY DEF LineOf
  <1>5. OnMemory(m)
    BY DEF FramesInv
  <1>6. \A r \in DOMAIN ps2 : \A k \in PageOf(Length(ps2[r])) : In(ps2, r, k) => InPlace(m, ps2, r, k)
    <2> SUFFICES ASSUME NEW r \in DOMAIN ps2, NEW k \in PageOf(Length(ps2[r])), In(ps2, r, k)
                 PROVE  InPlace(m, ps2, r, k)
      OBVIOUS
    <2>1. r \in DOMAIN ps /\ k \in PageOf(Length(ps[r])) /\ In(ps, r, k)
      BY <1>1, <1>2
    <2>2. InPlace(m, ps, r, k)
      BY <2>1 DEF FramesInv
    <2> QED
      BY <1>1, <1>3, <1>4, <2>1, <2>2 DEF InPlace
  <1>7. \A r, t \in DOMAIN ps2 : \A k \in PageOf(Length(ps2[r])), l \in PageOf(Length(ps2[t])) :
            In(ps2, r, k) /\ In(ps2, t, l) /\ At(ps2, r, k) = At(ps2, t, l) => r = t /\ k = l
    BY <1>1, <1>2, <1>3 DEF FramesInv
  <1>8. ASSUME NEW a \in FrameZone
        PROVE  m[a] = FreeLine \/ \E r \in DOMAIN ps2 : \E k \in PageOf(Length(ps2[r])), j \in 0 .. 2 :
                                    In(ps2, r, k) /\ a = At(ps2, r, k) + j
    BY <1>1, <1>2, <1>3 DEF FramesInv
  <1> QED
    BY <1>2, <1>5, <1>6, <1>7, <1>8 DEF FramesInv

\* A step that leaves the frame store alone.
LEMMA SameFramesLemma ==
    ASSUME NEW m, NEW ps, GoodPCBs(ps), FramesInv(m, ps),
           NEW m2, OnMemory(m2), \A a \in FrameZone : m2[a] = m[a]
    PROVE  FramesInv(m2, ps)
  <1>1. ASSUME NEW r \in DOMAIN ps, NEW k \in PageOf(Length(ps[r])), In(ps, r, k), NEW j \in 0 .. 2
        PROVE  m2[At(ps, r, k) + j] = m[At(ps, r, k) + j]
    <2>1. PICK h \in Frame : At(ps, r, k) = 3 * h
      BY <1>1, InLemma
    <2> QED
      BY <2>1, ZoneLemma
  <1>2. \A r \in DOMAIN ps : \A k \in PageOf(Length(ps[r])) : In(ps, r, k) => InPlace(m2, ps, r, k)
    <2> SUFFICES ASSUME NEW r \in DOMAIN ps, NEW k \in PageOf(Length(ps[r])), In(ps, r, k)
                 PROVE  InPlace(m2, ps, r, k)
      OBVIOUS
    <2>1. \A j \in 0 .. 2 : m2[At(ps, r, k) + j] = m[At(ps, r, k) + j]
      BY <1>1
    <2>2. InPlace(m, ps, r, k)
      BY DEF FramesInv
    <2> QED
      BY <2>1, <2>2 DEF InPlace
  <1>3. \A r, t \in DOMAIN ps : \A k \in PageOf(Length(ps[r])), l \in PageOf(Length(ps[t])) :
            In(ps, r, k) /\ In(ps, t, l) /\ At(ps, r, k) = At(ps, t, l) => r = t /\ k = l
    BY DEF FramesInv
  <1>4. ASSUME NEW a \in FrameZone
        PROVE  m2[a] = FreeLine \/ \E r \in DOMAIN ps : \E k \in PageOf(Length(ps[r])), j \in 0 .. 2 :
                                    In(ps, r, k) /\ a = At(ps, r, k) + j
    BY DEF FramesInv
  <1> QED
    BY <1>2, <1>3, <1>4 DEF FramesInv

LEMMA FirstLemma ==
    ASSUME NEW S \in SUBSET VarZone, S # {}
    PROVE  First(S) \in VarZone
  <1>1. S \in SUBSET Nat
    BY MemoryAssumption DEF VarZone
  <1> QED
    BY <1>1, LeastElement DEF First

\* set and resetmem write variables only.
LEMMA VariablesLemma ==
    ASSUME NEW m, OnMemory(m)
    PROVE  /\ \A v, x : /\ OnMemory(MemSetValue(m, v, x))
                        /\ \A a \in FrameZone : MemSetValue(m, v, x)[a] = m[a]
           /\ OnMemory(ResetVarZone(m))
           /\ \A a \in FrameZone : ResetVarZone(m)[a] = m[a]
  <1>1. ASSUME NEW v, NEW x
        PROVE  /\ OnMemory(MemSetValue(m, v, x))
               /\ \A a \in FrameZone : MemSetValue(m, v, x)[a] = m[a]
    <2>1. \A w : LinesOf(m, w) \in SUBSET VarZone
      BY DEF LinesOf
    <2>2. \A w : LinesOf(m, w) # {} => First(LinesOf(m, w)) \in VarZone
      BY <2>1, FirstLemma
    <2>3. \A a \in FrameZone : a \in Memory /\ a \notin VarZone
      BY ZoneLemma
    <2>4. CASE LinesOf(m, v) # {}
      <3> DEFINE f == First(LinesOf(m, v))
      <3>1. MemSetValue(m, v, x) = [m EXCEPT ![f].value = x] /\ f \in VarZone
        BY <2>2, <2>4 DEF MemSetValue
      <3> HIDE DEF f
      <3> QED
        BY <2>3, <3>1 DEF OnMemory
    <2>5. CASE LinesOf(m, v) = {} /\ LinesOf(m, None) # {}
      <3> DEFINE f == First(LinesOf(m, None))
      <3>1. MemSetValue(m, v, x) = [m EXCEPT ![f] = [var |-> v, value |-> x]] /\ f \in VarZone
        BY <2>2, <2>5 DEF MemSetValue
      <3> HIDE DEF f
      <3> QED
        BY <2>3, <3>1 DEF OnMemory
    <2>6. CASE LinesOf(m, v) = {} /\ LinesOf(m, None) = {}
      BY <2>6 DEF MemSetValue
    <2> QED
      BY <2>4, <2>5, <2>6
  <1>2. /\ OnMemory(ResetVarZone(m))
        /\ \A a \in FrameZone : ResetVarZone(m)[a] = m[a]
    BY ZoneLemma DEF ResetVarZone, MemFree, OnMemory
  <1> QED
    BY <1>1, <1>2

LEMMA EffectLemma ==
    ASSUME NEW m, OnMemory(m), NEW c
    PROVE  OnMemory(Effect(m, c)) /\ \A a \in FrameZone : Effect(m, c)[a] = m[a]
  <1>1. CASE c.op = "set"
    BY <1>1, VariablesLemma DEF Effect
  <1>2. CASE c.op = "resetmem"
    BY <1>2, VariablesLemma DEF Effect
  <1>3. CASE c.op # "set" /\ c.op # "resetmem"
    BY <1>3 DEF Effect
  <1> QED
    BY <1>1, <1>2, <1>3

--------------------------------------------------------------------------------
\* PCB_getPC: while lines are left there is a current page, and its counter is the
\* next line of it.
LEMMA CurrentPageLemma ==
    ASSUME NEW p, GoodPCB(p), p.size > 0, NEW i, i = CurrentPage(p)
    PROVE  /\ i \in PageOf(Length(p)) /\ i \in Nat
           /\ 3 * i <= Ran(p) /\ Ran(p) < 3 * i + 3
           /\ p.program_counter[i] = Ran(p) - 3 * i
  <1>0. /\ Length(p) \in Nat \ {0} /\ Ran(p) \in Nat /\ p.size \in Nat /\ Ran(p) + p.size = Length(p)
        /\ DOMAIN p.page_table = PageOf(Length(p))
        /\ \A k \in PageOf(Length(p)) : k \in Nat /\ 3 * k < Length(p)
    BY LengthLemma
  <1> DEFINE d == Ran(p) \div 3
  <1>1. d \in Nat /\ 3 * d <= Ran(p) /\ Ran(p) < 3 * d + 3
    BY <1>0
  <1> HIDE DEF d
  <1>2. \A k \in PageOf(Length(p)) :
            p.program_counter[k] = IF Ran(p) >= 3 * k + 3 THEN 3
                                   ELSE IF Ran(p) <= 3 * k THEN 0 ELSE Ran(p) - 3 * k
    BY DEF GoodPCB, GoodPage
  <1>3. \A k \in Nat : k <= d => k \in PageOf(Length(p))
    BY <1>0, <1>1 DEF PageOf
  <1>4. d \in PageOf(Length(p)) /\ p.program_counter[d] = Ran(p) - 3 * d
    <2>1. d \in PageOf(Length(p))
      BY <1>1, <1>3
    <2>2. p.program_counter[d] = IF Ran(p) >= 3 * d + 3 THEN 3
                                 ELSE IF Ran(p) <= 3 * d THEN 0 ELSE Ran(p) - 3 * d
      BY <1>2, <2>1
    <2> QED
      BY <1>0, <1>1, <2>1, <2>2
  <1>5. \A k \in 0 .. d - 1 : k \in PageOf(Length(p)) /\ Ran(p) >= 3 * k + 3
    BY <1>0, <1>1, <1>3
  <1>6. \A k \in 0 .. d - 1 : p.program_counter[k] = 3
    BY <1>2, <1>5
  <1>7. p.program_counter[d] # 3
    BY <1>0, <1>1, <1>4
  <1>8. /\ i \in PageOf(Length(p))
        /\ p.program_counter[i] # 3 /\ \A k \in 0 .. i - 1 : p.program_counter[k] = 3
    BY <1>0, <1>4, <1>6, <1>7 DEF CurrentPage
  <1>9. i \in Nat
    BY <1>0, <1>8
  <1>10. ~(i < d)
    BY <1>1, <1>6, <1>8, <1>9
  <1>11. ~(d < i)
    BY <1>1, <1>7, <1>8, <1>9
  <1>12. i = d
    BY <1>1, <1>9, <1>10, <1>11
  <1> QED
    BY <1>1, <1>4, <1>12

\* cpu_run counts the line: the process has run one line more.
LEMMA StepLemma ==
    ASSUME NEW p, GoodPCB(p), p.size > 0, NEW i, i = CurrentPage(p),
           p.page_table[i].valid[p.program_counter[i]], NEW p2, p2 = StepPCB(p, i)
    PROVE  /\ GoodPCB(p2)
           /\ p2.script = p.script /\ p2.pos = p.pos /\ p2.page_table = p.page_table
           /\ p2.size = p.size - 1 /\ Ran(p2) = Ran(p) + 1
           /\ 3 * i < p.pos
  <1>0. /\ Length(p) \in Nat \ {0} /\ Ran(p) \in Nat /\ p.size \in Nat /\ Ran(p) + p.size = Length(p)
        /\ \A k \in PageOf(Length(p)) : k \in Nat /\ 3 * k < Length(p)
        /\ p.pos \in Nat
    BY LengthLemma
  <1>1. /\ i \in PageOf(Length(p)) /\ i \in Nat
        /\ 3 * i <= Ran(p) /\ Ran(p) < 3 * i + 3
        /\ p.program_counter[i] = Ran(p) - 3 * i
    BY CurrentPageLemma
  <1> DEFINE pc == [p.program_counter EXCEPT ![i] = p.program_counter[i] + 1]
  <1>2. p2 = [p EXCEPT !.program_counter = pc, !.size = p.size - 1]
    BY DEF StepPCB
  <1>3. p \in [script : Script, size : Nat, pos : Nat, page_table : {p.page_table},
               program_counter : {p.program_counter}]
    BY DEF GoodPCB, PcbShape
  <1>4. /\ pc = [k \in PageOf(Length(p)) |-> pc[k]]
        /\ pc[i] = Ran(p) - 3 * i + 1
        /\ \A k \in PageOf(Length(p)) : k # i => pc[k] = p.program_counter[k]
    BY <1>1 DEF GoodPCB
  <1> HIDE DEF pc
  <1>5. p2 = [script |-> p.script, size |-> p.size - 1, pos |-> p.pos, page_table |-> p.page_table,
              program_counter |-> pc]
    BY <1>2, <1>3
  <1>6. /\ p2.page_table = p.page_table /\ p2.pos = p.pos /\ p2.script = p.script /\ p2.size = p.size - 1
        /\ p2.program_counter = pc
    BY <1>5
  <1>7. PcbShape(p2)
    BY <1>0, <1>3, <1>5 DEF PcbShape
  <1>8. Length(p2) = Length(p) /\ Ran(p2) = Ran(p) + 1
    BY <1>0, <1>6 DEF Length, Ran
  <1>9. GoodPage(p, i)
    BY <1>1 DEF GoodPCB
  <1>10. 3 * i < p.pos
    <2> DEFINE j == Ran(p) - 3 * i
    <2>1. j \in 0 .. 2 /\ p.page_table[i].valid[j]
      BY <1>0, <1>1
    <2> HIDE DEF j
    <2> QED
      BY <1>9, <2>1 DEF GoodPage, NotLoaded
  <1>11. Ran(p) + 1 <= p.pos
    BY <1>0, <1>1, <1>9, <1>10 DEF GoodPage
  <1>12. ASSUME NEW k \in PageOf(Length(p)) PROVE GoodPage(p2, k)
    <2>1. GoodPage(p, k) /\ k \in Nat
      BY <1>0 DEF GoodPCB
    <2>2. /\ \A h : InFrame(p2, k, h) <=> InFrame(p, k, h)
          /\ \A at : NotLoaded(p2, k, at) <=> NotLoaded(p, k, at)
      BY <1>6, SamePageLemma
    <2>3. Spent(p, k) => Spent(p2, k)
      BY <1>0, <1>8, <2>1 DEF Spent
    <2>4. p2.program_counter[k] = IF Ran(p2) >= 3 * k + 3 THEN 3
                                  ELSE IF Ran(p2) <= 3 * k THEN 0 ELSE Ran(p2) - 3 * k
      <3>1. CASE k = i
        BY <1>0, <1>1, <1>4, <1>6, <1>8, <3>1
      <3>2. CASE k < i
        <4>1. pc[k] = p.program_counter[k] /\ Ran(p) >= 3 * k + 3
          BY <1>0, <1>1, <1>4, <2>1, <3>2
        <4>2. p.program_counter[k] = 3
          BY <2>1, <4>1 DEF GoodPage
        <4> QED
          BY <1>0, <1>6, <1>8, <2>1, <4>1, <4>2
      <3>3. CASE i < k
        <4>1. pc[k] = p.program_counter[k] /\ Ran(p) + 1 <= 3 * k
          BY <1>0, <1>1, <1>4, <2>1, <3>3
        <4>2. p.program_counter[k] = 0
          BY <1>0, <2>1, <4>1 DEF GoodPage
        <4> QED
          BY <1>0, <1>6, <1>8, <2>1, <4>1, <4>2
      <3> QED
        BY <1>1, <2>1, <3>1, <3>2, <3>3
    <2>5. 3 * k < p.pos => k <= 1 \/ 3 * k <= Ran(p2)
      BY <1>0, <1>8, <2>1 DEF GoodPage
    <2> QED
      BY <1>6, <1>8, <2>1, <2>2, <2>3, <2>4, <2>5 DEF GoodPage
  <1>13. GoodPCB(p2)
    <2>1. p2.size <= Length(p2) /\ p2.pos <= Length(p2) /\ Ran(p2) <= p2.pos
      BY <1>0, <1>6, <1>8, <1>11 DEF GoodPCB
    <2>2. p2.page_table = [k \in PageOf(Length(p2)) |-> p2.page_table[k]]
      BY <1>6, <1>8 DEF GoodPCB
    <2> QED
      BY <1>4, <1>6, <1>7, <1>8, <1>12, <2>1, <2>2 DEF GoodPCB
  <1> QED
    BY <1>6, <1>8, <1>10, <1>13

--------------------------------------------------------------------------------
\* The element at place c moves to the head and the others keep their order.
MovedToHead(new, list, c) ==
    /\ new \in Seq([pid : Nat, page : Nat])
    /\ Len(new) = Len(list)
    /\ new[1] = list[c]
    /\ \A a \in 2 .. Len(list) : new[a] = IF a <= c THEN list[a - 1] ELSE list[a]

\* What remove_elem leaves of the list.
LEMMA RemoveAtLemma ==
    ASSUME NEW E, NEW list \in Seq(E), NEW c \in 1 .. Len(list)
    PROVE  /\ RemoveAt(list, c) \in Seq(E) /\ Len(RemoveAt(list, c)) = Len(list) - 1
           /\ \A a \in 1 .. Len(list) - 1 :
                 RemoveAt(list, c)[a] = IF a < c THEN list[a] ELSE list[a + 1]
  <1> DEFINE T == RemoveAt(list, c)
             A == SubSeq(list, 1, c - 1)
             B == SubSeq(list, c + 1, Len(list))
             n == Len(list)
  <1>1. n \in Nat /\ c \in Int /\ 1 <= c /\ c <= n /\ \A a \in 1 .. n : list[a] \in E
    BY LenProperties, ElementOfSeq
  <1>2. T = A \o B
    BY DEF RemoveAt
  <1>3. /\ A \in Seq(E) /\ Len(A) = c - 1 /\ \A a \in 1 .. c - 1 : A[a] = list[a]
    <2> DEFINE d == c - 1
    <2>1. d \in Int /\ \A a \in 1 .. d : list[a] \in E
      BY <1>1
    <2> HIDE DEF d
    <2>2. /\ SubSeq(list, 1, d) \in Seq(E)
          /\ Len(SubSeq(list, 1, d)) = IF 1 <= d THEN d - 1 + 1 ELSE 0
          /\ \A i \in 1 .. d - 1 + 1 : SubSeq(list, 1, d)[i] = list[1 + i - 1]
      BY <2>1, SubSeqProperties
    <2>3. d - 1 + 1 = d /\ \A i \in Int : 1 + i - 1 = i
      BY <2>1
    <2>4. Len(SubSeq(list, 1, d)) = d
      BY <1>1, <2>1, <2>2 DEF d
    <2>5. \A i \in 1 .. d : SubSeq(list, 1, d)[i] = list[i]
      BY <2>1, <2>2, <2>3
    <2> QED
      BY <2>2, <2>4, <2>5 DEF d
  <1>4. /\ B \in Seq(E) /\ Len(B) = n - c /\ \A a \in 1 .. n - c : B[a] = list[c + a]
    <2> DEFINE d == c + 1
    <2>1. d \in Int /\ \A a \in d .. n : list[a] \in E
      BY <1>1
    <2> HIDE DEF d, n
    <2>2. /\ SubSeq(list, d, n) \in Seq(E)
          /\ Len(SubSeq(list, d, n)) = IF d <= n THEN n - d + 1 ELSE 0
          /\ \A i \in 1 .. n - d + 1 : SubSeq(list, d, n)[i] = list[d + i - 1]
      BY <1>1, <2>1, SubSeqProperties
    <2>3. n - d + 1 = n - c /\ \A i \in Int : d + i - 1 = c + i
      BY <1>1 DEF d
    <2>4. Len(SubSeq(list, d, n)) = n - c
      BY <1>1, <2>1, <2>2 DEF d
    <2>5. \A i \in 1 .. n - c : SubSeq(list, d, n)[i] = list[c + i]
      BY <1>1, <2>1, <2>2, <2>3
    <2> QED
      BY <2>2, <2>4, <2>5 DEF d, n
  <1> HIDE DEF A, B, T, n
  <1>5. /\ A \o B \in Seq(E)
        /\ Len(A \o B) = Len(A) + Len(B)
        /\ \A i \in 1 .. Len(A) + Len(B) : (A \o B)[i] = IF i <= Len(A) THEN A[i] ELSE B[i - Len(A)]
    BY <1>3, <1>4, ConcatProperties
  <1>6. T \in Seq(E) /\ Len(T) = n - 1
    BY <1>1, <1>2, <1>3, <1>4, <1>5
  <1>7. ASSUME NEW a \in 1 .. n - 1 PROVE T[a] = IF a < c THEN list[a] ELSE list[a + 1]
    <2>1. T[a] = IF a <= c - 1 THEN A[a] ELSE B[a - (c - 1)]
      BY <1>1, <1>2, <1>3, <1>4, <1>5
    <2>2. CASE a < c
      BY <1>1, <1>3, <2>1, <2>2
    <2>3. CASE ~(a < c)
      <3> DEFINE b == a - (c - 1)
      <3>1. b \in 1 .. n - c /\ c + b = a + 1
        BY <1>1, <2>3
      <3>2. T[a] = B[b]
        BY <1>1, <2>1, <2>3
      <3> HIDE DEF b
      <3> QED
        BY <1>4, <2>3, <3>1, <3>2
    <2> QED
      BY <2>2, <2>3
  <1> QED
    BY <1>6, <1>7 DEF T, n

LEMMA ConsLemma ==
    ASSUME NEW E, NEW e \in E, NEW l \in Seq(E)
    PROVE  /\ <<e>> \o l \in Seq(E) /\ Len(<<e>> \o l) = Len(l) + 1 /\ (<<e>> \o l)[1] = e
           /\ \A a \in 2 .. Len(l) + 1 : (<<e>> \o l)[a] = l[a - 1]
  <1>1. <<e>> \in Seq(E) /\ Len(<<e>>) = 1 /\ <<e>>[1] = e /\ Len(l) \in Nat
    BY LenProperties
  <1>2. /\ <<e>> \o l \in Seq(E)
        /\ Len(<<e>> \o l) = Len(<<e>>) + Len(l)
        /\ \A i \in 1 .. Len(<<e>>) + Len(l) :
              (<<e>> \o l)[i] = IF i <= Len(<<e>>) THEN <<e>>[i] ELSE l[i - Len(<<e>>)]
    BY <1>1, ConcatProperties
  <1> DEFINE new == <<e>> \o l
  <1> HIDE DEF new
  <1>3. /\ new \in Seq(E) /\ Len(new) = 1 + Len(l)
        /\ \A i \in 1 .. 1 + Len(l) : new[i] = IF i <= 1 THEN <<e>>[i] ELSE l[i - 1]
    BY <1>1, <1>2 DEF new
  <1>4. Len(new) = Len(l) + 1 /\ new[1] = e /\ \A a \in 2 .. Len(l) + 1 : new[a] = l[a - 1]
    BY <1>1, <1>3
  <1> QED
    BY <1>3, <1>4 DEF new

LEMMA MoveToHeadLemma ==
    ASSUME NEW list \in Seq([pid : Nat, page : Nat]), NEW c \in DOMAIN list,
           \A a \in DOMAIN list : PAGE_equal(list[a], list[c]) => a = c
    PROVE  MovedToHead(MoveToHead(list, list[c]), list, c)
  <1> DEFINE E == [pid : Nat, page : Nat]
             k == CHOOSE k \in DOMAIN list : /\ PAGE_equal(list[k], list[c])
                                             /\ \A l \in 1 .. k - 1 : ~PAGE_equal(list[l], list[c])
             T == RemoveAt(list, c)
             new == <<list[c]>> \o T
  <1>1. Len(list) \in Nat /\ c \in 1 .. Len(list) /\ DOMAIN list = 1 .. Len(list) /\ list[c] \in E
    BY LenProperties, ElementOfSeq
  <1>2. PAGE_equal(list[c], list[c])
    BY DEF PAGE_equal
  <1>3. \A l \in 1 .. c - 1 : ~PAGE_equal(list[l], list[c])
    <2>1. \A l \in 1 .. c - 1 : l \in DOMAIN list /\ l # c
      BY <1>1
    <2> QED
      BY <2>1
  <1>4. k = c
    <2>1. k \in DOMAIN list /\ PAGE_equal(list[k], list[c])
      BY <1>2, <1>3
    <2> QED
      BY <2>1
  <1>5. MoveToHead(list, list[c]) = new
    BY <1>4 DEF MoveToHead
  <1>6. list \in Seq(E)
    OBVIOUS
  <1> HIDE DEF k, E
  <1>7. /\ T \in Seq(E) /\ Len(T) = Len(list) - 1
        /\ \A a \in 1 .. Len(list) - 1 : T[a] = IF a < c THEN list[a] ELSE list[a + 1]
    BY <1>1, <1>6, RemoveAtLemma
  <1> HIDE DEF T
  <1>8. /\ new \in Seq(E) /\ Len(new) = Len(T) + 1 /\ new[1] = list[c]
        /\ \A a \in 2 .. Len(T) + 1 : new[a] = T[a - 1]
    <2> DEFINE e == list[c]
    <2>1. e \in E
      BY <1>1
    <2> HIDE DEF e
    <2>2. T \in Seq(E)
      BY <1>7
    <2>3. /\ <<e>> \o T \in Seq(E) /\ Len(<<e>> \o T) = Len(T) + 1 /\ (<<e>> \o T)[1] = e
          /\ \A a \in 2 .. Len(T) + 1 : (<<e>> \o T)[a] = T[a - 1]
      BY ONLY <2>1, <2>2, ConsLemma
    <2> QED
      BY <2>3 DEF e
  <1> HIDE DEF new
  <1>9. ASSUME NEW a \in 2 .. Len(list) PROVE new[a] = IF a <= c THEN list[a - 1] ELSE list[a]
    <2> DEFINE b == a - 1
    <2>1. b \in 1 .. Len(list) - 1 /\ b + 1 = a /\ (b < c <=> a <= c) /\ a \in 2 .. Len(T) + 1
      <3>1. Len(list) \in Nat /\ c \in Int /\ Len(T) + 1 = Len(list)
        BY <1>1, <1>7
      <3> QED
        BY <3>1
    <2>2. new[a] = T[b]
      BY <1>8, <2>1
    <2> HIDE DEF b
    <2>3. new[a] = IF b < c THEN list[b] ELSE list[b + 1]
      BY <1>7, <2>1, <2>2
    <2> QED
      BY <2>1, <2>3 DEF b
  <1>10. Len(new) = Len(list)
    BY <1>1, <1>7, <1>8
  <1>11. MovedToHead(new, list, c)
    BY <1>8, <1>9, <1>10 DEF MovedToHead, E
  <1> QED
    BY <1>5, <1>11

\* A page is put in front of the first n elements of the list.
PutInFront(new, list, n, e) ==
    /\ new \in Seq([pid : Nat, page : Nat])
    /\ Len(new) = n + 1
    /\ new[1] = e
    /\ \A a \in 2 .. n + 1 : new[a] = list[a - 1]

LEMMA PutInFrontLemma ==
    ASSUME NEW list \in Seq([pid : Nat, page : Nat]), NEW e \in [pid : Nat, page : Nat]
    PROVE  /\ PutInFront(<<e>> \o list, list, Len(list), e)
           /\ list # <<>> => PutInFront(<<e>> \o Front(list), list, Len(list) - 1, e)
  <1> DEFINE E == [pid : Nat, page : Nat]
  <1> HIDE DEF E
  <1>0. list \in Seq(E) /\ e \in E
    BY DEF E
  <1>1. ASSUME NEW l \in Seq(E)
        PROVE  /\ <<e>> \o l \in Seq(E) /\ Len(<<e>> \o l) = Len(l) + 1 /\ (<<e>> \o l)[1] = e
               /\ \A a \in 2 .. Len(l) + 1 : (<<e>> \o l)[a] = l[a - 1]
    BY <1>0, ConsLemma
  <1>2. PutInFront(<<e>> \o list, list, Len(list), e)
    BY <1>0, <1>1 DEF PutInFront, E
  <1>3. ASSUME list # <<>> PROVE PutInFront(<<e>> \o Front(list), list, Len(list) - 1, e)
    <2> DEFINE l == Front(list)
    <2>1. l \in Seq(E) /\ Len(l) = Len(list) - 1 /\ \A a \in 1 .. Len(list) - 1 : l[a] = list[a]
      <3> DEFINE n == Len(list) - 1
      <3>1. n \in Nat /\ \A a \in 1 .. n : list[a] \in E
        <4>1. Len(list) \in Nat /\ Len(list) # 0 /\ \A a \in 1 .. Len(list) : list[a] \in E
          BY <1>0, <1>3, LenProperties, ElementOfSeq, EmptySeq
        <4> QED
          BY <4>1
      <3> HIDE DEF n
      <3>2. /\ SubSeq(list, 1, n) \in Seq(E)
            /\ Len(SubSeq(list, 1, n)) = IF 1 <= n THEN n - 1 + 1 ELSE 0
            /\ \A i \in 1 .. n - 1 + 1 : SubSeq(list, 1, n)[i] = list[1 + i - 1]
        BY <3>1, SubSeqProperties
      <3>3. n - 1 + 1 = n /\ \A i \in Int : 1 + i - 1 = i
        BY <3>1
      <3>4. /\ SubSeq(list, 1, n) \in Seq(E) /\ Len(SubSeq(list, 1, n)) = n
            /\ \A i \in 1 .. n : SubSeq(list, 1, n)[i] = list[i]
        BY <3>1, <3>2, <3>3
      <3> QED
        BY <3>4 DEF Front, n
    <2> HIDE DEF l
    <2>2. /\ <<e>> \o l \in Seq(E) /\ Len(<<e>> \o l) = Len(l) + 1 /\ (<<e>> \o l)[1] = e
          /\ \A a \in 2 .. Len(l) + 1 : (<<e>> \o l)[a] = l[a - 1]
      BY <1>1, <2>1
    <2>3. \A a \in 2 .. Len(list) - 1 + 1 : (<<e>> \o l)[a] = list[a - 1]
      <3> SUFFICES ASSUME NEW a \in 2 .. Len(list) - 1 + 1 PROVE (<<e>> \o l)[a] = list[a - 1]
        OBVIOUS
      <3> DEFINE b == a - 1
      <3>1. b \in 1 .. Len(list) - 1 /\ a \in 2 .. Len(l) + 1
        BY <1>0, <2>1
      <3>2. l[b] = list[b]
        BY <2>1, <3>1
      <3> QED
        BY <2>2, <3>1, <3>2
    <2> QED
      BY <2>1, <2>2, <2>3 DEF PutInFront, E, l
  <1> QED
    BY <1>2, <1>3

--------------------------------------------------------------------------------
(***************************************************************************)
(* The steps that leave the processes alone.                               *)
(***************************************************************************)

LEMMA KernelInit == Init => KernelInv
  <1> SUFFICES ASSUME Init PROVE KernelInv
    OBVIOUS
  <1>1. DOMAIN pcb = {} /\ DOMAIN LRU_CACHE = {} /\ mode = "prompt" /\ args = <<>>
        /\ LRU_CACHE = <<>> /\ last = NoLine /\ PID_counter = 1
    BY DEF Init, Empty
  <1>2. QueueInv
    BY QueueInit
  <1>3. PagesInv
    <2>1. OnMemory(mem) /\ \A a \in FrameZone : mem[a] = FreeLine
      BY ZoneLemma DEF Init, MemInit, OnMemory
    <2> QED
      BY <1>1, <2>1 DEF PagesInv, GoodPCBs, FramesInv
  <1>4. LruInv
    BY <1>1 DEF LruInv
  <1>5. LoadInv
    BY <1>1 DEF LoadInv
  <1>6. TurnInv /\ LockstepInv /\ RecencyInv
    BY <1>1 DEF TurnInv, LockstepInv, RecencyInv
  <1>7. LastInv
    BY <1>1 DEF LastInv, NoLine
  <1> QED
    BY <1>2, <1>3, <1>4, <1>5, <1>6, <1>7 DEF KernelInv

LEMMA KernelUser == KernelInv /\ User => KernelInv'
  <1> SUFFICES ASSUME KernelInv, User PROVE KernelInv'
    OBVIOUS
  <1>1. /\ UNCHANGED <<pcb, QUEUE, LRU_CACHE, PID_counter, turn, last, since>>
        /\ mode = "prompt"
    BY DEF User, SetVar, ResetMem, Exec, Quit
  <1>2. DOMAIN pcb = {} /\ LRU_CACHE = <<>> /\ DOMAIN LRU_CACHE = {} /\ turn = NoTurn
        /\ PID_counter \in Nat
    BY <1>1 DEF KernelInv, QueueInv, StageInv, PidsInv, Empty
  <1>3. \/ mode' = "prompt" /\ args' = args
        \/ mode' = "exited" /\ args' = args
        \/ mode' = "load" /\ args' \in Seq(Script) /\ Len(args') \in 1 .. 3
                          /\ PID_counter + Len(args') <= MaxPid + 1
    <2>1. ASSUME NEW n \in 1 .. 3, NEW scripts \in [1 .. n -> Script], Exec(scripts)
          PROVE  mode' = "load" /\ args' \in Seq(Script) /\ Len(args') \in 1 .. 3
                 /\ PID_counter + Len(args') <= MaxPid + 1
      <3>1. scripts \in Seq(Script) /\ Len(scripts) = n
        <4>1. n \in Nat
          OBVIOUS
        <4>2. scripts \in Seq(Script)
          BY <4>1, SeqDef
        <4>3. DOMAIN scripts = 1 .. n /\ DOMAIN scripts = 1 .. Len(scripts) /\ Len(scripts) \in Nat
          BY <4>2, LenProperties
        <4> QED
          BY <4>1, <4>2, <4>3
      <3> QED
        BY <2>1, <3>1 DEF Exec
    <2> QED
      BY <2>1 DEF User, SetVar, ResetMem, Quit
  <1>4. QueueInv'
    BY QueueNext DEF KernelInv, Next
  <1>5. PagesInv'
    <2>1. FramesInv(mem, pcb) /\ GoodPCBs(pcb) /\ OnMemory(mem)
      BY DEF KernelInv, PagesInv, FramesInv
    <2>2. OnMemory(mem') /\ \A a \in FrameZone : mem'[a] = mem[a]
      BY <2>1, VariablesLemma DEF User, SetVar, ResetMem, Exec, Quit
    <2>3. FramesInv(mem', pcb)
      BY <2>1, <2>2, SameFramesLemma
    <2> QED
      BY <1>1, <2>1, <2>3 DEF PagesInv
  <1>6. LruInv'
    BY <1>1, <1>2 DEF KernelInv, LruInv
  <1>7. LoadInv'
    <2>1. args = <<>> /\ args \in Seq(Script)
      BY <1>1 DEF KernelInv, LoadInv
    <2>2. CASE mode' \in {"prompt", "exited"}
      <3>1. args' = args
        BY <1>3, <2>2
      <3> QED
        BY <2>1, <2>2, <3>1 DEF LoadInv
    <2>3. CASE mode' = "load"
      <3>1. args' \in Seq(Script) /\ Len(args') \in 1 .. 3 /\ PID_counter + Len(args') <= MaxPid + 1
        BY <1>3, <2>3
      <3>2. PID_counter' + Len(args') <= PID_counter + 3
        <4> DEFINE n == Len(args')
        <4>1. n \in 1 .. 3 /\ PID_counter' = PID_counter
          BY <1>1, <3>1
        <4> HIDE DEF n
        <4>2. PID_counter' + n <= PID_counter + 3
          BY <1>2, <4>1
        <4> QED
          BY <4>2 DEF n
      <3>3. \E lo \in Nat : /\ PID_counter' + Len(args') <= lo + 3 /\ lo <= PID_counter'
                            /\ \A q \in DOMAIN pcb' : lo <= q
        BY <1>1, <1>2, <3>2
      <3> QED
        BY <1>1, <1>2, <2>3, <3>1, <3>3 DEF LoadInv
    <2> QED
      BY <1>3, <2>2, <2>3
  <1>8. TurnInv' /\ LockstepInv' /\ RecencyInv'
    BY <1>1, <1>2 DEF TurnInv, LockstepInv, RecencyInv
  <1>9. LastInv'
    BY <1>1 DEF KernelInv, LastInv
  <1> QED
    BY <1>4, <1>5, <1>6, <1>7, <1>8, <1>9 DEF KernelInv

LEMMA KernelNewProcFails == KernelInv /\ NewProcFails => KernelInv'
  <1> SUFFICES ASSUME KernelInv, NewProcFails PROVE KernelInv'
    OBVIOUS
  <1>1. /\ UNCHANGED <<mem, pcb, QUEUE, LRU_CACHE, PID_counter, turn, last, since, args>>
        /\ mode' = "exited"
    BY DEF NewProcFails
  <1>2. QueueInv'
    BY QueueNext DEF KernelInv, Next, Kernel
  <1>3. PagesInv' /\ LastInv'
    BY <1>1 DEF KernelInv, PagesInv, LastInv
  <1>4. LruInv'
    BY <1>1 DEF KernelInv, LruInv
  <1>5. LoadInv' /\ TurnInv' /\ LockstepInv' /\ RecencyInv'
    BY <1>1 DEF KernelInv, LoadInv, TurnInv, LockstepInv, RecencyInv
  <1> QED
    BY <1>2, <1>3, <1>4, <1>5 DEF KernelInv

\* All processes start with no line run, so they are in lockstep.
LEMMA KernelAllLoaded == KernelInv /\ AllLoaded => KernelInv'
  <1> SUFFICES ASSUME KernelInv, AllLoaded PROVE KernelInv'
    OBVIOUS
  <1>1. /\ UNCHANGED <<mem, pcb, QUEUE, LRU_CACHE, PID_counter, turn, last, since, args>>
        /\ mode' = "run" /\ mode = "load" /\ args = <<>>
    BY DEF AllLoaded
  <1>2. QueueInv'
    BY QueueNext DEF KernelInv, Next, Kernel
  <1>3. PagesInv' /\ LastInv'
    BY <1>1 DEF KernelInv, PagesInv, LastInv
  <1>4. LruInv'
    BY <1>1 DEF KernelInv, LruInv, Filling
  <1>5. turn = NoTurn /\ \A q \in DOMAIN pcb : Ran(pcb[q]) = 0
    BY <1>1 DEF KernelInv, LoadInv
  <1>6. LoadInv'
    BY <1>1, <1>5 DEF KernelInv, LoadInv, Filling
  <1>7. TurnInv'
    BY <1>1, <1>5 DEF KernelInv, TurnInv, Queued
  <1>8. LockstepInv' /\ RecencyInv'
    BY <1>1, <1>5 DEF LockstepInv, RecencyInv, WillHaveRun
  <1> QED
    BY <1>2, <1>3, <1>4, <1>6, <1>7, <1>8 DEF KernelInv

--------------------------------------------------------------------------------
(***************************************************************************)
(* Loading a process.                                                      *)
(***************************************************************************)

\* A process without pages in the frame store joins the others.
Joined(ps, q, p) == [r \in DOMAIN ps \cup {q} |-> IF r = q THEN p ELSE ps[r]]

LEMMA JoinLemma ==
    ASSUME NEW m, NEW ps, GoodPCBs(ps), FramesInv(m, ps), NEW q \in Nat \ {0}, q \notin DOMAIN ps,
           NEW p, GoodPCB(p), \A i \in PageOf(Length(p)) : ~p.page_table[i].valid[0],
           NEW ps2, ps2 = Joined(ps, q, p)
    PROVE  /\ GoodPCBs(ps2) /\ FramesInv(m, ps2)
           /\ \A r, k : In(ps2, r, k) <=> In(ps, r, k)
  <1>1. /\ DOMAIN ps2 = DOMAIN ps \cup {q} /\ ps2[q] = p
        /\ \A r \in DOMAIN ps : ps2[r] = ps[r] /\ r # q
    BY DEF Joined
  <1>2. GoodPCBs(ps2)
    BY <1>1 DEF GoodPCBs
  <1>3. \A r, k : In(ps2, r, k) <=> In(ps, r, k)
    BY <1>1 DEF In
  <1>4. \A r, k : In(ps2, r, k) => r \in DOMAIN ps /\ ps2[r] = ps[r] /\ At(ps2, r, k) = At(ps, r, k)
    BY <1>1, <1>3 DEF In, At
  <1>5. \A r \in DOMAIN ps2 : \A k \in PageOf(Length(ps2[r])) : In(ps2, r, k) => InPlace(m, ps2, r, k)
    <2> SUFFICES ASSUME NEW r \in DOMAIN ps2, NEW k \in PageOf(Length(ps2[r])), In(ps2, r, k)
                 PROVE  InPlace(m, ps2, r, k)
      OBVIOUS
    <2>1. r \in DOMAIN ps /\ ps2[r] = ps[r] /\ At(ps2, r, k) = At(ps, r, k) /\ In(ps, r, k)
      BY <1>3, <1>4
    <2>2. InPlace(m, ps, r, k)
      BY <2>1 DEF FramesInv
    <2> QED
      BY <2>1, <2>2 DEF InPlace, LineOf
  <1>6. \A r, t \in DOMAIN ps2 : \A k \in PageOf(Length(ps2[r])), l \in PageOf(Length(ps2[t])) :
            In(ps2, r, k) /\ In(ps2, t, l) /\ At(ps2, r, k) = At(ps2, t, l) => r = t /\ k = l
    <2> SUFFICES ASSUME NEW r \in DOMAIN ps2, NEW t \in DOMAIN ps2,
                        NEW k \in PageOf(Length(ps2[r])), NEW l \in PageOf(Length(ps2[t])),
                        In(ps2, r, k) /\ In(ps2, t, l) /\ At(ps2, r, k) = At(ps2, t, l)
                 PROVE  r = t /\ k = l
      OBVIOUS
    <2>1. /\ r \in DOMAIN ps /\ ps2[r] = ps[r] /\ At(ps2, r, k) = At(ps, r, k) /\ In(ps, r, k)
          /\ t \in DOMAIN ps /\ ps2[t] = ps[t] /\ At(ps2, t, l) = At(ps, t, l) /\ In(ps, t, l)
      BY <1>3, <1>4
    <2> QED
      BY <2>1 DEF FramesInv
  <1>7. ASSUME NEW a \in FrameZone
        PROVE  m[a] = FreeLine \/ \E r \in DOMAIN ps2 : \E k \in PageOf(Length(ps2[r])), j \in 0 .. 2 :
                                    In(ps2, r, k) /\ a = At(ps2, r, k) + j
    <2>1. CASE m[a] = FreeLine
      BY <2>1
    <2>2. CASE m[a] # FreeLine
      <3>1. PICK r \in DOMAIN ps : \E k \in PageOf(Length(ps[r])), j \in 0 .. 2 :
                                      In(ps, r, k) /\ a = At(ps, r, k) + j
        BY <2>2 DEF FramesInv
      <3>2. PICK k \in PageOf(Length(ps[r])), j \in 0 .. 2 : In(ps, r, k) /\ a = At(ps, r, k) + j
        BY <3>1
      <3>3. In(ps2, r, k) /\ At(ps2, r, k) = At(ps, r, k) /\ r \in DOMAIN ps2 /\ ps2[r] = ps[r]
        BY <1>1, <1>3, <1>4, <3>2
      <3> QED
        BY <3>2, <3>3
    <2> QED
      BY <2>1, <2>2
  <1>8. FramesInv(m, ps2)
    BY <1>5, <1>6, <1>7 DEF FramesInv
  <1> QED
    BY <1>2, <1>3, <1>8

LEMMA KernelNewProc == PlainScripts /\ KernelInv /\ NewProc => KernelInv'
  <1> SUFFICES ASSUME PlainScripts, KernelInv, NewProc PROVE KernelInv'
    OBVIOUS
  <1> DEFINE s == Head(args)
             p == NewPCB(s)
             pid == PID_counter
  <1>1. /\ mode = "load" /\ args # <<>> /\ mode' = "fill" /\ args' = Tail(args)
        /\ PID_counter' = PID_counter + 1
        /\ pcb' = [q \in DOMAIN pcb \cup {pid} |-> IF q = pid THEN p ELSE pcb[q]]
        /\ turn' = [pid |-> pid, left |-> PagesAtStart(p), back |-> FALSE]
        /\ UNCHANGED <<mem, QUEUE, LRU_CACHE, last>>
    BY DEF NewProc
  <1>2. args \in Seq(Script)
    BY DEF KernelInv, LoadInv
  <1>3. /\ s \in Script /\ args' \in Seq(Script) /\ Len(args) \in Nat \ {0} /\ Len(args') = Len(args) - 1
    BY <1>1, <1>2
  <1>4. /\ GoodPCB(p) /\ p.script = s /\ p.pos = 0 /\ Ran(p) = 0
        /\ \A i \in PageOf(Length(p)) : ~p.page_table[i].valid[0]
    BY <1>3, NewPCBLemma
  <1>5. PagesAtStart(p) = StartPages(p)
    BY <1>4, StartLemma
  <1>6. pid \in Nat \ {0} /\ pid \notin DOMAIN pcb /\ \A q \in DOMAIN pcb : q \in Nat /\ q < pid
    BY DEF KernelInv, QueueInv, PidsInv
  <1> HIDE DEF s, p
  <1>7. /\ DOMAIN pcb' = DOMAIN pcb \cup {pid} /\ pcb'[pid] = p
        /\ \A q \in DOMAIN pcb : pcb'[q] = pcb[q] /\ q # pid
    BY <1>1, <1>6
  <1>8. turn = NoTurn /\ turn' # NoTurn /\ turn'.pid = pid /\ turn'.left = StartPages(p)
    BY <1>1, <1>5, <1>6 DEF KernelInv, LoadInv, NoTurn
  <1>9. QueueInv'
    BY QueueNext DEF KernelInv, Next, Kernel
  <1>10. /\ GoodPCBs(pcb') /\ FramesInv(mem, pcb')
         /\ \A r, k : In(pcb', r, k) <=> In(pcb, r, k)
    <2>1. GoodPCBs(pcb) /\ FramesInv(mem, pcb)
      BY DEF KernelInv, PagesInv
    <2>2. pcb' = Joined(pcb, pid, p)
      BY <1>1 DEF Joined
    <2> HIDE DEF pid
    <2> QED
      BY <1>4, <1>6, <2>1, <2>2, JoinLemma
  <1>11. PagesInv'
    BY <1>1, <1>10 DEF PagesInv
  <1>12. LruInv'
    <2>1. \A q, i : In(pcb, q, i) => q \in DOMAIN pcb /\ q # pid
      BY <1>7 DEF In
    <2>2. \A a \in DOMAIN LRU_CACHE : In(pcb, LRU_CACHE[a].pid, LRU_CACHE[a].page)
      BY <1>1 DEF KernelInv, LruInv
    <2>3. \A q \in DOMAIN pcb : \A i \in PageOf(Length(pcb[q])) :
              In(pcb, q, i) => \E a \in DOMAIN LRU_CACHE : LRU_CACHE[a] = [pid |-> q, page |-> i]
      BY <1>1 DEF KernelInv, LruInv, Filling
    <2>4. \A a \in DOMAIN LRU_CACHE' : /\ In(pcb', LRU_CACHE'[a].pid, LRU_CACHE'[a].page)
                                       /\ ~(mode' = "fill" /\ LRU_CACHE'[a].pid = turn'.pid)
      BY <1>1, <1>8, <1>10, <2>1, <2>2
    <2>5. \A q \in DOMAIN pcb' : \A i \in PageOf(Length(pcb'[q])) :
              In(pcb', q, i) => \E a \in DOMAIN LRU_CACHE' : LRU_CACHE'[a] = [pid |-> q, page |-> i]
      <3> SUFFICES ASSUME NEW q \in DOMAIN pcb', NEW i \in PageOf(Length(pcb'[q])), In(pcb', q, i)
                   PROVE  \E a \in DOMAIN LRU_CACHE' : LRU_CACHE'[a] = [pid |-> q, page |-> i]
        OBVIOUS
      <3>1. In(pcb, q, i) /\ q \in DOMAIN pcb /\ pcb'[q] = pcb[q]
        BY <1>7, <1>10, <2>1
      <3> QED
        BY <1>1, <2>3, <3>1
    <2>6. /\ LRU_CACHE' \in Seq([pid : Nat, page : Nat])
          /\ \A a, b \in DOMAIN LRU_CACHE' : LRU_CACHE'[a] = LRU_CACHE'[b] => a = b
      BY <1>1 DEF KernelInv, LruInv
    <2> QED
      BY <2>4, <2>5, <2>6 DEF LruInv, Filling
  <1>13. LoadInv'
    <2>1. PID_counter' + Len(args') = PID_counter + Len(args)
      BY <1>1, <1>3, <1>6
    <2>2. PID_counter + Len(args) <= MaxPid + 1
      BY <1>1 DEF KernelInv, LoadInv
    <2>3. PICK lo \in Nat : /\ PID_counter + Len(args) <= lo + 3 /\ lo <= PID_counter
                            /\ \A q \in DOMAIN pcb : lo <= q
      BY <1>1 DEF KernelInv, LoadInv
    <2>4. PID_counter' + Len(args') <= lo + 3 /\ lo <= PID_counter' /\ \A q \in DOMAIN pcb' : lo <= q
      BY <1>1, <1>6, <1>7, <2>1, <2>3
    <2>5. \A q \in DOMAIN pcb' : Ran(pcb'[q]) = 0
      BY <1>1, <1>4, <1>7 DEF KernelInv, LoadInv
    <2>6. /\ turn'.left \in 1 .. StartPages(pcb'[turn'.pid])
          /\ turn' = [pid |-> turn'.pid, left |-> turn'.left, back |-> FALSE]
          /\ pcb'[turn'.pid].pos = 3 * (StartPages(pcb'[turn'.pid]) - turn'.left)
      BY <1>1, <1>4, <1>5, <1>7, <1>8 DEF StartPages
    <2>7. \A q \in DOMAIN pcb' : ~(mode' = "fill" /\ q = turn'.pid)
              => pcb'[q].pos >= 6 \/ pcb'[q].pos = Length(pcb'[q])
      BY <1>1, <1>7, <1>8 DEF KernelInv, LoadInv, Filling
    <2> QED
      BY <1>1, <1>3, <1>8, <2>1, <2>2, <2>4, <2>5, <2>6, <2>7 DEF LoadInv, Filling
  <1>14. TurnInv'
    BY <1>1, <1>7, <1>8 DEF KernelInv, TurnInv, Queued
  <1>15. LockstepInv' /\ RecencyInv'
    BY <1>1 DEF LockstepInv, RecencyInv
  <1>16. LastInv'
    <2>1. /\ last.pid \in Nat /\ last.line \in Nat /\ last.pid < PID_counter
          /\ last.pid \in DOMAIN pcb => last.line <= Ran(pcb[last.pid])
      BY DEF KernelInv, LastInv
    <2> QED
      BY <1>1, <1>6, <1>7, <2>1 DEF LastInv
  <1> QED
    BY <1>9, <1>11, <1>12, <1>13, <1>14, <1>15, <1>16 DEF KernelInv

\* load_PAGE for the next page i of the n pages process t starts with.
FillResult(t, n, i) ==
    /\ t \in DOMAIN pcb /\ t \in Nat /\ n \in 1 .. 2 /\ turn.left \in 1 .. n /\ i \in Nat /\ i < n
    /\ Length(pcb[t]) \in Nat /\ (n = 2 <=> Length(pcb[t]) > 3)
    /\ PagesAtStart(pcb[t]) = n
    /\ Ran(pcb[t]) = 0 /\ pcb[t].pos = 3 * i
    /\ GoodPCBs(pcb') /\ FramesInv(mem', pcb')
    /\ DOMAIN pcb' = DOMAIN pcb
    /\ \A r \in DOMAIN pcb : /\ r # t => pcb'[r] = pcb[r]
                             /\ pcb'[r].script = pcb[r].script /\ pcb'[r].size = pcb[r].size
                             /\ Length(pcb'[r]) = Length(pcb[r]) /\ Ran(pcb'[r]) = Ran(pcb[r])
    /\ pcb'[t].pos = Length(pcb[t]) \/ pcb'[t].pos = 3 * i + 3
    /\ pcb'[t].pos <= 3 * i + 3 /\ pcb'[t].pos <= Length(pcb[t]) /\ pcb'[t].pos \in Nat
    /\ \A r \in DOMAIN pcb : \A k \in PageOf(Length(pcb[r])) :
          In(pcb', r, k) <=> In(pcb, r, k) \/ (r = t /\ k = i)
    /\ \A p \in VarZone : mem'[p] = mem[p]

LEMMA FillStep ==
    ASSUME KernelInv, FillPage
    PROVE  FillResult(turn.pid, StartPages(pcb[turn.pid]), StartPages(pcb[turn.pid]) - turn.left)
  <1> DEFINE t == turn.pid
             n == StartPages(pcb[t])
             i == n - turn.left
  <1>1. mode = "fill" /\ FreeFrames(mem) # {}
    BY DEF FillPage
  <1>2. /\ turn # NoTurn /\ turn.left \in 1 .. n /\ pcb[t].pos = 3 * i
        /\ \A q \in DOMAIN pcb : Ran(pcb[q]) = 0
    BY <1>1 DEF KernelInv, LoadInv
  <1>3. t \in DOMAIN pcb /\ GoodPCBs(pcb) /\ FramesInv(mem, pcb)
    BY <1>2 DEF KernelInv, QueueInv, PidsInv, PagesInv
  <1>4. GoodPCB(pcb[t]) /\ t \in Nat
    BY <1>3 DEF GoodPCBs
  <1>5. Length(pcb[t]) \in Nat \ {0}
    BY <1>4, LengthLemma
  <1>6. n \in 1 .. 2 /\ (n = 2 <=> Length(pcb[t]) > 3) /\ i \in Nat /\ i < n /\ i <= 1
    BY <1>2, <1>5 DEF StartPages
  <1>7. i \in PageOf(Length(pcb[t]))
    BY <1>5, <1>6 DEF PageOf
  <1>8. PagesAtStart(pcb[t]) = n
    BY <1>4, StartLemma
  <1>9. /\ mem' = LoadedMem(mem, t, pcb[t])
        /\ pcb' = [pcb EXCEPT ![t] = LoadedPCB(mem, @, i)]
    BY <1>8 DEF FillPage
  <1>x. pcb' = WithPage(pcb, mem, t, i)
    BY <1>9 DEF WithPage
  <1>y. LoadResult(mem, pcb, t, i, mem', pcb')
    <2>1. i <= 1 \/ 3 * i <= Ran(pcb[t])
      BY <1>6
    <2> HIDE DEF t, n, i
    <2> QED
      BY <1>1, <1>2, <1>3, <1>7, <1>9, <1>x, <2>1, LoadLemma
  <1>10. /\ GoodPCBs(pcb') /\ FramesInv(mem', pcb')
         /\ DOMAIN pcb' = DOMAIN pcb
         /\ \A r \in DOMAIN pcb : /\ r # t => pcb'[r] = pcb[r]
                                  /\ pcb'[r].script = pcb[r].script /\ pcb'[r].size = pcb[r].size
         /\ pcb'[t].pos = Length(pcb[t]) \/ pcb'[t].pos = 3 * i + 3
         /\ pcb'[t].pos <= 3 * i + 3
         /\ \A r \in DOMAIN pcb : \A k \in PageOf(Length(pcb[r])) :
                 In(pcb', r, k) <=> In(pcb, r, k) \/ (r = t /\ k = i)
         /\ \A p \in VarZone : mem'[p] = mem[p]
    BY <1>y DEF LoadResult
  <1>11. \A r \in DOMAIN pcb : Length(pcb'[r]) = Length(pcb[r]) /\ Ran(pcb'[r]) = Ran(pcb[r])
    BY <1>10 DEF Length, Ran
  <1>12. pcb'[t].pos <= Length(pcb[t]) /\ pcb'[t].pos \in Nat
    <2>1. t \in DOMAIN pcb'
      BY <1>3, <1>10
    <2>2. GoodPCB(pcb'[t])
      BY <1>10, <2>1 DEF GoodPCBs
    <2>3. pcb'[t].pos <= Length(pcb'[t]) /\ pcb'[t].pos \in Nat
      BY <2>2, LengthLemma DEF GoodPCB
    <2> QED
      BY <1>3, <1>11, <2>3
  <1> QED
    BY <1>2, <1>3, <1>4, <1>5, <1>6, <1>8, <1>10, <1>11, <1>12 DEF FillResult

LEMMA KernelFillPage == KernelInv /\ FillPage => KernelInv'
  <1> SUFFICES ASSUME KernelInv, FillPage PROVE KernelInv'
    OBVIOUS
  <1> DEFINE t == turn.pid
             n == StartPages(pcb[t])
             i == n - turn.left
             E == [pid : Nat, page : Nat]
  <1>1. /\ t \in DOMAIN pcb /\ t \in Nat /\ n \in 1 .. 2 /\ turn.left \in 1 .. n /\ i \in Nat /\ i < n
        /\ Length(pcb[t]) \in Nat /\ (n = 2 <=> Length(pcb[t]) > 3)
        /\ PagesAtStart(pcb[t]) = n
        /\ Ran(pcb[t]) = 0 /\ pcb[t].pos = 3 * i
        /\ GoodPCBs(pcb') /\ FramesInv(mem', pcb')
        /\ DOMAIN pcb' = DOMAIN pcb
        /\ \A r \in DOMAIN pcb : /\ r # t => pcb'[r] = pcb[r]
                                 /\ pcb'[r].script = pcb[r].script /\ pcb'[r].size = pcb[r].size
                                 /\ Length(pcb'[r]) = Length(pcb[r]) /\ Ran(pcb'[r]) = Ran(pcb[r])
        /\ pcb'[t].pos = Length(pcb[t]) \/ pcb'[t].pos = 3 * i + 3
        /\ pcb'[t].pos <= 3 * i + 3 /\ pcb'[t].pos <= Length(pcb[t]) /\ pcb'[t].pos \in Nat
        /\ \A r \in DOMAIN pcb : \A k \in PageOf(Length(pcb[r])) :
              In(pcb', r, k) <=> In(pcb, r, k) \/ (r = t /\ k = i)
    BY FillStep DEF FillResult
  <1>2. /\ mode = "fill" /\ UNCHANGED <<PID_counter, args, last, since>>
        /\ turn # NoTurn /\ turn = [pid |-> t, left |-> turn.left, back |-> FALSE]
    BY DEF FillPage, KernelInv, LoadInv
  <1>3. IF turn.left > 1
        THEN turn' = [turn EXCEPT !.left = @ - 1] /\ UNCHANGED <<QUEUE, LRU_CACHE, mode>>
        ELSE /\ turn' = NoTurn /\ QUEUE' = Append(QUEUE, t) /\ mode' = "load"
             /\ LRU_CACHE' = [k \in 1 .. n |-> [pid |-> t, page |-> n - k]] \o LRU_CACHE
    BY <1>1 DEF FillPage
  <1> HIDE DEF t, n, i
  <1>4. QueueInv'
    BY QueueNext DEF KernelInv, Next, Kernel
  <1>5. PagesInv'
    BY <1>1 DEF PagesInv
  <1>6. /\ LRU_CACHE \in Seq(E)
        /\ \A a, b \in DOMAIN LRU_CACHE : LRU_CACHE[a] = LRU_CACHE[b] => a = b
        /\ \A a \in DOMAIN LRU_CACHE : In(pcb, LRU_CACHE[a].pid, LRU_CACHE[a].page) /\ LRU_CACHE[a].pid # t
        /\ \A q \in DOMAIN pcb : \A k \in PageOf(Length(pcb[q])) : In(pcb, q, k) /\ q # t =>
               \E a \in DOMAIN LRU_CACHE : LRU_CACHE[a] = [pid |-> q, page |-> k]
    BY <1>2 DEF KernelInv, LruInv, Filling, t
  <1>7. \A q, k : In(pcb, q, k) => q \in DOMAIN pcb /\ k \in PageOf(Length(pcb[q])) /\ In(pcb', q, k)
    BY <1>1 DEF In
  <1>8. \A q, k : In(pcb', q, k) => /\ q \in DOMAIN pcb /\ k \in PageOf(Length(pcb[q]))
                                    /\ In(pcb, q, k) \/ (q = t /\ k = i)
    BY <1>1 DEF In
  <1>9. LastInv'
    BY <1>1, <1>2 DEF KernelInv, LastInv
  <1>10. /\ args' \in Seq(Script)
         /\ PID_counter' + Len(args') <= MaxPid + 1
         /\ \E lo \in Nat : /\ PID_counter' + Len(args') <= lo + 3 /\ lo <= PID_counter'
                            /\ \A q \in DOMAIN pcb' : lo <= q
         /\ \A q \in DOMAIN pcb' : Ran(pcb'[q]) = 0
         /\ \A q \in DOMAIN pcb' : q # t => pcb'[q].pos >= 6 \/ pcb'[q].pos = Length(pcb'[q])
    <2>1. \A q \in DOMAIN pcb : q # t => pcb[q].pos >= 6 \/ pcb[q].pos = Length(pcb[q])
      BY <1>2 DEF KernelInv, LoadInv, Filling, t
    <2>2. \A q \in DOMAIN pcb : Ran(pcb[q]) = 0
      BY <1>2 DEF KernelInv, LoadInv
    <2>3. \E lo \in Nat : /\ PID_counter + Len(args) <= lo + 3 /\ lo <= PID_counter
                          /\ \A q \in DOMAIN pcb : lo <= q
      BY <1>2 DEF KernelInv, LoadInv
    <2>4. args \in Seq(Script) /\ PID_counter + Len(args) <= MaxPid + 1
      BY <1>2 DEF KernelInv, LoadInv
    <2> QED
      BY <1>1, <1>2, <2>1, <2>2, <2>3, <2>4
  <1>11. \A q \in DOMAIN pcb : pcb[q].size > 0 => Queued(q) \/ q = t
    BY <1>2 DEF KernelInv, TurnInv, t
  <1>12. CASE turn.left > 1
    <2>1. turn' = [pid |-> t, left |-> turn.left - 1, back |-> FALSE] /\ UNCHANGED <<QUEUE, LRU_CACHE, mode>>
      BY <1>2, <1>3, <1>12
    <2>2. n = 2 /\ turn.left = 2 /\ i = 0 /\ turn'.left = 1 /\ turn'.pid = t
      BY <1>1, <1>12, <2>1 DEF i
    <2>3. turn' # NoTurn
      BY <2>1, <2>2 DEF NoTurn
    <2>4. LruInv'
      <3>1. \A a \in DOMAIN LRU_CACHE' : /\ In(pcb', LRU_CACHE'[a].pid, LRU_CACHE'[a].page)
                                         /\ ~(mode' = "fill" /\ LRU_CACHE'[a].pid = turn'.pid)
        BY <1>6, <1>7, <2>1, <2>2
      <3>2. \A q \in DOMAIN pcb' : \A k \in PageOf(Length(pcb'[q])) :
               In(pcb', q, k) /\ q # t =>
                   \E a \in DOMAIN LRU_CACHE' : LRU_CACHE'[a] = [pid |-> q, page |-> k]
        <4> SUFFICES ASSUME NEW q \in DOMAIN pcb', NEW k \in PageOf(Length(pcb'[q])), In(pcb', q, k), q # t
                     PROVE  \E a \in DOMAIN LRU_CACHE' : LRU_CACHE'[a] = [pid |-> q, page |-> k]
          OBVIOUS
        <4>1. q \in DOMAIN pcb /\ k \in PageOf(Length(pcb[q])) /\ In(pcb, q, k)
          BY <1>8
        <4> QED
          BY <1>6, <2>1, <4>1
      <3> QED
        BY <1>2, <1>6, <2>1, <2>2, <3>1, <3>2 DEF LruInv, Filling
    <2>5. LoadInv'
      <3>1. Length(pcb'[t]) = Length(pcb[t]) /\ StartPages(pcb'[t]) = 2
        BY <1>1, <2>2 DEF StartPages
      <3>2. pcb'[t].pos = 3
        BY <1>1, <2>2
      <3>3. turn'.left \in 1 .. StartPages(pcb'[turn'.pid])
            /\ pcb'[turn'.pid].pos = 3 * (StartPages(pcb'[turn'.pid]) - turn'.left)
        BY <2>2, <3>1, <3>2
      <3> QED
        BY <1>2, <1>10, <2>1, <2>2, <2>3, <3>3 DEF LoadInv, Filling
    <2>6. TurnInv'
      BY <1>1, <1>2, <1>11, <2>1, <2>2, <2>3 DEF TurnInv, Queued
    <2>7. LockstepInv' /\ RecencyInv'
      BY <1>2, <2>1 DEF LockstepInv, RecencyInv
    <2> QED
      BY <1>4, <1>5, <1>9, <2>4, <2>5, <2>6, <2>7 DEF KernelInv
  <1>13. CASE ~(turn.left > 1)
    <2>1. /\ turn' = NoTurn /\ QUEUE' = Append(QUEUE, t) /\ mode' = "load"
          /\ LRU_CACHE' = [k \in 1 .. n |-> [pid |-> t, page |-> n - k]] \o LRU_CACHE
      BY <1>3, <1>13
    <2>2. turn.left = 1 /\ i = n - 1
      BY <1>1, <1>13 DEF i
    <2> DEFINE F == [k \in 1 .. n |-> [pid |-> t, page |-> n - k]]
    <2>3. F \in Seq(E) /\ Len(F) = n /\ \A k \in 1 .. n : F[k] = [pid |-> t, page |-> n - k]
      BY <1>1
    <2> HIDE DEF F, E
    <2>4. /\ LRU_CACHE' \in Seq(E) /\ Len(LRU_CACHE') = n + Len(LRU_CACHE)
          /\ \A a \in 1 .. n + Len(LRU_CACHE) :
                LRU_CACHE'[a] = IF a <= n THEN F[a] ELSE LRU_CACHE[a - n]
      <3>1. /\ F \o LRU_CACHE \in Seq(E)
            /\ Len(F \o LRU_CACHE) = Len(F) + Len(LRU_CACHE)
            /\ \A a \in 1 .. Len(F) + Len(LRU_CACHE) :
                  (F \o LRU_CACHE)[a] = IF a <= Len(F) THEN F[a] ELSE LRU_CACHE[a - Len(F)]
        <4>1. F \in Seq(E) /\ LRU_CACHE \in Seq(E)
          BY <1>6, <2>3
        <4> QED
          BY <4>1, ConcatProperties
      <3>2. LRU_CACHE' = F \o LRU_CACHE
        BY <2>1 DEF F
      <3> QED
        BY <2>3, <3>1, <3>2
    <2>5. Len(LRU_CACHE) \in Nat /\ DOMAIN LRU_CACHE = 1 .. Len(LRU_CACHE)
          /\ DOMAIN LRU_CACHE' = 1 .. n + Len(LRU_CACHE)
      BY <1>1, <1>6, <2>4, LenProperties
    <2>6. \A a \in DOMAIN LRU_CACHE' :
             \/ a \in 1 .. n /\ LRU_CACHE'[a] = [pid |-> t, page |-> n - a]
             \/ a - n \in DOMAIN LRU_CACHE /\ ~(a <= n) /\ LRU_CACHE'[a] = LRU_CACHE[a - n]
      <3> SUFFICES ASSUME NEW a \in 1 .. n + Len(LRU_CACHE)
                   PROVE  \/ a \in 1 .. n /\ LRU_CACHE'[a] = [pid |-> t, page |-> n - a]
                          \/ a - n \in DOMAIN LRU_CACHE /\ ~(a <= n) /\ LRU_CACHE'[a] = LRU_CACHE[a - n]
        BY <2>5
      <3>1. CASE a <= n
        <4>1. a \in 1 .. n
          BY <1>1, <2>5, <3>1
        <4> QED
          BY <2>3, <2>4, <3>1, <4>1
      <3>2. CASE ~(a <= n)
        <4>1. a - n \in 1 .. Len(LRU_CACHE)
          BY <1>1, <2>5, <3>2
        <4> QED
          BY <2>4, <2>5, <3>2, <4>1
      <3> QED
        BY <3>1, <3>2
    <2>7. \A a \in DOMAIN LRU_CACHE : /\ n + a \in DOMAIN LRU_CACHE'
                                      /\ LRU_CACHE'[n + a] = LRU_CACHE[a]
      <3> SUFFICES ASSUME NEW a \in 1 .. Len(LRU_CACHE)
                   PROVE  n + a \in DOMAIN LRU_CACHE' /\ LRU_CACHE'[n + a] = LRU_CACHE[a]
        BY <2>5
      <3> DEFINE b == n + a
      <3>1. b \in 1 .. n + Len(LRU_CACHE) /\ ~(b <= n) /\ b - n = a
        BY <1>1, <2>5
      <3> HIDE DEF b
      <3>2. b \in DOMAIN LRU_CACHE' /\ LRU_CACHE'[b] = LRU_CACHE[a]
        BY <2>4, <2>5, <3>1
      <3> QED
        BY <3>2 DEF b
    <2>8. \A k \in 0 .. n - 1 : In(pcb', t, k)
      <3> SUFFICES ASSUME NEW k \in 0 .. n - 1 PROVE In(pcb', t, k)
        OBVIOUS
      <3>1. k \in PageOf(Length(pcb[t]))
        <4>1. Length(pcb[t]) # 0
          BY <1>1, LengthLemma DEF GoodPCBs
        <4> QED
          BY <1>1, <4>1 DEF PageOf
      <3>2. CASE k = i
        BY <1>1, <3>1, <3>2
      <3>3. CASE k # i
        <4>1. k = 0 /\ i = 1 /\ pcb[t].pos = 3 /\ n = 2
          BY <1>1, <2>2, <3>3
        <4>2. GoodPCB(pcb[t])
          BY <1>1 DEF KernelInv, PagesInv, GoodPCBs
        <4>3. GoodPage(pcb[t], k)
          BY <3>1, <4>2 DEF GoodPCB
        <4>4. ~Spent(pcb[t], k)
          BY <1>1, <4>1 DEF Spent
        <4>5. \E g \in Frame : InFrame(pcb[t], k, g)
          BY <4>1, <4>3, <4>4 DEF GoodPage
        <4>6. pcb[t].page_table[k].valid[0]
          BY <1>1, <4>1, <4>5 DEF InFrame
        <4>7. In(pcb, t, k)
          BY <1>1, <3>1, <4>6 DEF In
        <4> QED
          BY <1>7, <4>7
      <3> QED
        BY <3>2, <3>3
    <2>9. ASSUME NEW k, In(pcb', t, k) PROVE k \in 0 .. n - 1
      <3>1. \E g \in Frame : 3 * k < pcb'[t].pos
        BY <1>1, <2>9, InLemma
      <3>2. k \in Nat
        BY <1>1, <1>8, <2>9, LengthLemma DEF GoodPCBs, KernelInv, PagesInv
      <3> QED
        BY <1>1, <2>2, <3>1, <3>2
    <2>10. LruInv'
      <3>1. ASSUME NEW a \in DOMAIN LRU_CACHE', NEW b \in DOMAIN LRU_CACHE', LRU_CACHE'[a] = LRU_CACHE'[b]
            PROVE  a = b
        <4>0. a \in Int /\ b \in Int /\ n \in Int
          BY <1>1, <2>5
        <4>1. CASE a \in 1 .. n /\ LRU_CACHE'[a] = [pid |-> t, page |-> n - a]
          <5>1. LRU_CACHE'[b].pid = t
            BY <3>1, <4>1
          <5>2. b \in 1 .. n /\ LRU_CACHE'[b] = [pid |-> t, page |-> n - b]
            BY <1>6, <2>6, <5>1
          <5>3. n - a = n - b
            <6>1. LRU_CACHE'[a].page = n - a /\ LRU_CACHE'[b].page = n - b
              BY <4>1, <5>2
            <6> QED
              BY <3>1, <6>1
          <5> QED
            BY <4>0, <5>3
        <4>2. CASE a - n \in DOMAIN LRU_CACHE /\ LRU_CACHE'[a] = LRU_CACHE[a - n]
          <5>1. LRU_CACHE'[b].pid # t
            BY <1>6, <3>1, <4>2
          <5>2. b - n \in DOMAIN LRU_CACHE /\ LRU_CACHE'[b] = LRU_CACHE[b - n]
            BY <2>6, <5>1
          <5>3. a - n = b - n
            BY <1>6, <3>1, <4>2, <5>2
          <5> QED
            BY <4>0, <5>3
        <4> QED
          BY <2>6, <4>1, <4>2
      <3>2. ASSUME NEW a \in DOMAIN LRU_CACHE' PROVE In(pcb', LRU_CACHE'[a].pid, LRU_CACHE'[a].page)
        <4>1. CASE a \in 1 .. n /\ LRU_CACHE'[a] = [pid |-> t, page |-> n - a]
          <5>1. n - a \in 0 .. n - 1
            BY <1>1, <4>1
          <5> QED
            BY <2>8, <4>1, <5>1
        <4>2. CASE a - n \in DOMAIN LRU_CACHE /\ LRU_CACHE'[a] = LRU_CACHE[a - n]
          BY <1>6, <1>7, <4>2
        <4> QED
          BY <2>6, <4>1, <4>2
      <3>3. ASSUME NEW q \in DOMAIN pcb', NEW k \in PageOf(Length(pcb'[q])), In(pcb', q, k)
            PROVE  \E a \in DOMAIN LRU_CACHE' : LRU_CACHE'[a] = [pid |-> q, page |-> k]
        <4>1. CASE q = t
          <5> DEFINE a == n - k
          <5>1. a \in 1 .. n /\ n - a = k /\ a \in DOMAIN LRU_CACHE' /\ a <= n
            BY <1>1, <2>5, <2>9, <3>3, <4>1
          <5> HIDE DEF a
          <5>2. LRU_CACHE'[a] = [pid |-> t, page |-> n - a]
            BY <2>6, <5>1
          <5> QED
            BY <4>1, <5>1, <5>2
        <4>2. CASE q # t
          <5>1. q \in DOMAIN pcb /\ k \in PageOf(Length(pcb[q])) /\ In(pcb, q, k)
            BY <1>8, <3>3, <4>2
          <5>2. PICK a \in DOMAIN LRU_CACHE : LRU_CACHE[a] = [pid |-> q, page |-> k]
            BY <1>6, <4>2, <5>1
          <5> QED
            BY <2>7, <5>2
        <4> QED
          BY <4>1, <4>2
      <3> QED
        BY <2>1, <2>4, <3>1, <3>2, <3>3 DEF LruInv, Filling, E
    <2>11. LoadInv'
      <3>1. pcb'[t].pos >= 6 \/ pcb'[t].pos = Length(pcb[t])
        <4>1. CASE n = 2
          BY <1>1, <2>2, <4>1
        <4>2. CASE n = 1
          BY <1>1, <2>2, <4>2
        <4> QED
          BY <1>1, <4>1, <4>2
      <3>2. \A q \in DOMAIN pcb' : pcb'[q].pos >= 6 \/ pcb'[q].pos = Length(pcb'[q])
        BY <1>1, <1>10, <3>1
      <3> QED
        BY <1>10, <2>1, <3>2 DEF LoadInv, Filling
    <2>12. TurnInv'
      <3>1. QUEUE \in Seq(DOMAIN pcb)
        BY DEF KernelInv, QueueInv, PidsInv
      <3>2. \A q : Queued(q) \/ q = t => \E k \in DOMAIN QUEUE' : QUEUE'[k] = q
        <4>1. /\ DOMAIN QUEUE = 1 .. Len(QUEUE)
              /\ Len(QUEUE) \in Nat
              /\ DOMAIN QUEUE' = 1 .. Len(QUEUE) + 1
              /\ \A k \in DOMAIN QUEUE : QUEUE'[k] = QUEUE[k]
              /\ QUEUE'[Len(QUEUE) + 1] = t
          BY <2>1, <3>1
        <4>2. Len(QUEUE) + 1 \in DOMAIN QUEUE' /\ \A k \in DOMAIN QUEUE : k \in DOMAIN QUEUE'
          BY <4>1
        <4> QED
          BY <4>1, <4>2 DEF Queued
      <3> QED
        BY <1>1, <1>11, <2>1, <3>2 DEF TurnInv, Queued
    <2>13. LockstepInv' /\ RecencyInv'
      BY <2>1 DEF LockstepInv, RecencyInv
    <2> QED
      BY <1>4, <1>5, <1>9, <2>10, <2>11, <2>12, <2>13 DEF KernelInv
  <1> QED
    BY <1>12, <1>13

--------------------------------------------------------------------------------
(***************************************************************************)
(* Running a process.                                                      *)
(***************************************************************************)

\* The process t whose turn it is, its current page i and the lines d it has run.
RunningFacts(t, i, d) ==
    /\ t \in DOMAIN pcb /\ t \in Nat /\ GoodPCB(pcb[t])
    /\ turn.left \in 1 .. 2 /\ turn.left <= pcb[t].size /\ pcb[t].size \in Nat
    /\ i \in PageOf(Length(pcb[t])) /\ i \in Nat /\ d \in Nat
    /\ 3 * i <= d /\ d < 3 * i + 3 /\ d < Length(pcb[t])
    /\ Length(pcb[t]) \in Nat /\ d + pcb[t].size = Length(pcb[t])
    /\ RunningPage = [pid |-> t, page |-> i]
    /\ pcb[t].program_counter[i] = d - 3 * i
    /\ Valid <=> In(pcb, t, i)

LEMMA RunningLemma ==
    ASSUME KernelInv, Running
    PROVE  RunningFacts(turn.pid, CurrentPage(pcb[turn.pid]), Ran(pcb[turn.pid]))
  <1> DEFINE t == turn.pid
             p == pcb[t]
             i == CurrentPage(p)
             d == Ran(p)
  <1>1. mode = "run" /\ turn # NoTurn
    BY DEF Running
  <1>2. t \in DOMAIN pcb /\ t \in Nat /\ GoodPCB(p)
    BY <1>1 DEF KernelInv, QueueInv, PidsInv, PagesInv, GoodPCBs
  <1>3. turn.left \in 1 .. 2 /\ turn.left <= p.size
    BY <1>1 DEF KernelInv, TurnInv
  <1>4. /\ Length(p) \in Nat /\ d \in Nat /\ p.size \in Nat /\ d + p.size = Length(p)
    BY <1>2, LengthLemma
  <1>5. p.size > 0 /\ d < Length(p)
    BY <1>3, <1>4
  <1>6. /\ i \in PageOf(Length(p)) /\ i \in Nat /\ 3 * i <= d /\ d < 3 * i + 3
        /\ p.program_counter[i] = d - 3 * i
    BY <1>2, <1>5, CurrentPageLemma
  <1>7. RunningPage = [pid |-> t, page |-> i]
    BY DEF RunningPage
  <1>8. Valid <=> p.page_table[i].valid[d - 3 * i]
    <2>1. RunningLine = d - 3 * i
      BY <1>6, <1>7 DEF RunningLine
    <2> QED
      BY <1>7, <2>1 DEF Valid, ThePage
  <1> HIDE DEF p, t, i, d
  <1>9. GoodPage(p, i)
    BY <1>2, <1>6 DEF GoodPCB
  <1>10. d - 3 * i \in 0 .. 2 /\ 0 \in 0 .. 2 /\ 3 * i + (d - 3 * i) < Length(p) /\ 3 * i + 0 < Length(p)
    BY <1>4, <1>5, <1>6
  <1>11. p.page_table[i].valid[d - 3 * i] <=> p.page_table[i].valid[0]
    <2> DEFINE j == d - 3 * i
    <2> HIDE DEF j
    <2>1. j \in 0 .. 2 /\ 3 * i + j < Length(p)
      BY <1>10 DEF j
    <2>2. CASE \E g \in Frame : InFrame(p, i, g)
      <3>1. p.page_table[i].valid[j] /\ p.page_table[i].valid[0]
        BY <1>10, <2>1, <2>2 DEF InFrame
      <3> QED
        BY <3>1 DEF j
    <2>3. CASE \E at : NotLoaded(p, i, at)
      <3>1. ~p.page_table[i].valid[j] /\ ~p.page_table[i].valid[0]
        BY <1>10, <2>1, <2>3 DEF NotLoaded
      <3> QED
        BY <3>1 DEF j
    <2> QED
      BY <1>9, <2>2, <2>3 DEF GoodPage
  <1>12. Valid <=> In(pcb, t, i)
    BY <1>2, <1>6, <1>8, <1>11 DEF In, p
  <1> QED
    BY <1>2, <1>3, <1>4, <1>5, <1>6, <1>7, <1>12 DEF RunningFacts, t, p, i, d

\* A valid line in memory is the next line of the script.
LEMMA FetchLemma ==
    ASSUME KernelInv, Running, Valid, NEW t, NEW i, NEW d, RunningFacts(t, i, d), t = turn.pid
    PROVE  /\ Fetched(mem, RunningAt) = [pid |-> t, script |-> pcb[t].script, line |-> d + 1]
           /\ Command = Lines[pcb[t].script][d + 1]
  <1> DEFINE j == d - 3 * i
             p == pcb[t]
  <1>1. /\ In(pcb, t, i) /\ RunningPage = [pid |-> t, page |-> i] /\ GoodPCB(p) /\ t \in DOMAIN pcb
        /\ i \in PageOf(Length(p)) /\ i \in Nat /\ d \in Nat /\ 3 * i <= d /\ d < 3 * i + 3 /\ d < Length(p)
        /\ p.program_counter[i] = j
    BY DEF RunningFacts
  <1>2. j \in 0 .. 2 /\ 3 * i + j = d
    BY <1>1
  <1>3. GoodPCBs(pcb) /\ FramesInv(mem, pcb)
    BY DEF KernelInv, PagesInv
  <1> HIDE DEF j
  <1>4. PICK g \in Frame : At(pcb, t, i) = 3 * g /\ InFrame(pcb[t], i, g)
    BY <1>1, <1>3, InLemma
  <1>5. RunningLine = j
    BY <1>1 DEF RunningLine
  <1>6. RunningAt = At(pcb, t, i) + j
    <2>1. RunningAt = p.page_table[i].index[j]
      BY <1>1, <1>5 DEF RunningAt, ThePage
    <2> QED
      BY <1>2, <1>4, <2>1 DEF InFrame
  <1>7. InPlace(mem, pcb, t, i)
    BY <1>1, <1>3 DEF FramesInv
  <1>8. mem[RunningAt] = LineOf(pcb, t, d + 1)
    BY <1>1, <1>2, <1>6, <1>7 DEF InPlace
  <1>9. Fetched(mem, RunningAt) = [pid |-> t, script |-> pcb[t].script, line |-> d + 1]
    BY <1>8 DEF Fetched, LineOf
  <1> QED
    BY <1>9 DEF Command

\* No line of a plain script is taken for a page fault.
LEMMA NoReturn1 ==
    ASSUME PlainScripts, KernelInv, Running, Valid
    PROVE  CommandRet(Command) # 1
  <1> DEFINE t == turn.pid
             i == CurrentPage(pcb[t])
             d == Ran(pcb[t])
             s == pcb[t].script
  <1>1. RunningFacts(t, i, d)
    BY RunningLemma
  <1> HIDE DEF t, i, d
  <1>2. Command = Lines[s][d + 1]
    BY <1>1, FetchLemma DEF t
  <1>3. s \in Script /\ d + 1 \in 1 .. Len(Lines[s])
    <2>1. GoodPCB(pcb[t]) /\ d \in Nat /\ d < Length(pcb[t]) /\ Length(pcb[t]) \in Nat
      BY <1>1 DEF RunningFacts
    <2> QED
      BY <2>1, LengthLemma DEF Length
  <1>4. Command.op \notin {"blank", "rm"}
    BY <1>2, <1>3 DEF PlainScripts
  <1>5. CASE Command.op = "quit"
    BY <1>5 DEF CommandRet
  <1>6. CASE Command.op # "quit"
    BY <1>4, <1>6 DEF CommandRet
  <1> QED
    BY <1>5, <1>6

LEMMA KernelPop == KernelInv /\ Pop => KernelInv'
  <1> SUFFICES ASSUME KernelInv, Pop PROVE KernelInv'
    OBVIOUS
  <1> DEFINE pid == Head(QUEUE)
             n == IF pcb[pid].size > 1 THEN 2 ELSE 1
             L(q) == Length(pcb[q])
             R(q) == Ran(pcb[q])
             W(q) == R(q) + IF turn' # NoTurn /\ q = turn'.pid THEN turn'.left ELSE 0
  <1>1. /\ UNCHANGED <<mem, pcb, LRU_CACHE, PID_counter, mode, args, last>>
        /\ mode = "run" /\ turn = NoTurn /\ QUEUE' = Tail(QUEUE)
    BY DEF Pop
  <1>2. QUEUE # <<>> /\ QUEUE \in Seq(DOMAIN pcb)
    BY DEF Pop, queue_done, KernelInv, QueueInv, PidsInv
  <1>3. /\ DOMAIN QUEUE = 1 .. Len(QUEUE) /\ Len(QUEUE) \in Nat \ {0}
        /\ DOMAIN QUEUE' = 1 .. Len(QUEUE) - 1
        /\ \A i \in DOMAIN QUEUE' : QUEUE'[i] = QUEUE[i + 1]
        /\ pid = QUEUE[1] /\ pid \in DOMAIN pcb
    BY <1>1, <1>2
  <1>4. \A q \in DOMAIN pcb : /\ L(q) \in Nat /\ R(q) \in Nat /\ pcb[q].size \in Nat
                              /\ R(q) + pcb[q].size = L(q)
    BY LengthLemma DEF KernelInv, PagesInv, GoodPCBs
  <1>5. \A q \in DOMAIN pcb : pcb[q].size > 0 => \E k \in DOMAIN QUEUE : QUEUE[k] = q
    BY <1>1 DEF KernelInv, TurnInv, Queued
  <1>6. \A q \in DOMAIN pcb : pcb[q].size > 0 /\ q # pid => \E k \in DOMAIN QUEUE' : QUEUE'[k] = q
    <2> SUFFICES ASSUME NEW q \in DOMAIN pcb, pcb[q].size > 0, q # pid
                 PROVE  \E k \in DOMAIN QUEUE' : QUEUE'[k] = q
      OBVIOUS
    <2>1. PICK k \in DOMAIN QUEUE : QUEUE[k] = q
      BY <1>5
    <2> DEFINE l == k - 1
    <2>2. k # 1
      BY <1>3, <2>1
    <2>3. l \in DOMAIN QUEUE' /\ l + 1 = k
      BY <1>3, <2>2
    <2> HIDE DEF l
    <2> QED
      BY <1>3, <2>1, <2>3
  <1>7. \A q \in DOMAIN pcb : pcb[q].size > 0 /\ q # pid => pid \notin since[q]
    <2> SUFFICES ASSUME NEW q \in DOMAIN pcb, pcb[q].size > 0, q # pid PROVE pid \notin since[q]
      OBVIOUS
    <2>1. PICK k \in DOMAIN QUEUE : QUEUE[k] = q
      BY <1>5
    <2>2. 1 \in DOMAIN QUEUE /\ 1 < k
      BY <1>3, <2>1
    <2> QED
      BY <1>3, <2>1, <2>2 DEF KernelInv, QueueInv, SinceInv
  <1>8. DOMAIN since = DOMAIN pcb
    BY DEF KernelInv, QueueInv, SinceInv
  <1>9. /\ pcb[pid].size = 0 => turn' = NoTurn /\ since' = since
        /\ pcb[pid].size # 0 =>
             /\ turn' = [pid |-> pid, left |-> n, back |-> pcb[pid].size > 1]
             /\ since' = [q \in DOMAIN pcb |-> IF q = pid THEN {} ELSE since[q] \cup {pid}]
    BY <1>8 DEF Pop
  <1>10. pid \in Nat \ {0}
    BY <1>3 DEF KernelInv, QueueInv, PidsInv
  <1>11. \A q, r \in DOMAIN pcb : R(q) < L(q) /\ R(q) < 4 =>
            R(r) <= R(q) + 2 /\ (r \notin since[q] => R(r) <= R(q))
    <2>1. \A q \in DOMAIN pcb : WillHaveRun(q) = R(q)
      BY <1>1, <1>4 DEF WillHaveRun
    <2> QED
      BY <1>1, <2>1 DEF KernelInv, LockstepInv
  <1>12. QueueInv'
    BY QueueNext DEF KernelInv, Next, Kernel
  <1>13. PagesInv' /\ LastInv'
    BY <1>1 DEF KernelInv, PagesInv, LastInv
  <1>14. LruInv'
    BY <1>1 DEF KernelInv, LruInv, Filling
  <1>15. LoadInv'
    BY <1>1 DEF KernelInv, LoadInv, Filling
  <1>16. \A q \in DOMAIN pcb : WillHaveRun(q)' = W(q)
    BY <1>1 DEF WillHaveRun
  <1> HIDE DEF pid, L, R
  <1>17. TurnInv'
    <2>1. CASE pcb[pid].size = 0
      <3>1. \A q \in DOMAIN pcb : pcb[q].size > 0 => \E k \in DOMAIN QUEUE' : QUEUE'[k] = q
        BY <1>4, <1>6, <2>1
      <3> QED
        BY <1>1, <1>9, <2>1, <3>1 DEF TurnInv, Queued
    <2>2. CASE pcb[pid].size # 0
      <3>1. turn' = [pid |-> pid, left |-> n, back |-> pcb[pid].size > 1] /\ turn' # NoTurn
        BY <1>9, <1>10, <2>2 DEF NoTurn
      <3>2. /\ turn'.left \in 1 .. 2 /\ turn'.back \in BOOLEAN /\ turn'.pid = pid
            /\ turn' = [pid |-> turn'.pid, left |-> turn'.left, back |-> turn'.back]
        BY <3>1
      <3>3. turn'.left <= pcb[pid].size /\ (~turn'.back => turn'.left = 1 /\ pcb[pid].size = 1)
        <4>1. turn'.left = n /\ turn'.back = (pcb[pid].size > 1)
          BY <3>1
        <4>2. pcb[pid].size \in Nat \ {0}
          BY <1>3, <1>4, <2>2
        <4>3. n <= pcb[pid].size /\ (~(pcb[pid].size > 1) => n = 1 /\ pcb[pid].size = 1)
          BY <4>2
        <4> QED
          BY <4>1, <4>3
      <3>4. \A q \in DOMAIN pcb : pcb[q].size > 0 => (\E k \in DOMAIN QUEUE' : QUEUE'[k] = q) \/ q = turn'.pid
        BY <1>6, <3>2
      <3> QED
        BY <1>1, <3>1, <3>2, <3>3, <3>4 DEF TurnInv, Queued
    <2> QED
      BY <2>1, <2>2
  <1>18. LockstepInv'
    <2> SUFFICES ASSUME NEW q \in DOMAIN pcb, NEW r \in DOMAIN pcb, W(q) < L(q), W(q) < 4
                 PROVE  W(r) <= W(q) + 2 /\ (r \notin since'[q] => W(r) <= W(q))
      BY <1>1, <1>16 DEF LockstepInv, L
    <2>1. CASE pcb[pid].size = 0
      <3>1. W(q) = R(q) /\ W(r) = R(r) /\ since' = since
        BY <1>4, <1>9, <2>1
      <3> QED
        BY <1>11, <3>1
    <2>2. CASE pcb[pid].size # 0
      <3>1. turn' # NoTurn /\ turn'.pid = pid /\ turn'.left = n /\ n \in 1 .. 2
            /\ since' = [x \in DOMAIN pcb |-> IF x = pid THEN {} ELSE since[x] \cup {pid}]
        BY <1>9, <1>10, <2>2 DEF NoTurn
      <3>2. \A x \in DOMAIN pcb : W(x) = IF x = pid THEN R(x) + n ELSE R(x)
        BY <1>4, <3>1
      <3>3. n = 2 \/ pcb[pid].size = 1
        BY <1>3, <1>4, <2>2
      <3> HIDE DEF W, n
      <3>4. CASE q = pid
        <4>1. W(q) = R(q) + n /\ n = 2 /\ R(q) < L(q) /\ R(q) < 4
          BY <1>3, <1>4, <3>1, <3>2, <3>3, <3>4
        <4>2. R(r) <= R(q) + 2
          BY <1>11, <4>1
        <4> QED
          BY <1>4, <3>2, <3>4, <4>1, <4>2
      <3>5. CASE q # pid
        <4>1. W(q) = R(q) /\ pcb[q].size > 0 /\ since'[q] = since[q] \cup {pid}
          BY <1>4, <3>1, <3>2, <3>5
        <4>2. pid \notin since[q]
          BY <1>7, <3>5, <4>1
        <4>3. R(r) <= R(q) + 2 /\ (r \notin since[q] => R(r) <= R(q))
          BY <1>11, <4>1
        <4>4. CASE r = pid
          <5>1. R(r) <= R(q) /\ W(r) = R(r) + n
            BY <3>2, <4>2, <4>3, <4>4
          <5> QED
            BY <1>4, <3>1, <4>1, <4>4, <5>1
        <4>5. CASE r # pid
          BY <3>2, <4>1, <4>3, <4>5
        <4> QED
          BY <4>4, <4>5
      <3> QED
        BY <3>4, <3>5
    <2> QED
      BY <2>1, <2>2
  <1>19. RecencyInv'
    <2> SUFFICES ASSUME NEW q \in DOMAIN pcb, NEW a \in DOMAIN LRU_CACHE, NEW b \in DOMAIN LRU_CACHE,
                        ~(turn' # NoTurn /\ q = turn'.pid), 4 <= R(q), R(q) < L(q), LRU_CACHE[a].pid = q,
                        3 * LRU_CACHE[a].page <= R(q), R(q) < 3 * LRU_CACHE[a].page + 3, b < a
                 PROVE  /\ LRU_CACHE[b].pid \in since'[q]
                        /\ 3 * LRU_CACHE[b].page <= R(LRU_CACHE[b].pid)
                        /\ WillHaveRun(LRU_CACHE[b].pid)' < 3 * LRU_CACHE[b].page + 5
      BY <1>1 DEF RecencyInv, L, R
    <2>1. /\ LRU_CACHE[b].pid \in since[q]
          /\ 3 * LRU_CACHE[b].page <= R(LRU_CACHE[b].pid)
          /\ WillHaveRun(LRU_CACHE[b].pid) < 3 * LRU_CACHE[b].page + 5
      BY <1>1 DEF KernelInv, RecencyInv, L, R
    <2>2. pcb[q].size > 0
      BY <1>4
    <2>3. CASE pcb[pid].size = 0
      <3>1. turn' = turn /\ since' = since
        BY <1>1, <1>9, <2>3
      <3>2. WillHaveRun(LRU_CACHE[b].pid)' = WillHaveRun(LRU_CACHE[b].pid)
        BY <1>1, <3>1 DEF WillHaveRun
      <3> QED
        BY <2>1, <3>1, <3>2
    <2>4. CASE pcb[pid].size # 0
      <3>1. turn' # NoTurn /\ turn'.pid = pid
            /\ since' = [x \in DOMAIN pcb |-> IF x = pid THEN {} ELSE since[x] \cup {pid}]
        BY <1>9, <1>10, <2>4 DEF NoTurn
      <3>2. q # pid /\ pid \notin since[q] /\ LRU_CACHE[b].pid # pid
        BY <1>7, <2>1, <2>2, <3>1
      <3>3. WillHaveRun(LRU_CACHE[b].pid)' = WillHaveRun(LRU_CACHE[b].pid)
        BY <1>1, <3>1, <3>2 DEF WillHaveRun
      <3> QED
        BY <2>1, <3>1, <3>2, <3>3
    <2> QED
      BY <2>3, <2>4
  <1> QED
    BY <1>12, <1>13, <1>14, <1>15, <1>17, <1>18, <1>19 DEF KernelInv

\* Where each element of the list was before the move.
Reindexed(new, list, c, old) ==
    /\ DOMAIN new = DOMAIN list
    /\ old \in [DOMAIN list -> DOMAIN list]
    /\ \A a \in DOMAIN list : new[a] = list[old[a]]
    /\ \A a, b \in DOMAIN list : old[a] = old[b] => a = b
    /\ \A x \in DOMAIN list : \E a \in DOMAIN list : old[a] = x
    /\ old[1] = c
    /\ \A a, b \in DOMAIN list : 1 < b /\ b < a => old[b] < old[a]

LEMMA ReindexLemma ==
    ASSUME NEW list \in Seq([pid : Nat, page : Nat]), NEW c \in DOMAIN list,
           NEW new, MovedToHead(new, list, c)
    PROVE  \E old : Reindexed(new, list, c, old)
  <1> DEFINE n == Len(list)
             old == [a \in 1 .. n |-> IF a = 1 THEN c ELSE IF a <= c THEN a - 1 ELSE a]
  <1>1. n \in Nat /\ DOMAIN list = 1 .. n /\ DOMAIN new = 1 .. n /\ c \in 1 .. n
    BY LenProperties DEF MovedToHead
  <1> HIDE DEF n
  <1>0. n \in Nat /\ c \in Int /\ 1 <= c /\ c <= n
    BY <1>1
  <1>2. \A a \in 1 .. n : old[a] = IF a = 1 THEN c ELSE IF a <= c THEN a - 1 ELSE a
    OBVIOUS
  <1>3. old \in [1 .. n -> 1 .. n]
    BY <1>1
  <1> HIDE DEF old
  <1>4. \A a \in 1 .. n : new[a] = list[old[a]]
    <2> SUFFICES ASSUME NEW a \in 1 .. n PROVE new[a] = list[old[a]]
      OBVIOUS
    <2>1. CASE a = 1
      BY <1>1, <1>2, <2>1 DEF MovedToHead
    <2>2. CASE a # 1
      <3>1. a \in 2 .. n
        BY <1>1, <2>2
      <3>2. new[a] = IF a <= c THEN list[a - 1] ELSE list[a]
        BY <3>1 DEF MovedToHead, n
      <3> QED
        BY <1>2, <2>2, <3>2
    <2> QED
      BY <2>1, <2>2
  <1>5. \A a, b \in 1 .. n : old[a] = old[b] => a = b
    <2> SUFFICES ASSUME NEW a \in 1 .. n, NEW b \in 1 .. n, old[a] = old[b] PROVE a = b
      OBVIOUS
    <2>1. /\ old[a] = IF a = 1 THEN c ELSE IF a <= c THEN a - 1 ELSE a
          /\ old[b] = IF b = 1 THEN c ELSE IF b <= c THEN b - 1 ELSE b
      BY <1>2
    <2>2. a \in Int /\ b \in Int /\ a >= 1 /\ b >= 1
      BY <1>0
    <2>4. old[a] \in Int /\ old[b] \in Int
      BY <1>0, <1>3
    <2> DEFINE u == old[a]
    <2>5. u = (IF a = 1 THEN c ELSE IF a <= c THEN a - 1 ELSE a) /\ u \in Int
      BY <2>1, <2>4
    <2>6. u = (IF b = 1 THEN c ELSE IF b <= c THEN b - 1 ELSE b)
      BY <2>1, <2>4
    <2> HIDE DEF u
    <2>7. CASE a = 1
      BY <1>0, <2>2, <2>5, <2>6, <2>7
    <2>8. CASE a # 1 /\ a <= c
      <3>1. u = a - 1 /\ u < c
        BY <1>0, <2>2, <2>5, <2>8
      <3>2. u = b - 1 \/ u = b
        BY <1>0, <2>2, <2>6, <3>1
      <3>3. b <= c
        BY <1>0, <2>2, <2>6, <3>1
      <3>4. b # 1
        BY <1>0, <2>6, <3>1
      <3> QED
        BY <1>0, <2>2, <2>6, <3>1, <3>3, <3>4
    <2>9. CASE a > c
      BY <1>0, <2>2, <2>5, <2>6, <2>9
    <2> QED
      BY <1>0, <2>2, <2>7, <2>8, <2>9
  <1>6. \A x \in 1 .. n : \E a \in 1 .. n : old[a] = x
    <2> SUFFICES ASSUME NEW x \in 1 .. n PROVE \E a \in 1 .. n : old[a] = x
      OBVIOUS
    <2>1. CASE x = c
      <3>1. 1 \in 1 .. n
        BY <1>1
      <3> QED
        BY <1>2, <2>1, <3>1
    <2>2. CASE x < c
      <3> DEFINE a == x + 1
      <3>1. a \in 1 .. n /\ a # 1 /\ a <= c /\ a - 1 = x
        BY <1>0, <2>2
      <3> HIDE DEF a
      <3> QED
        BY <1>2, <3>1
    <2>3. CASE x > c
      <3>1. x # 1 /\ ~(x <= c)
        BY <1>0, <2>3
      <3> QED
        BY <1>2, <3>1
    <2> QED
      BY <1>0, <2>1, <2>2, <2>3
  <1>7. \A a, b \in 1 .. n : 1 < b /\ b < a => old[b] < old[a]
    <2> SUFFICES ASSUME NEW a \in 1 .. n, NEW b \in 1 .. n, 1 < b, b < a PROVE old[b] < old[a]
      OBVIOUS
    <2>1. /\ old[a] = IF a <= c THEN a - 1 ELSE a
          /\ old[b] = IF b <= c THEN b - 1 ELSE b
      BY <1>0, <1>2
    <2>2. a \in Int /\ b \in Int /\ a >= 1 /\ b >= 1
      BY <1>0
    <2> QED
      BY <1>0, <2>1, <2>2
  <1>8. old[1] = c
    BY <1>1, <1>2
  <1>9. Reindexed(new, list, c, old)
    BY <1>1, <1>3, <1>4, <1>5, <1>6, <1>7, <1>8 DEF Reindexed
  <1> QED
    BY <1>9

\* What cpu_run does to the processes.
Stepped(ps2, t) ==
    /\ DOMAIN ps2 = DOMAIN pcb
    /\ GoodPCBs(ps2)
    /\ \A q \in DOMAIN pcb : /\ ps2[q].script = pcb[q].script /\ ps2[q].pos = pcb[q].pos
                             /\ ps2[q].page_table = pcb[q].page_table
                             /\ q # t => ps2[q] = pcb[q]
                             /\ Length(ps2[q]) = Length(pcb[q])
                             /\ Ran(pcb[q]) \in Nat /\ Length(pcb[q]) \in Nat /\ pcb[q].size \in Nat
                             /\ Ran(pcb[q]) + pcb[q].size = Length(pcb[q])
                             /\ ps2[q].size = IF q = t THEN pcb[q].size - 1 ELSE pcb[q].size
                             /\ Ran(ps2[q]) = IF q = t THEN Ran(pcb[q]) + 1 ELSE Ran(pcb[q])

LEMMA SteppedLemma ==
    ASSUME KernelInv, Running, Valid, NEW ps2,
           ps2 = [pcb EXCEPT ![turn.pid] = StepPCB(@, RunningPage.page)]
    PROVE  Stepped(ps2, turn.pid)
  <1> DEFINE t == turn.pid
             i == CurrentPage(pcb[t])
             d == Ran(pcb[t])
             p == pcb[t]
  <1>1. RunningFacts(t, i, d)
    BY RunningLemma
  <1>2. GoodPCBs(pcb)
    BY DEF KernelInv, PagesInv
  <1>3. RunningPage.page = i /\ RunningPage.pid = t
    BY DEF RunningPage
  <1>4. p.page_table[i].valid[p.program_counter[i]]
    BY <1>3 DEF Valid, ThePage, RunningLine
  <1>5. DOMAIN ps2 = DOMAIN pcb /\ ps2[t] = StepPCB(p, i) /\ \A q \in DOMAIN pcb : q # t => ps2[q] = pcb[q]
    BY <1>1, <1>3 DEF RunningFacts
  <1>6. GoodPCB(p) /\ p.size > 0 /\ t \in DOMAIN pcb
    BY <1>1 DEF RunningFacts
  <1>7. i = CurrentPage(p)
    OBVIOUS
  <1> HIDE DEF i, p, d, t
  <1>8. /\ GoodPCB(ps2[t])
        /\ ps2[t].script = p.script /\ ps2[t].pos = p.pos /\ ps2[t].page_table = p.page_table
        /\ ps2[t].size = p.size - 1 /\ Ran(ps2[t]) = Ran(p) + 1
    BY <1>4, <1>5, <1>6, <1>7, StepLemma
  <1>9. \A q \in DOMAIN pcb : /\ Ran(pcb[q]) \in Nat /\ Length(pcb[q]) \in Nat /\ pcb[q].size \in Nat
                              /\ Ran(pcb[q]) + pcb[q].size = Length(pcb[q])
    BY <1>2, LengthLemma DEF GoodPCBs
  <1>10. GoodPCBs(ps2)
    BY <1>2, <1>5, <1>8 DEF GoodPCBs
  <1>11. \A q \in DOMAIN pcb : ps2[q].script = pcb[q].script /\ ps2[q].pos = pcb[q].pos
                               /\ ps2[q].page_table = pcb[q].page_table
    BY <1>5, <1>8 DEF p
  <1>12. \A q \in DOMAIN pcb : Length(ps2[q]) = Length(pcb[q])
    BY <1>11 DEF Length
  <1>13. \A q \in DOMAIN pcb : /\ ps2[q].size = IF q = t THEN pcb[q].size - 1 ELSE pcb[q].size
                               /\ Ran(ps2[q]) = IF q = t THEN Ran(pcb[q]) + 1 ELSE Ran(pcb[q])
    BY <1>5, <1>8 DEF p
  <1> QED
    BY <1>5, <1>9, <1>10, <1>11, <1>12, <1>13 DEF Stepped, t

\* A line of a process is executed and its page moves to the head of the LRU list.
LEMMA KernelRunLine == KernelInv /\ RunLine => KernelInv'
  <1> SUFFICES ASSUME KernelInv, RunLine PROVE KernelInv'
    OBVIOUS
  <1> DEFINE t == turn.pid
             i == CurrentPage(pcb[t])
             d == Ran(pcb[t])
             E == [pid : Nat, page : Nat]
             W(q) == WillHaveRun(q)
  <1>0. Running /\ Valid /\ mode = "run" /\ turn # NoTurn
    BY DEF RunLine, Running
  <1>1. RunningFacts(t, i, d)
    BY <1>0, RunningLemma
  <1>2. /\ UNCHANGED <<PID_counter, mode, args, since>>
        /\ mem' = Effect(mem, Command)
        /\ last' = Fetched(mem, RunningAt)
        /\ LRU_CACHE' = MoveToHead(LRU_CACHE, RunningPage)
        /\ turn' = IF turn.left = 1 THEN NoTurn ELSE [turn EXCEPT !.left = @ - 1]
        /\ QUEUE' = IF turn.left = 1 /\ turn.back THEN Append(QUEUE, t) ELSE QUEUE
    BY DEF RunLine
  <1>3. Stepped(pcb', t)
    BY <1>0, SteppedLemma DEF RunLine
  <1> HIDE DEF t, i, d, E
  <1>4. /\ turn = [pid |-> t, left |-> turn.left, back |-> turn.back]
        /\ turn.left \in 1 .. 2 /\ turn.back \in BOOLEAN /\ turn.left <= pcb[t].size
        /\ (~turn.back => turn.left = 1 /\ pcb[t].size = 1)
    BY <1>0 DEF KernelInv, TurnInv, t
  <1>5. /\ t \in DOMAIN pcb /\ t \in Nat /\ i \in PageOf(Length(pcb[t])) /\ i \in Nat /\ d \in Nat
        /\ 3 * i <= d /\ d < 3 * i + 3 /\ RunningPage = [pid |-> t, page |-> i]
        /\ In(pcb, t, i)
    BY <1>0, <1>1 DEF RunningFacts
  <1>6. GoodPCBs(pcb) /\ FramesInv(mem, pcb)
    BY DEF KernelInv, PagesInv
  <1>7. \/ /\ turn' # NoTurn /\ turn'.pid = t /\ turn'.back = turn.back
           /\ turn'.left = turn.left - 1 /\ turn.left = 2
        \/ turn' = NoTurn /\ turn.left = 1
    <2>1. CASE turn.left = 1
      BY <1>2, <2>1
    <2>2. CASE turn.left # 1
      <3>1. turn.left = 2
        BY <1>4, <2>2
      <3>2. turn' = [pid |-> t, left |-> turn.left - 1, back |-> turn.back]
        BY <1>2, <1>4, <2>2
      <3>3. t # 0
        BY <1>5, <1>6 DEF GoodPCBs
      <3> QED
        <4>1. turn' # NoTurn
          BY <3>2, <3>3 DEF NoTurn
        <4>2. turn'.left = turn.left - 1 /\ turn'.pid = t /\ turn'.back = turn.back
          BY <3>2
        <4> QED
          BY <3>1, <4>1, <4>2
    <2> QED
      BY <2>1, <2>2
  <1>8. QueueInv'
    BY QueueNext DEF KernelInv, Next, Kernel
  <1>9. PagesInv' /\ \A q, k : In(pcb', q, k) <=> In(pcb, q, k)
    <2>1. OnMemory(mem) /\ OnMemory(mem') /\ \A a \in FrameZone : mem'[a] = mem[a]
      BY <1>2, <1>6, EffectLemma DEF FramesInv
    <2>2. GoodPCBs(pcb') /\ DOMAIN pcb' = DOMAIN pcb
          /\ \A q \in DOMAIN pcb : pcb'[q].script = pcb[q].script /\ pcb'[q].page_table = pcb[q].page_table
      BY <1>3 DEF Stepped
    <2>3. FramesInv(mem', pcb)
      BY <1>6, <2>1, SameFramesLemma
    <2>4. FramesInv(mem', pcb') /\ \A q, k : In(pcb', q, k) <=> In(pcb, q, k)
      BY <2>2, <2>3, SamePagesLemma
    <2> QED
      BY <2>2, <2>4 DEF PagesInv
  <1>10. /\ DOMAIN pcb' = DOMAIN pcb
         /\ \A q \in DOMAIN pcb : /\ pcb'[q].pos = pcb[q].pos
                                  /\ Length(pcb'[q]) = Length(pcb[q])
                                  /\ Ran(pcb[q]) \in Nat /\ Length(pcb[q]) \in Nat /\ pcb[q].size \in Nat
                                  /\ pcb'[q].size = IF q = t THEN pcb[q].size - 1 ELSE pcb[q].size
                                  /\ Ran(pcb'[q]) = IF q = t THEN Ran(pcb[q]) + 1 ELSE Ran(pcb[q])
    BY <1>3 DEF Stepped
  <1>11. \A q \in DOMAIN pcb : W(q)' = W(q)
    <2> SUFFICES ASSUME NEW q \in DOMAIN pcb PROVE W(q)' = W(q)
      OBVIOUS
    <2>1. W(q) = Ran(pcb[q]) + IF q = t THEN turn.left ELSE 0
      BY <1>0 DEF WillHaveRun, t
    <2>2. W(q)' = Ran(pcb'[q]) + IF turn' # NoTurn /\ q = turn'.pid THEN turn'.left ELSE 0
      BY DEF WillHaveRun
    <2>3. turn.left \in Int /\ Ran(pcb[q]) \in Int /\ Ran(pcb'[q]) = IF q = t THEN Ran(pcb[q]) + 1 ELSE Ran(pcb[q])
      BY <1>4, <1>10
    <2> QED
      BY <1>7, <2>1, <2>2, <2>3
  <1>12. LRU_CACHE \in Seq(E)
    BY DEF KernelInv, LruInv, E
  <1>13. PICK c \in DOMAIN LRU_CACHE : LRU_CACHE[c] = [pid |-> t, page |-> i]
    BY <1>0, <1>5 DEF KernelInv, LruInv, Filling
  <1>14. MovedToHead(LRU_CACHE', LRU_CACHE, c)
    <2>1. \A a \in DOMAIN LRU_CACHE : PAGE_equal(LRU_CACHE[a], LRU_CACHE[c]) => a = c
      <3> SUFFICES ASSUME NEW a \in DOMAIN LRU_CACHE, PAGE_equal(LRU_CACHE[a], LRU_CACHE[c]) PROVE a = c
        OBVIOUS
      <3> DEFINE e == LRU_CACHE[a]
      <3>1. e \in E /\ In(pcb, e.pid, e.page)
        BY <1>0, <1>12, ElementOfSeq DEF KernelInv, LruInv
      <3>2. At(pcb, e.pid, e.page) = At(pcb, t, i)
        BY <1>13 DEF PAGE_equal, ThePage, At
      <3>3. e.pid = t /\ e.page = i
        <4>1. e.pid \in DOMAIN pcb /\ e.page \in PageOf(Length(pcb[e.pid]))
          BY <3>1 DEF In
        <4> QED
          BY <1>5, <1>6, <3>1, <3>2, <4>1 DEF FramesInv
      <3>4. e = LRU_CACHE[c]
        BY <1>13, <3>1, <3>3 DEF E
      <3> QED
        BY <3>4 DEF KernelInv, LruInv
    <2> QED
      BY <1>2, <1>5, <1>12, <1>13, <2>1, MoveToHeadLemma DEF E
  <1>15. LRU_CACHE' \in Seq(E) /\ \E old : Reindexed(LRU_CACHE', LRU_CACHE, c, old)
    BY <1>12, <1>14, ReindexLemma DEF MovedToHead, E
  <1>16. PICK old : Reindexed(LRU_CACHE', LRU_CACHE, c, old)
    BY <1>15
  <1>17. /\ DOMAIN LRU_CACHE' = DOMAIN LRU_CACHE
         /\ \A a \in DOMAIN LRU_CACHE : old[a] \in DOMAIN LRU_CACHE /\ LRU_CACHE'[a] = LRU_CACHE[old[a]]
         /\ \A a, b \in DOMAIN LRU_CACHE : old[a] = old[b] => a = b
         /\ \A x \in DOMAIN LRU_CACHE : \E a \in DOMAIN LRU_CACHE : old[a] = x
         /\ old[1] = c
         /\ \A a, b \in DOMAIN LRU_CACHE : 1 < b /\ b < a => old[b] < old[a]
         /\ \A a \in DOMAIN LRU_CACHE : a \in Nat /\ a >= 1 /\ 1 \in DOMAIN LRU_CACHE
         /\ \A x, y \in DOMAIN LRU_CACHE : LRU_CACHE[x] = LRU_CACHE[y] => x = y
    <2>1. \A a \in DOMAIN LRU_CACHE : a \in Nat /\ a >= 1 /\ 1 \in DOMAIN LRU_CACHE
      BY <1>12, LenProperties
    <2>2. \A x, y \in DOMAIN LRU_CACHE : LRU_CACHE[x] = LRU_CACHE[y] => x = y
      BY DEF KernelInv, LruInv
    <2> QED
      BY <1>16, <2>1, <2>2 DEF Reindexed
  <1>18. \A q \in DOMAIN pcb : ~Filling(q) /\ ~Filling(q)'
    BY <1>0, <1>2 DEF Filling
  <1>19. LruInv'
    <2>1. \A a, b \in DOMAIN LRU_CACHE' : LRU_CACHE'[a] = LRU_CACHE'[b] => a = b
      <3> SUFFICES ASSUME NEW a \in DOMAIN LRU_CACHE, NEW b \in DOMAIN LRU_CACHE,
                          LRU_CACHE[old[a]] = LRU_CACHE[old[b]]
                   PROVE  a = b
        BY <1>17
      <3>1. old[a] \in DOMAIN LRU_CACHE /\ old[b] \in DOMAIN LRU_CACHE
        BY <1>17
      <3>2. old[a] = old[b]
        <4> DEFINE x == old[a]
                   y == old[b]
        <4>1. x \in DOMAIN LRU_CACHE /\ y \in DOMAIN LRU_CACHE /\ LRU_CACHE[x] = LRU_CACHE[y]
          BY <3>1
        <4> HIDE DEF x, y
        <4>2. x = y
          BY <4>1 DEF KernelInv, LruInv
        <4> QED
          BY <4>2 DEF x, y
      <3> QED
        BY <1>17, <3>2
    <2>2. \A a \in DOMAIN LRU_CACHE' : /\ In(pcb', LRU_CACHE'[a].pid, LRU_CACHE'[a].page)
                                       /\ ~Filling(LRU_CACHE[a].pid)'
      <3> SUFFICES ASSUME NEW a \in DOMAIN LRU_CACHE'
                   PROVE  In(pcb', LRU_CACHE'[a].pid, LRU_CACHE'[a].page) /\ ~Filling(LRU_CACHE[a].pid)'
        OBVIOUS
      <3>1. old[a] \in DOMAIN LRU_CACHE /\ LRU_CACHE'[a] = LRU_CACHE[old[a]]
        BY <1>17
      <3>2. In(pcb, LRU_CACHE'[a].pid, LRU_CACHE'[a].page)
        BY <1>0, <3>1 DEF KernelInv, LruInv
      <3> QED
        BY <1>0, <1>2, <1>9, <3>2 DEF Filling
    <2>3. \A q \in DOMAIN pcb' : \A k \in PageOf(Length(pcb'[q])) :
             In(pcb', q, k) => \E a \in DOMAIN LRU_CACHE' : LRU_CACHE'[a] = [pid |-> q, page |-> k]
      <3> SUFFICES ASSUME NEW q \in DOMAIN pcb, NEW k \in PageOf(Length(pcb[q])), In(pcb, q, k)
                   PROVE  \E a \in DOMAIN LRU_CACHE' : LRU_CACHE'[a] = [pid |-> q, page |-> k]
        BY <1>9, <1>10
      <3>1. PICK x \in DOMAIN LRU_CACHE : LRU_CACHE[x] = [pid |-> q, page |-> k]
        BY <1>0, <1>18 DEF KernelInv, LruInv
      <3>2. PICK a \in DOMAIN LRU_CACHE : old[a] = x
        BY <1>17
      <3>3. LRU_CACHE'[a] = LRU_CACHE[old[a]]
        BY <1>17
      <3> QED
        BY <1>17, <3>1, <3>2, <3>3
    <2>4. LRU_CACHE' \in Seq([pid : Nat, page : Nat])
      BY <1>15 DEF E
    <2> QED
      BY <2>1, <2>2, <2>3, <2>4 DEF LruInv
  <1>20. LoadInv'
    <2>1. \A q \in DOMAIN pcb' : pcb'[q].pos = pcb[q].pos /\ Length(pcb'[q]) = Length(pcb[q])
      BY <1>10
    <2> QED
      BY <1>0, <1>2, <1>10, <1>18, <2>1 DEF KernelInv, LoadInv
  <1>21. TurnInv'
    <2>1. \A q \in DOMAIN pcb : pcb'[q].size > 0 =>
             (\E k \in DOMAIN QUEUE' : QUEUE'[k] = q) \/ (turn' # NoTurn /\ q = turn'.pid)
      <3> SUFFICES ASSUME NEW q \in DOMAIN pcb, pcb'[q].size > 0, ~(turn' # NoTurn /\ q = turn'.pid)
                   PROVE  \E k \in DOMAIN QUEUE' : QUEUE'[k] = q
        OBVIOUS
      <3>0. QUEUE \in Seq(DOMAIN pcb) /\ Len(QUEUE) \in Nat /\ DOMAIN QUEUE = 1 .. Len(QUEUE)
        BY LenProperties DEF KernelInv, QueueInv, PidsInv
      <3>1. CASE q = t
        <4>1. turn.left = 1
          BY <1>7, <3>1
        <4>2. turn.back
          <5>1. pcb[t].size \in Nat /\ pcb'[t].size = pcb[t].size - 1
            BY <1>5, <1>10
          <5> QED
            BY <1>4, <3>1, <5>1
        <4>3. QUEUE' = Append(QUEUE, t)
          BY <1>2, <4>1, <4>2
        <4>4. Len(QUEUE) + 1 \in DOMAIN QUEUE' /\ QUEUE'[Len(QUEUE) + 1] = t
          BY <1>5, <3>0, <4>3
        <4> QED
          BY <3>1, <4>4
      <3>2. CASE q # t
        <4>1. pcb[q].size > 0
          BY <1>10, <3>2
        <4>2. PICK k \in DOMAIN QUEUE : QUEUE[k] = q
          BY <1>0, <3>2, <4>1 DEF KernelInv, TurnInv, Queued, t
        <4>3. QUEUE' = Append(QUEUE, t) \/ QUEUE' = QUEUE
          BY <1>2
        <4>4. CASE QUEUE' = Append(QUEUE, t)
          <5>1. k \in DOMAIN QUEUE' /\ QUEUE'[k] = QUEUE[k]
            BY <1>5, <3>0, <4>4
          <5> QED
            BY <4>2, <5>1
        <4> QED
          BY <4>2, <4>3, <4>4
      <3> QED
        BY <3>1, <3>2
    <2>2. ASSUME turn' # NoTurn
          PROVE  /\ turn'.left \in 1 .. 2
                 /\ turn'.back \in BOOLEAN
                 /\ turn' = [pid |-> turn'.pid, left |-> turn'.left, back |-> turn'.back]
                 /\ turn'.left <= pcb'[turn'.pid].size
                 /\ ~turn'.back => turn'.left = 1 /\ pcb'[turn'.pid].size = 1
      <3>1. turn'.pid = t /\ turn'.back = turn.back /\ turn'.left = 1 /\ turn.left = 2
        BY <1>7, <2>2
      <3>2. turn.back
        BY <1>4, <3>1
      <3>3. pcb'[t].size = pcb[t].size - 1 /\ pcb[t].size \in Nat
        BY <1>5, <1>10
      <3>4. 1 <= pcb'[t].size
        BY <1>4, <3>1, <3>3
      <3>5. turn' = [pid |-> t, left |-> turn.left - 1, back |-> turn.back]
        BY <1>2, <1>4, <3>1
      <3> QED
        BY <3>1, <3>2, <3>4, <3>5
    <2> QED
      BY <1>10, <2>1, <2>2 DEF TurnInv, Queued
  <1>22. LockstepInv'
    <2> SUFFICES ASSUME NEW q \in DOMAIN pcb, NEW r \in DOMAIN pcb, W(q) < Length(pcb[q]), W(q) < 4
                 PROVE  W(r) <= W(q) + 2 /\ (r \notin since[q] => W(r) <= W(q))
      BY <1>2, <1>10, <1>11 DEF LockstepInv
    <2> QED
      BY <1>0 DEF KernelInv, LockstepInv
  <1>23. RecencyInv'
    <2> SUFFICES ASSUME NEW q \in DOMAIN pcb', NEW a \in DOMAIN LRU_CACHE', NEW b \in DOMAIN LRU_CACHE',
                        ~(turn' # NoTurn /\ q = turn'.pid),
                        4 <= Ran(pcb'[q]), Ran(pcb'[q]) < Length(pcb'[q]), LRU_CACHE'[a].pid = q,
                        3 * LRU_CACHE'[a].page <= Ran(pcb'[q]), Ran(pcb'[q]) < 3 * LRU_CACHE'[a].page + 3,
                        b < a
                 PROVE  /\ LRU_CACHE'[b].pid \in since'[q]
                        /\ 3 * LRU_CACHE'[b].page <= Ran(pcb'[LRU_CACHE'[b].pid])
                        /\ WillHaveRun(LRU_CACHE[b].pid)' < 3 * LRU_CACHE'[b].page + 5
      BY DEF RecencyInv
    <2>0. PICK e, f : e = LRU_CACHE'[a] /\ f = LRU_CACHE'[b]
      OBVIOUS
    <2> DEFINE x == old[a]
               y == old[b]
    <2>1. a \in DOMAIN LRU_CACHE /\ b \in DOMAIN LRU_CACHE /\ q \in DOMAIN pcb
      BY <1>10, <1>17
    <2>2. /\ x \in DOMAIN LRU_CACHE /\ y \in DOMAIN LRU_CACHE
          /\ LRU_CACHE[x] = e /\ LRU_CACHE[y] = f
      BY <1>17, <2>0, <2>1
    <2>3. a \in Nat /\ b \in Nat /\ a >= 1 /\ b >= 1 /\ a # 1 /\ 1 \in DOMAIN LRU_CACHE
      <3>1. a \in Nat /\ b \in Nat /\ a >= 1 /\ b >= 1 /\ 1 \in DOMAIN LRU_CACHE
        BY <1>17, <2>1
      <3> QED
        BY <3>1
    <2>4. b = 1 => y = c
      BY <1>17
    <2>5. b > 1 => y < x
      BY <1>17, <2>1
    <2>6. x # c
      BY <1>17, <2>1, <2>3
    <2> HIDE DEF x, y
    <2>7. e \in E /\ f \in E /\ In(pcb, e.pid, e.page) /\ In(pcb, f.pid, f.page)
      BY <1>0, <1>12, <2>2, ElementOfSeq DEF KernelInv, LruInv
    <2>8. e.pid = q /\ f.pid \in DOMAIN pcb /\ e.page \in Nat /\ f.page \in Nat
      BY <2>0, <2>7 DEF E, In
    <2>9. WillHaveRun(LRU_CACHE[b].pid)' = WillHaveRun(f.pid)'
      BY <2>0 DEF WillHaveRun
    <2>10. WillHaveRun(f.pid)' = W(f.pid)
      BY <1>11, <2>8
    <2>11. /\ 4 <= Ran(pcb'[q]) /\ Ran(pcb'[q]) < Length(pcb[q])
           /\ 3 * e.page <= Ran(pcb'[q]) /\ Ran(pcb'[q]) < 3 * e.page + 3
      BY <1>10, <2>0, <2>1
    <2> SUFFICES f.pid \in since[q] /\ 3 * f.page <= Ran(pcb'[f.pid]) /\ W(f.pid) < 3 * f.page + 5
      BY <1>2, <2>0, <2>9, <2>10
    <2>12. CASE q = t
      <3>1. Ran(pcb'[q]) = d + 1 /\ d = Ran(pcb[t])
        BY <1>10, <2>1, <2>12 DEF d, t
      <3>2. e.page # i
        <4>1. CASE e.page = i
          <5>1. e = LRU_CACHE[c]
            BY <1>13, <2>7, <2>8, <2>12, <4>1 DEF E
          <5>2. x = c
            BY <1>17, <2>2, <5>1
          <5> QED
            BY <2>6, <5>2
        <4> QED
          BY <4>1
      <3>3. 3 * e.page <= d + 1 /\ d + 1 < 3 * e.page + 3 /\ 4 <= d + 1
        BY <2>11, <3>1
      <3>4. e.page = i + 1 /\ 3 * e.page = d + 1
        BY <1>5, <2>8, <3>2, <3>3
      <3>5. e.page > 1 /\ ~(3 * e.page <= d)
        BY <1>5, <2>8, <3>3, <3>4
      <3>6. e.page \in PageOf(Length(pcb[t])) /\ 3 * e.page < pcb[t].pos
        BY <1>6, <2>7, <2>8, <2>12, InLemma DEF In
      <3>7. GoodPage(pcb[t], e.page)
        BY <1>5, <1>6, <3>6 DEF GoodPCBs, GoodPCB
      <3>8. e.page <= 1 \/ 3 * e.page <= d
        BY <3>1, <3>6, <3>7 DEF GoodPage
      <3> QED
        BY <2>8, <3>5, <3>8
    <2>13. CASE q # t
      <3>1. Ran(pcb'[q]) = Ran(pcb[q])
        BY <1>10, <2>1, <2>13
      <3>2. Ran(pcb[f.pid]) <= Ran(pcb'[f.pid]) /\ Ran(pcb[f.pid]) \in Nat /\ Ran(pcb'[f.pid]) \in Nat
        BY <1>10, <2>8
      <3>3. CASE b = 1
        <4>1. f.pid = t /\ f.page = i
          BY <1>13, <2>2, <2>4, <3>3
        <4>2. t \in since[q]
          BY <1>0, <2>1, <2>13 DEF KernelInv, QueueInv, SinceInv, t
        <4>3. W(t) = d + turn.left
          BY <1>0 DEF WillHaveRun, t, d
        <4>4. d + turn.left < 3 * i + 5
          BY <1>4, <1>5
        <4>5. 3 * i <= Ran(pcb'[t])
          <5>1. d = Ran(pcb[t])
            BY DEF d, t
          <5> QED
            BY <1>5, <3>2, <4>1, <5>1
        <4> QED
          BY <4>1, <4>2, <4>3, <4>4, <4>5
      <3>4. CASE b # 1
        <4>1. y < x
          BY <2>3, <2>5, <3>4
        <4>2. /\ 4 <= Ran(pcb[q]) /\ Ran(pcb[q]) < Length(pcb[q])
              /\ 3 * e.page <= Ran(pcb[q]) /\ Ran(pcb[q]) < 3 * e.page + 3
              /\ ~(turn # NoTurn /\ q = turn.pid)
          BY <2>11, <2>13, <3>1 DEF t
        <4>3. /\ f.pid \in since[q]
              /\ 3 * f.page <= Ran(pcb[f.pid])
              /\ W(f.pid) < 3 * f.page + 5
          BY <1>0, <2>1, <2>2, <2>8, <4>1, <4>2 DEF KernelInv, RecencyInv
        <4>4. 3 * f.page <= Ran(pcb'[f.pid])
          BY <2>8, <3>2, <4>3
        <4> QED
          BY <4>3, <4>4
      <3> QED
        BY <3>3, <3>4
    <2> QED
      BY <2>12, <2>13
  <1>24. LastInv'
    <2>1. last' = [pid |-> t, script |-> pcb[t].script, line |-> d + 1]
      BY <1>0, <1>1, <1>2, FetchLemma DEF t
    <2>2. t < PID_counter /\ d = Ran(pcb[t]) /\ Ran(pcb'[t]) = Ran(pcb[t]) + 1
      BY <1>5, <1>10 DEF KernelInv, QueueInv, PidsInv, d, t
    <2> QED
      BY <1>2, <1>5, <2>1, <2>2 DEF LastInv
  <1> QED
    BY <1>8, <1>9, <1>19, <1>20, <1>21, <1>22, <1>23, <1>24 DEF KernelInv

\* A page fault is for a page that was never loaded: the one the file stands at.
LEMMA FaultLemma ==
    ASSUME KernelInv, Running, ~Valid, NEW t, NEW i, NEW d, RunningFacts(t, i, d), t = turn.pid,
           d = Ran(pcb[t])
    PROVE  ~In(pcb, t, i) /\ d = 3 * i /\ pcb[t].pos = 3 * i /\ i >= 2
  <1> DEFINE p == pcb[t]
  <1>1. /\ t \in DOMAIN pcb /\ GoodPCB(p) /\ i \in PageOf(Length(p)) /\ i \in Nat /\ d \in Nat
        /\ 3 * i <= d /\ d < 3 * i + 3 /\ d < Length(p) /\ Length(p) \in Nat
        /\ ~In(pcb, t, i)
    BY DEF RunningFacts
  <1>2. p.pos \in Nat /\ d <= p.pos
    BY <1>1 DEF GoodPCB, PcbShape
  <1>3. GoodPage(p, i)
    BY <1>1 DEF GoodPCB
  <1>4. ~p.page_table[i].valid[0]
    BY <1>1 DEF In
  <1>5. ASSUME NEW g \in Frame, InFrame(p, i, g) PROVE FALSE
    <2>1. p.page_table[i].valid[0] <=> 3 * i + 0 < Length(p)
      BY <1>5 DEF InFrame
    <2> QED
      BY <1>1, <1>4, <2>1
  <1>6. ~Spent(p, i)
    BY <1>1 DEF Spent
  <1>7. 3 * i >= p.pos
    BY <1>3, <1>5, <1>6 DEF GoodPage
  <1>8. d = 3 * i /\ p.pos = 3 * i
    BY <1>1, <1>2, <1>7
  <1>9. p.pos >= 6 \/ p.pos = Length(p)
    BY <1>1 DEF Running, KernelInv, LoadInv, Filling
  <1>10. i >= 2
    BY <1>1, <1>8, <1>9
  <1> QED
    BY <1>1, <1>8, <1>10

\* Page p of process r is one of those that can be ahead of page k of process q in
\* the LRU list: of two other processes two pages each.
Ahead(q, k, r, p) ==
    \/ r = q /\ p = k
    \/ r # q /\ p \in Nat /\ 3 * p <= Ran(pcb[r]) /\ Ran(pcb[r]) < 3 * p + 5

\* So they are five, with a number from 0 to 4 for each of them.
AheadNumber(q, lo, r, p) ==
    IF r = q THEN 0
    ELSE 2 * (r - lo - (IF r > q THEN 1 ELSE 0)) + (IF p = Ran(pcb[r]) \div 3 THEN 1 ELSE 2)

LEMMA AheadLemma ==
    ASSUME NEW lo \in Nat, NEW q \in lo .. lo + 2, NEW k,
           NEW r \in lo .. lo + 2, NEW p, Ran(pcb[r]) \in Nat, Ahead(q, k, r, p),
           NEW s \in lo .. lo + 2, NEW l, Ran(pcb[s]) \in Nat, Ahead(q, k, s, l)
    PROVE  /\ AheadNumber(q, lo, r, p) \in 0 .. 4
           /\ AheadNumber(q, lo, r, p) = AheadNumber(q, lo, s, l) => r = s /\ p = l
  <1> DEFINE F == Ran(pcb[r]) \div 3
             G == Ran(pcb[s]) \div 3
             A == Ran(pcb[r])
             B == Ran(pcb[s])
             x == r - lo - (IF r > q THEN 1 ELSE 0)
             y == s - lo - (IF s > q THEN 1 ELSE 0)
  <1>1. /\ F \in Nat /\ 3 * F <= A /\ A < 3 * F + 3 /\ A \in Nat
        /\ G \in Nat /\ 3 * G <= B /\ B < 3 * G + 3 /\ B \in Nat
    OBVIOUS
  <1>2. r # q => p \in Nat /\ 3 * p <= A /\ A < 3 * p + 5
    BY DEF Ahead
  <1>3. s # q => l \in Nat /\ 3 * l <= B /\ B < 3 * l + 5
    BY DEF Ahead
  <1>4. /\ AheadNumber(q, lo, r, p) = IF r = q THEN 0 ELSE 2 * x + (IF p = F THEN 1 ELSE 2)
        /\ AheadNumber(q, lo, s, l) = IF s = q THEN 0 ELSE 2 * y + (IF l = G THEN 1 ELSE 2)
    BY DEF AheadNumber
  <1>5. (r # q => x \in 0 .. 1) /\ (s # q => y \in 0 .. 1)
    OBVIOUS
  <1>6. r # q /\ s # q /\ x = y => r = s
    OBVIOUS
  <1> HIDE DEF F, G, A, B, x, y
  <1>7. r # q => p = F \/ p = F - 1
    BY <1>1, <1>2
  <1>8. s # q => l = G \/ l = G - 1
    BY <1>1, <1>3
  <1>9. AheadNumber(q, lo, r, p) \in 0 .. 4
    BY <1>4, <1>5
  <1>10. ASSUME AheadNumber(q, lo, r, p) = AheadNumber(q, lo, s, l) PROVE r = s /\ p = l
    <2>1. CASE r = q
      <3>1. s = q
        BY <1>4, <1>5, <1>10, <2>1
      <3> QED
        BY <2>1, <3>1 DEF Ahead
    <2>2. CASE r # q
      <3>1. s # q
        BY <1>4, <1>5, <1>10, <2>2
      <3>2. 2 * x + (IF p = F THEN 1 ELSE 2) = 2 * y + (IF l = G THEN 1 ELSE 2)
        BY <1>4, <1>10, <2>2, <3>1
      <3>3. x = y /\ (p = F <=> l = G)
        BY <1>5, <2>2, <3>1, <3>2
      <3>4. r = s /\ F = G
        BY <1>6, <2>2, <3>1, <3>3 DEF F, G
      <3> QED
        BY <1>7, <1>8, <2>2, <3>1, <3>3, <3>4
    <2> QED
      BY <2>1, <2>2
  <1> QED
    BY <1>9, <1>10

\* The least recently used page is used up: otherwise all six frames that have to
\* be full would hold one of the five pages that can be ahead of it.
VictimFacts(v, k) ==
    /\ v \in DOMAIN pcb /\ v \in Nat /\ k \in PageOf(Length(pcb[v])) /\ k \in Nat
    /\ In(pcb, v, k) /\ Spent(pcb[v], k)
    /\ LRU_CACHE # <<>> /\ Victim = [pid |-> v, page |-> k]

LEMMA VictimLemma ==
    ASSUME PlainScripts, KernelInv, Running, ~Valid, FreeFrames(mem) = {}
    PROVE  \E v, k : VictimFacts(v, k)
  <1> DEFINE t == turn.pid
             i == CurrentPage(pcb[t])
             d == Ran(pcb[t])
             E == [pid : Nat, page : Nat]
             N == Len(LRU_CACHE)
  <1>1. RunningFacts(t, i, d)
    BY RunningLemma
  <1>2. d = 3 * i /\ pcb[t].pos = 3 * i /\ i >= 2
    BY <1>1, FaultLemma
  <1> HIDE DEF t, i, d, E, N
  <1>3. /\ GoodPCBs(pcb) /\ FramesInv(mem, pcb) /\ mode = "run" /\ turn # NoTurn /\ t = turn.pid
        /\ t \in DOMAIN pcb /\ d \in Nat /\ i \in Nat /\ turn.left \in 1 .. 2
        /\ d = Ran(pcb[t])
    BY <1>1 DEF RunningFacts, KernelInv, PagesInv, Running, t, d
  <1>4. /\ LRU_CACHE \in Seq(E) /\ DOMAIN LRU_CACHE = 1 .. N /\ N \in Nat
        /\ \A a \in DOMAIN LRU_CACHE : /\ LRU_CACHE[a] \in E
                                       /\ In(pcb, LRU_CACHE[a].pid, LRU_CACHE[a].page)
        /\ \A q \in DOMAIN pcb : \A l \in PageOf(Length(pcb[q])) :
               In(pcb, q, l) => \E a \in DOMAIN LRU_CACHE : LRU_CACHE[a] = [pid |-> q, page |-> l]
    <2>1. LRU_CACHE \in Seq(E)
      BY DEF KernelInv, LruInv, E
    <2>2. DOMAIN LRU_CACHE = 1 .. N /\ N \in Nat /\ \A a \in DOMAIN LRU_CACHE : LRU_CACHE[a] \in E
      BY <2>1, LenProperties, ElementOfSeq DEF N
    <2>3. \A a \in DOMAIN LRU_CACHE : In(pcb, LRU_CACHE[a].pid, LRU_CACHE[a].page)
      BY <1>3 DEF KernelInv, LruInv
    <2>4. \A q \in DOMAIN pcb : \A l \in PageOf(Length(pcb[q])) :
               In(pcb, q, l) => \E a \in DOMAIN LRU_CACHE : LRU_CACHE[a] = [pid |-> q, page |-> l]
      BY <1>3 DEF KernelInv, LruInv, Filling
    <2> QED
      BY <2>1, <2>2, <2>3, <2>4
  <1>5. \A g \in 0 .. 5 : g \in Frame
    BY MemoryAssumption DEF PlainScripts, Frame
  <1>6. N >= 1
    <2>1. 0 \in Frame
      BY <1>5
    <2>2. PICK q \in DOMAIN pcb : \E l \in PageOf(Length(pcb[q])) : In(pcb, q, l) /\ At(pcb, q, l) = 3 * 0
      BY <1>3, <2>1, FullLemma
    <2>3. \E a : a \in DOMAIN LRU_CACHE
      BY <1>4, <2>2
    <2> QED
      BY <1>4, <2>3
  <1>7. PICK v, k : LRU_CACHE[N] = [pid |-> v, page |-> k] /\ v \in Nat /\ k \in Nat /\ In(pcb, v, k)
    <2>1. N \in DOMAIN LRU_CACHE
      BY <1>4, <1>6
    <2>2. LRU_CACHE[N] \in E /\ In(pcb, LRU_CACHE[N].pid, LRU_CACHE[N].page)
      BY <1>4, <2>1
    <2> QED
      BY <2>2 DEF E
  <1>8. v \in DOMAIN pcb /\ k \in PageOf(Length(pcb[v]))
    BY <1>7 DEF In
  <1>9. /\ GoodPCB(pcb[v]) /\ Ran(pcb[v]) \in Nat /\ Length(pcb[v]) \in Nat /\ Ran(pcb[v]) <= Length(pcb[v])
        /\ GoodPage(pcb[v], k)
    <2>1. GoodPCB(pcb[v])
      BY <1>3, <1>8 DEF GoodPCBs
    <2>2. Length(pcb[v]) \in Nat /\ Ran(pcb[v]) \in Nat /\ pcb[v].size \in Nat
          /\ Ran(pcb[v]) + pcb[v].size = Length(pcb[v])
      BY <2>1, LengthLemma
    <2> QED
      BY <1>8, <2>1, <2>2 DEF GoodPCB
  <1>10. 3 * k < pcb[v].pos
    BY <1>3, <1>7, InLemma
  <1>11. Spent(pcb[v], k)
    <2> SUFFICES ASSUME ~Spent(pcb[v], k) PROVE FALSE
      OBVIOUS
    <2>1. Ran(pcb[v]) < 3 * k + 3 /\ Ran(pcb[v]) < Length(pcb[v])
      BY <1>7, <1>9 DEF Spent
    <2>2. v # t
      BY <1>2, <1>3, <1>7, <1>10, <2>1
    <2>3. WillHaveRun(t) = d + turn.left /\ WillHaveRun(v) = Ran(pcb[v]) + 0
      BY <1>3, <2>2 DEF WillHaveRun
    <2>4. 4 <= Ran(pcb[v])
      <3>1. Ran(pcb[v]) < 4 => d + turn.left <= Ran(pcb[v]) + 2
        <4>1. WillHaveRun(v) = Ran(pcb[v])
          BY <1>9, <2>3
        <4> QED
          BY <1>3, <1>8, <2>1, <2>3, <4>1 DEF KernelInv, LockstepInv
      <3>2. d + turn.left >= 7
        BY <1>2, <1>3
      <3> QED
        BY <1>3, <1>9, <3>1, <3>2
    <2>5. 3 * k <= Ran(pcb[v])
      BY <1>7, <1>9, <1>10, <2>4 DEF GoodPage
    <2>6. ASSUME NEW r \in DOMAIN pcb, NEW l \in PageOf(Length(pcb[r])), In(pcb, r, l)
          PROVE  Ahead(v, k, r, l) /\ Ran(pcb[r]) \in Nat
      <3>1. PICK b \in DOMAIN LRU_CACHE : LRU_CACHE[b] = [pid |-> r, page |-> l]
        BY <1>4, <2>6
      <3>2. GoodPCB(pcb[r]) /\ Ran(pcb[r]) \in Nat
        BY <1>3, LengthLemma DEF GoodPCBs
      <3>3. CASE b = N
        BY <1>7, <3>1, <3>2, <3>3 DEF Ahead
      <3>4. CASE b # N
        <4>1. b < N /\ N \in DOMAIN LRU_CACHE
          BY <1>4, <1>6, <3>4
        <4>2. LRU_CACHE[b].pid \in since[v] /\ 3 * LRU_CACHE[b].page <= Ran(pcb[LRU_CACHE[b].pid])
              /\ WillHaveRun(LRU_CACHE[b].pid) < 3 * LRU_CACHE[b].page + 5
          <5>1. /\ ~(turn # NoTurn /\ v = turn.pid)
                /\ LRU_CACHE[N].pid = v /\ LRU_CACHE[N].page = k
            BY <1>3, <1>7, <2>2
          <5> QED
            BY <1>3, <1>8, <2>1, <2>4, <2>5, <4>1, <5>1 DEF KernelInv, RecencyInv
        <4>3. r # v
          BY <1>8, <3>1, <4>2 DEF KernelInv, QueueInv, SinceInv
        <4>4. Ran(pcb[r]) <= WillHaveRun(r)
          BY <1>3, <3>2 DEF WillHaveRun
        <4>5. WillHaveRun(r) \in Nat
          BY <1>3, <3>2 DEF WillHaveRun
        <4>6. l \in Nat
          BY <1>4, <3>1 DEF E
        <4> QED
          BY <3>1, <3>2, <4>2, <4>3, <4>4, <4>5, <4>6 DEF Ahead
      <3> QED
        BY <3>3, <3>4
    <2>7. PICK lo \in Nat : \A q \in DOMAIN pcb : q \in lo .. lo + 2
      <3>1. Len(args) = 0
        BY <1>3 DEF KernelInv, LoadInv
      <3>2. PICK lo \in Nat : PID_counter + Len(args) <= lo + 3 /\ \A q \in DOMAIN pcb : lo <= q
        BY <1>3 DEF KernelInv, LoadInv
      <3>3. \A q \in DOMAIN pcb : q \in Nat /\ q < PID_counter /\ PID_counter \in Nat
        BY DEF KernelInv, QueueInv, PidsInv
      <3> QED
        BY <3>1, <3>2, <3>3
    <2> DEFINE Holds(g, n) == \E r \in DOMAIN pcb : \E l \in PageOf(Length(pcb[r])) :
                                 In(pcb, r, l) /\ At(pcb, r, l) = 3 * g /\ n = AheadNumber(v, lo, r, l)
               f == [g \in 0 .. 5 |-> CHOOSE n \in 0 .. 4 : Holds(g, n)]
    <2>8. ASSUME NEW g \in 0 .. 5 PROVE \E n \in 0 .. 4 : Holds(g, n)
      <3>1. PICK r, l : /\ r \in DOMAIN pcb /\ l \in PageOf(Length(pcb[r]))
                        /\ In(pcb, r, l) /\ At(pcb, r, l) = 3 * g
        <4>1. \E r \in DOMAIN pcb : \E l \in PageOf(Length(pcb[r])) : In(pcb, r, l) /\ At(pcb, r, l) = 3 * g
          BY <1>3, <1>5, FullLemma
        <4> QED
          BY <4>1
      <3>2. Ahead(v, k, r, l) /\ Ran(pcb[r]) \in Nat /\ r \in lo .. lo + 2 /\ v \in lo .. lo + 2
        BY <1>8, <2>6, <2>7, <3>1
      <3>3. AheadNumber(v, lo, r, l) \in 0 .. 4
        BY <3>2, AheadLemma
      <3> QED
        BY <3>1, <3>3
    <2>9. ASSUME NEW g \in 0 .. 5, NEW h \in 0 .. 5, NEW n, Holds(g, n), Holds(h, n) PROVE g = h
      <3>1. PICK r, l : r \in DOMAIN pcb /\ l \in PageOf(Length(pcb[r])) /\
               In(pcb, r, l) /\ At(pcb, r, l) = 3 * g /\ n = AheadNumber(v, lo, r, l)
        BY <2>9
      <3>2. PICK s, j : s \in DOMAIN pcb /\ j \in PageOf(Length(pcb[s])) /\
               In(pcb, s, j) /\ At(pcb, s, j) = 3 * h /\ n = AheadNumber(v, lo, s, j)
        BY <2>9
      <3>3. /\ Ahead(v, k, r, l) /\ Ran(pcb[r]) \in Nat /\ r \in lo .. lo + 2 /\ v \in lo .. lo + 2
            /\ Ahead(v, k, s, j) /\ Ran(pcb[s]) \in Nat /\ s \in lo .. lo + 2
        BY <1>8, <2>6, <2>7, <3>1, <3>2
      <3>4. r = s /\ l = j
        <4>1. AheadNumber(v, lo, r, l) = AheadNumber(v, lo, s, j)
          BY <3>1, <3>2
        <4>2. AheadNumber(v, lo, r, l) = AheadNumber(v, lo, s, j) => r = s /\ l = j
          BY <3>3, AheadLemma
        <4> QED
          BY <4>1, <4>2
      <3> QED
        BY <3>1, <3>2, <3>4
    <2> HIDE DEF Holds
    <2>10. f \in [0 .. 5 -> 0 .. 4] /\ \A g \in 0 .. 5 : Holds(g, f[g])
      BY <2>8
    <2> HIDE DEF f
    <2>11. IsFiniteSet(0 .. 5) /\ IsFiniteSet(0 .. 4) /\ Cardinality(0 .. 5) = 6 /\ Cardinality(0 .. 4) = 5
      <3>1. /\ IsFiniteSet(0 .. 5) /\ Cardinality(0 .. 5) = (IF 0 > 5 THEN 0 ELSE 5 - 0 + 1)
            /\ IsFiniteSet(0 .. 4) /\ Cardinality(0 .. 4) = (IF 0 > 4 THEN 0 ELSE 4 - 0 + 1)
        <4>1. 0 \in Int /\ 5 \in Int /\ 4 \in Int
          OBVIOUS
        <4> QED
          BY <4>1, FS_Interval
      <3> QED
        BY <3>1
    <2>12. \E x, y \in 0 .. 5 : x # y /\ f[x] = f[y]
      BY <2>10, <2>11, FS_PigeonHole
    <2> QED
      BY <2>9, <2>10, <2>12
  <1>12. Victim = [pid |-> v, page |-> k] /\ LRU_CACHE # <<>>
    BY <1>4, <1>6, <1>7 DEF Victim, N
  <1>13. VictimFacts(v, k)
    BY <1>7, <1>8, <1>11, <1>12 DEF VictimFacts
  <1> QED
    BY <1>13

--------------------------------------------------------------------------------
\* A page fault, up to the eviction: n pages of the LRU list stay.
EvictStage(m1, ps1, n) ==
    /\ GoodPCBs(ps1) /\ FramesInv(m1, ps1) /\ FreeFrames(m1) # {}
    /\ DOMAIN ps1 = DOMAIN pcb
    /\ \A r \in DOMAIN pcb : /\ ps1[r].script = pcb[r].script /\ ps1[r].size = pcb[r].size
                             /\ ps1[r].pos = pcb[r].pos
    /\ n \in Nat /\ n <= Len(LRU_CACHE)
    /\ \A r \in DOMAIN pcb : \A l \in PageOf(Length(pcb[r])) :
          /\ In(ps1, r, l) <=> \E a \in 1 .. n : LRU_CACHE[a] = [pid |-> r, page |-> l]
          /\ In(pcb, r, l) /\ ~In(ps1, r, l) => Spent(pcb[r], l)
    /\ \A p \in VarZone : m1[p] = mem[p]
    /\ \A e \in [pid : Nat, page : Nat] :
          PutInFront(<<e>> \o (IF EvictNeeded(mem) THEN Front(LRU_CACHE) ELSE LRU_CACHE), LRU_CACHE, n, e)

LEMMA EvictStageLemma ==
    ASSUME PlainScripts, KernelInv, Running, ~Valid
    PROVE  \E n : EvictStage(EvictedMem(mem, pcb), EvictedPCBs(mem, pcb), n)
  <1> DEFINE N == Len(LRU_CACHE)
             m1 == EvictedMem(mem, pcb)
             ps1 == EvictedPCBs(mem, pcb)
             E == [pid : Nat, page : Nat]
  <1>1. GoodPCBs(pcb) /\ FramesInv(mem, pcb) /\ mode = "run"
    BY DEF KernelInv, PagesInv, Running
  <1> HIDE DEF E
  <1>2. /\ LRU_CACHE \in Seq(E) /\ DOMAIN LRU_CACHE = 1 .. N /\ N \in Nat
        /\ \A a, b \in 1 .. N : LRU_CACHE[a] = LRU_CACHE[b] => a = b
        /\ \A r \in DOMAIN pcb : \A l \in PageOf(Length(pcb[r])) :
               In(pcb, r, l) <=> \E a \in 1 .. N : LRU_CACHE[a] = [pid |-> r, page |-> l]
    <2>1. LRU_CACHE \in Seq(E)
      BY DEF KernelInv, LruInv, E
    <2>2. DOMAIN LRU_CACHE = 1 .. N /\ N \in Nat
      BY <2>1, LenProperties
    <2>3. \A a, b \in 1 .. N : LRU_CACHE[a] = LRU_CACHE[b] => a = b
      BY <2>2 DEF KernelInv, LruInv
    <2>4. \A a \in 1 .. N : In(pcb, LRU_CACHE[a].pid, LRU_CACHE[a].page)
      BY <1>1, <2>2 DEF KernelInv, LruInv
    <2>5. \A r \in DOMAIN pcb : \A l \in PageOf(Length(pcb[r])) :
               In(pcb, r, l) => \E a \in 1 .. N : LRU_CACHE[a] = [pid |-> r, page |-> l]
      BY <1>1, <2>2 DEF KernelInv, LruInv, Filling
    <2>6. \A r \in DOMAIN pcb : \A l \in PageOf(Length(pcb[r])) : \A a \in 1 .. N :
               LRU_CACHE[a] = [pid |-> r, page |-> l] => In(pcb, r, l)
      BY <2>4
    <2> QED
      BY <2>1, <2>2, <2>3, <2>5, <2>6
  <1> HIDE DEF N
  <1>3. CASE FreeFrames(mem) # {}
    <2>1. m1 = mem /\ ps1 = pcb /\ ~EvictNeeded(mem)
      BY <1>3 DEF EvictedMem, EvictedPCBs, EvictNeeded
    <2>2. \A e \in [pid : Nat, page : Nat] : PutInFront(<<e>> \o LRU_CACHE, LRU_CACHE, N, e)
      BY <1>2, PutInFrontLemma DEF E, N
    <2> HIDE DEF m1, ps1
    <2>3. EvictStage(m1, ps1, N)
      BY <1>1, <1>2, <1>3, <2>1, <2>2 DEF EvictStage, N
    <2> QED
      BY <2>3 DEF m1, ps1
  <1>4. CASE FreeFrames(mem) = {}
    <2>1. PICK v, k : VictimFacts(v, k)
      BY <1>4, VictimLemma
    <2> DEFINE n == N - 1
    <2>2. /\ v \in DOMAIN pcb /\ v \in Nat /\ k \in PageOf(Length(pcb[v])) /\ k \in Nat
          /\ In(pcb, v, k) /\ Spent(pcb[v], k) /\ LRU_CACHE # <<>> /\ Victim = [pid |-> v, page |-> k]
      BY <2>1 DEF VictimFacts
    <2>3. m1 = ClearedFrame(mem, pcb, v, k) /\ ps1 = WithPageEvicted(pcb, v, k) /\ EvictNeeded(mem)
      BY <1>4, <2>2 DEF EvictedMem, EvictedPCBs, EvictNeeded, ClearedFrame, WithPageEvicted
    <2> HIDE DEF m1, ps1
    <2>4. EvictResult(mem, pcb, v, k, m1, ps1)
      BY <1>1, <2>2, <2>3, EvictLemma
    <2>5. N # 0
      BY <1>2, <2>2 DEF N, E
    <2>6. n \in Nat /\ n <= N /\ N = n + 1 /\ N \in 1 .. N
      BY <1>2, <2>5
    <2>7. LRU_CACHE[N] = [pid |-> v, page |-> k]
      BY <2>2 DEF Victim, N
    <2> HIDE DEF n
    <2>8. ASSUME NEW r \in DOMAIN pcb, NEW l \in PageOf(Length(pcb[r]))
          PROVE  /\ In(ps1, r, l) <=> \E a \in 1 .. n : LRU_CACHE[a] = [pid |-> r, page |-> l]
                 /\ In(pcb, r, l) /\ ~In(ps1, r, l) => Spent(pcb[r], l)
      <3>1. In(ps1, r, l) <=> In(pcb, r, l) /\ ~(r = v /\ l = k)
        BY <2>4 DEF EvictResult
      <3>2. In(pcb, r, l) <=> \E a \in 1 .. N : LRU_CACHE[a] = [pid |-> r, page |-> l]
        BY <1>2
      <3>3. ASSUME NEW a \in 1 .. N, LRU_CACHE[a] = [pid |-> r, page |-> l], ~(r = v /\ l = k)
            PROVE  a \in 1 .. n
        <4>1. a # N
          BY <2>7, <3>3
        <4> QED
          BY <2>6, <4>1
      <3>4. ASSUME NEW a \in 1 .. n, LRU_CACHE[a] = [pid |-> r, page |-> l]
            PROVE  a \in 1 .. N /\ ~(r = v /\ l = k)
        <4>1. a \in 1 .. N /\ a # N
          BY <2>6
        <4>2. LRU_CACHE[a] # LRU_CACHE[N]
          BY <1>2, <2>6, <4>1
        <4> QED
          BY <2>7, <3>4, <4>1, <4>2
      <3> QED
        BY <2>2, <3>1, <3>2, <3>3, <3>4
    <2>9. \A e \in [pid : Nat, page : Nat] : PutInFront(<<e>> \o Front(LRU_CACHE), LRU_CACHE, n, e)
      BY <1>2, <2>2, PutInFrontLemma DEF E, N, n
    <2>10. /\ GoodPCBs(ps1) /\ FramesInv(m1, ps1) /\ FreeFrames(m1) # {}
           /\ DOMAIN ps1 = DOMAIN pcb
           /\ \A r \in DOMAIN pcb : /\ ps1[r].script = pcb[r].script /\ ps1[r].size = pcb[r].size
                                    /\ ps1[r].pos = pcb[r].pos
           /\ \A p \in VarZone : m1[p] = mem[p]
      BY <2>4 DEF EvictResult
    <2>11. EvictStage(m1, ps1, n)
      BY <2>3, <2>6, <2>8, <2>9, <2>10 DEF EvictStage, N
    <2> QED
      BY <2>11 DEF m1, ps1
  <1> QED
    BY <1>3, <1>4

\* A page fault of process t for page i.
FaultResult(t, i, n) ==
    /\ PagesInv'
    /\ DOMAIN pcb' = DOMAIN pcb
    /\ \A r \in DOMAIN pcb :
          /\ pcb'[r].script = pcb[r].script /\ pcb'[r].size = pcb[r].size
          /\ Length(pcb'[r]) = Length(pcb[r]) /\ Ran(pcb'[r]) = Ran(pcb[r])
          /\ Length(pcb[r]) \in Nat /\ Ran(pcb[r]) \in Nat
          /\ r # t => pcb'[r].pos = pcb[r].pos
    /\ pcb'[t].pos = Length(pcb[t]) \/ pcb'[t].pos = 3 * i + 3
    /\ \A r \in DOMAIN pcb : \A l \in PageOf(Length(pcb[r])) :
          /\ In(pcb', r, l) <=> (\E a \in 1 .. n : LRU_CACHE[a] = [pid |-> r, page |-> l]) \/ (r = t /\ l = i)
          /\ In(pcb, r, l) /\ ~In(pcb', r, l) => Spent(pcb[r], l)
    /\ \A p \in VarZone : mem'[p] = mem[p]
    /\ n \in Nat /\ n <= Len(LRU_CACHE)
    /\ PutInFront(LRU_CACHE', LRU_CACHE, n, [pid |-> t, page |-> i])

LEMMA FaultResultLemma ==
    ASSUME PlainScripts, KernelInv, PageFault, NEW t, NEW i, NEW d, RunningFacts(t, i, d),
           t = turn.pid, d = Ran(pcb[t])
    PROVE  \E n : FaultResult(t, i, n)
  <1> DEFINE m1 == EvictedMem(mem, pcb)
             ps1 == EvictedPCBs(mem, pcb)
             e == [pid |-> t, page |-> i]
  <1>1. PICK n : EvictStage(m1, ps1, n)
    BY EvictStageLemma DEF PageFault
  <1>2. /\ t \in DOMAIN pcb /\ t \in Nat /\ i \in PageOf(Length(pcb[t])) /\ i \in Nat /\ d \in Nat
        /\ RunningPage = e
    BY DEF RunningFacts
  <1>3. d = 3 * i /\ pcb[t].pos = 3 * i
    BY FaultLemma DEF PageFault
  <1>4. /\ mem' = LoadedMem(m1, t, ps1[t])
        /\ pcb' = WithPage(ps1, m1, t, i)
        /\ LRU_CACHE' = <<e>> \o (IF EvictNeeded(mem) THEN Front(LRU_CACHE) ELSE LRU_CACHE)
    BY <1>2 DEF PageFault, HandleFault, WithPage
  <1> HIDE DEF m1, ps1
  <1>5. /\ GoodPCBs(ps1) /\ FramesInv(m1, ps1) /\ FreeFrames(m1) # {}
        /\ DOMAIN ps1 = DOMAIN pcb
        /\ \A r \in DOMAIN pcb : /\ ps1[r].script = pcb[r].script /\ ps1[r].size = pcb[r].size
                                 /\ ps1[r].pos = pcb[r].pos
    BY <1>1 DEF EvictStage
  <1>6. \A r \in DOMAIN pcb : Length(ps1[r]) = Length(pcb[r]) /\ Ran(ps1[r]) = Ran(pcb[r])
    BY <1>5 DEF Length, Ran
  <1>7. LoadResult(m1, ps1, t, i, mem', pcb')
    <2>1. t \in DOMAIN ps1 /\ i \in PageOf(Length(ps1[t])) /\ ps1[t].pos = 3 * i /\ 3 * i <= Ran(ps1[t])
      <3>1. t \in DOMAIN ps1 /\ ps1[t].pos = pcb[t].pos
        BY <1>2, <1>5
      <3>2. Length(ps1[t]) = Length(pcb[t]) /\ Ran(ps1[t]) = d
        BY <1>2, <1>6
      <3>3. 3 * i <= d
        BY <1>2, <1>3
      <3> QED
        BY <1>2, <1>3, <3>1, <3>2, <3>3
    <2> QED
      BY <1>4, <1>5, <2>1, LoadLemma
  <1>8. /\ GoodPCBs(pcb') /\ FramesInv(mem', pcb')
        /\ DOMAIN pcb' = DOMAIN ps1
        /\ \A r \in DOMAIN ps1 : /\ r # t => pcb'[r] = ps1[r]
                                 /\ pcb'[r].script = ps1[r].script /\ pcb'[r].size = ps1[r].size
        /\ pcb'[t].pos = Length(ps1[t]) \/ pcb'[t].pos = 3 * i + 3
        /\ \A r \in DOMAIN ps1 : \A k \in PageOf(Length(ps1[r])) :
              In(pcb', r, k) <=> In(ps1, r, k) \/ (r = t /\ k = i)
        /\ \A p \in VarZone : mem'[p] = m1[p]
    BY <1>7 DEF LoadResult
  <1>9. /\ DOMAIN pcb' = DOMAIN pcb
        /\ \A r \in DOMAIN pcb : /\ pcb'[r].script = pcb[r].script /\ pcb'[r].size = pcb[r].size
                                 /\ r # t => pcb'[r].pos = pcb[r].pos
        /\ pcb'[t].pos = Length(pcb[t]) \/ pcb'[t].pos = 3 * i + 3
    BY <1>2, <1>5, <1>6, <1>8
  <1>10. \A r \in DOMAIN pcb : Length(pcb'[r]) = Length(pcb[r]) /\ Ran(pcb'[r]) = Ran(pcb[r])
    BY <1>9 DEF Length, Ran
  <1>11. \A r \in DOMAIN pcb : Length(pcb[r]) \in Nat /\ Ran(pcb[r]) \in Nat
    BY LengthLemma DEF KernelInv, PagesInv, GoodPCBs
  <1>12. \A r \in DOMAIN pcb : \A l \in PageOf(Length(pcb[r])) :
          /\ In(pcb', r, l) <=> (\E a \in 1 .. n : LRU_CACHE[a] = [pid |-> r, page |-> l]) \/ (r = t /\ l = i)
          /\ In(pcb, r, l) /\ ~In(pcb', r, l) => Spent(pcb[r], l)
    <2> SUFFICES ASSUME NEW r \in DOMAIN pcb, NEW l \in PageOf(Length(pcb[r]))
                 PROVE  /\ In(pcb', r, l) <=>
                             (\E a \in 1 .. n : LRU_CACHE[a] = [pid |-> r, page |-> l]) \/ (r = t /\ l = i)
                        /\ In(pcb, r, l) /\ ~In(pcb', r, l) => Spent(pcb[r], l)
      OBVIOUS
    <2>1. In(pcb', r, l) <=> In(ps1, r, l) \/ (r = t /\ l = i)
      BY <1>5, <1>6, <1>8
    <2>2. /\ In(ps1, r, l) <=> \E a \in 1 .. n : LRU_CACHE[a] = [pid |-> r, page |-> l]
          /\ In(pcb, r, l) /\ ~In(ps1, r, l) => Spent(pcb[r], l)
      BY <1>1 DEF EvictStage
    <2> QED
      BY <2>1, <2>2
  <1>13. \A p \in VarZone : mem'[p] = mem[p]
    BY <1>1, <1>8 DEF EvictStage
  <1>14. n \in Nat /\ n <= Len(LRU_CACHE) /\ PutInFront(LRU_CACHE', LRU_CACHE, n, e)
    <2>1. e \in [pid : Nat, page : Nat]
      BY <1>2
    <2> HIDE DEF e
    <2> QED
      BY <1>1, <1>4, <2>1 DEF EvictStage
  <1>15. FaultResult(t, i, n)
    BY <1>8, <1>9, <1>10, <1>11, <1>12, <1>13, <1>14 DEF FaultResult, PagesInv
  <1> QED
    BY <1>15

LEMMA KernelPageFault == PlainScripts /\ KernelInv /\ PageFault => KernelInv'
  <1> SUFFICES ASSUME PlainScripts, KernelInv, PageFault PROVE KernelInv'
    OBVIOUS
  <1> DEFINE t == turn.pid
             i == CurrentPage(pcb[t])
             d == Ran(pcb[t])
             E == [pid : Nat, page : Nat]
             N == Len(LRU_CACHE)
  <1>0. Running /\ ~Valid /\ mode = "run" /\ turn # NoTurn
    BY DEF PageFault, Running
  <1>1. RunningFacts(t, i, d)
    BY <1>0, RunningLemma
  <1>2. ~In(pcb, t, i) /\ d = 3 * i /\ i >= 2
    BY <1>0, <1>1, FaultLemma
  <1>3. PICK n : FaultResult(t, i, n)
    BY <1>1, FaultResultLemma
  <1>4. /\ UNCHANGED <<PID_counter, mode, args, since, last>>
        /\ QUEUE' = Append(QUEUE, t) /\ turn' = NoTurn
    BY <1>1 DEF PageFault, HandleFault, Requeue, RunningFacts
  <1>5. /\ t \in DOMAIN pcb /\ t \in Nat /\ i \in PageOf(Length(pcb[t])) /\ i \in Nat /\ d \in Nat
        /\ turn.left \in 1 .. 2 /\ t = turn.pid /\ d = Ran(pcb[t])
    BY <1>1 DEF RunningFacts
  <1> HIDE DEF t, i, d, E, N
  <1>6. /\ DOMAIN pcb' = DOMAIN pcb
        /\ \A r \in DOMAIN pcb :
              /\ pcb'[r].size = pcb[r].size
              /\ Length(pcb'[r]) = Length(pcb[r]) /\ Ran(pcb'[r]) = Ran(pcb[r])
              /\ Length(pcb[r]) \in Nat /\ Ran(pcb[r]) \in Nat
              /\ r # t => pcb'[r].pos = pcb[r].pos
        /\ pcb'[t].pos = Length(pcb[t]) \/ pcb'[t].pos = 3 * i + 3
    BY <1>3 DEF FaultResult
  <1>7. \A r \in DOMAIN pcb : \A l \in PageOf(Length(pcb[r])) :
          In(pcb', r, l) <=> (\E a \in 1 .. n : LRU_CACHE[a] = [pid |-> r, page |-> l]) \/ (r = t /\ l = i)
    BY <1>3 DEF FaultResult
  <1>8. /\ LRU_CACHE \in Seq(E) /\ DOMAIN LRU_CACHE = 1 .. N /\ N \in Nat /\ n \in Nat /\ n <= N
        /\ LRU_CACHE' \in Seq(E) /\ DOMAIN LRU_CACHE' = 1 .. n + 1
        /\ LRU_CACHE'[1] = [pid |-> t, page |-> i]
        /\ \A a \in 2 .. n + 1 : LRU_CACHE'[a] = LRU_CACHE[a - 1]
    <2>1. LRU_CACHE \in Seq(E)
      BY DEF KernelInv, LruInv, E
    <2>2. /\ n \in Nat /\ n <= N /\ LRU_CACHE' \in Seq(E) /\ Len(LRU_CACHE') = n + 1
          /\ LRU_CACHE'[1] = [pid |-> t, page |-> i]
          /\ \A a \in 2 .. n + 1 : LRU_CACHE'[a] = LRU_CACHE[a - 1]
      BY <1>3 DEF FaultResult, PutInFront, E, N
    <2> QED
      BY <2>1, <2>2, LenProperties DEF N
  <1>9. \A a \in 1 .. n : /\ a \in DOMAIN LRU_CACHE /\ LRU_CACHE[a] \in E
                          /\ In(pcb, LRU_CACHE[a].pid, LRU_CACHE[a].page)
                          /\ LRU_CACHE[a] # [pid |-> t, page |-> i]
    <2>1. \A a \in 1 .. n : a \in DOMAIN LRU_CACHE
      BY <1>8
    <2>2. \A a \in 1 .. n : In(pcb, LRU_CACHE[a].pid, LRU_CACHE[a].page)
      BY <1>0, <2>1 DEF KernelInv, LruInv
    <2> QED
      BY <1>2, <1>8, <2>1, <2>2, ElementOfSeq
  <1>10. \A a \in 2 .. n + 1 : a - 1 \in 1 .. n
    BY <1>8
  <1>11. \A a \in 1 .. n + 1 : /\ a = 1 => LRU_CACHE'[a] = [pid |-> t, page |-> i]
                               /\ a # 1 => a - 1 \in 1 .. n /\ LRU_CACHE'[a] = LRU_CACHE[a - 1]
    <2> SUFFICES ASSUME NEW a \in 1 .. n + 1, a # 1 PROVE a - 1 \in 1 .. n /\ LRU_CACHE'[a] = LRU_CACHE[a - 1]
      BY <1>8
    <2>1. a \in 2 .. n + 1
      BY <1>8
    <2> QED
      BY <1>8, <1>10, <2>1
  <1>12. QueueInv'
    BY QueueNext DEF KernelInv, Next, Kernel
  <1>13. PagesInv'
    BY <1>3 DEF FaultResult
  <1>14. LruInv'
    <2>1. \A a, b \in DOMAIN LRU_CACHE' : LRU_CACHE'[a] = LRU_CACHE'[b] => a = b
      <3> SUFFICES ASSUME NEW a \in 1 .. n + 1, NEW b \in 1 .. n + 1, LRU_CACHE'[a] = LRU_CACHE'[b] PROVE a = b
        BY <1>8
      <3>1. CASE a = 1 \/ b = 1
        BY <1>9, <1>11, <3>1
      <3>2. CASE a # 1 /\ b # 1
        <4> DEFINE x == a - 1
                   y == b - 1
        <4>1. x \in 1 .. n /\ y \in 1 .. n /\ LRU_CACHE[x] = LRU_CACHE[y]
          BY <1>11, <3>2
        <4>2. x = y => a = b
          BY <1>8
        <4> HIDE DEF x, y
        <4>3. x \in DOMAIN LRU_CACHE /\ y \in DOMAIN LRU_CACHE
          BY <1>9, <4>1
        <4> QED
          BY <4>1, <4>2, <4>3 DEF KernelInv, LruInv
      <3> QED
        BY <3>1, <3>2
    <2>2. \A a \in DOMAIN LRU_CACHE' : /\ In(pcb', LRU_CACHE'[a].pid, LRU_CACHE'[a].page)
                                       /\ ~Filling(LRU_CACHE[a].pid)'
      <3> SUFFICES ASSUME NEW a \in 1 .. n + 1
                   PROVE  In(pcb', LRU_CACHE'[a].pid, LRU_CACHE'[a].page) /\ ~Filling(LRU_CACHE[a].pid)'
        BY <1>8
      <3>1. ~Filling(LRU_CACHE[a].pid)'
        BY <1>0, <1>4 DEF Filling
      <3>2. CASE a = 1
        BY <1>5, <1>7, <1>11, <3>1, <3>2
      <3>3. CASE a # 1
        <4> DEFINE x == a - 1
        <4>1. x \in 1 .. n /\ LRU_CACHE'[a] = LRU_CACHE[x]
          BY <1>11, <3>3
        <4> HIDE DEF x
        <4>2. LRU_CACHE[x] \in E /\ In(pcb, LRU_CACHE[x].pid, LRU_CACHE[x].page)
          BY <1>9, <4>1
        <4>3. LRU_CACHE[x] = [pid |-> LRU_CACHE[x].pid, page |-> LRU_CACHE[x].page]
          BY <4>2 DEF E
        <4>4. LRU_CACHE[x].pid \in DOMAIN pcb /\ LRU_CACHE[x].page \in PageOf(Length(pcb[LRU_CACHE[x].pid]))
          BY <4>2 DEF In
        <4>5. In(pcb', LRU_CACHE[x].pid, LRU_CACHE[x].page)
          BY <1>7, <4>1, <4>3, <4>4
        <4> QED
          BY <3>1, <4>1, <4>5
      <3> QED
        BY <3>2, <3>3
    <2>3. \A q \in DOMAIN pcb' : \A k \in PageOf(Length(pcb'[q])) :
             In(pcb', q, k) => \E a \in DOMAIN LRU_CACHE' : LRU_CACHE'[a] = [pid |-> q, page |-> k]
      <3> SUFFICES ASSUME NEW q \in DOMAIN pcb, NEW k \in PageOf(Length(pcb[q])), In(pcb', q, k)
                   PROVE  \E a \in 1 .. n + 1 : LRU_CACHE'[a] = [pid |-> q, page |-> k]
        BY <1>6, <1>8
      <3>1. CASE q = t /\ k = i
        <4>1. 1 \in 1 .. n + 1
          BY <1>8
        <4> QED
          BY <1>8, <3>1, <4>1
      <3>2. CASE ~(q = t /\ k = i)
        <4>1. PICK x \in 1 .. n : LRU_CACHE[x] = [pid |-> q, page |-> k]
          BY <1>7, <3>2
        <4> DEFINE a == x + 1
        <4>2. a \in 2 .. n + 1 /\ a \in 1 .. n + 1 /\ a - 1 = x
          BY <1>8
        <4> HIDE DEF a
        <4>3. LRU_CACHE'[a] = LRU_CACHE[x]
          BY <1>8, <4>2
        <4> QED
          BY <4>1, <4>2, <4>3
      <3> QED
        BY <3>1, <3>2
    <2>4. LRU_CACHE' \in Seq([pid : Nat, page : Nat])
      BY <1>8 DEF E
    <2> QED
      BY <2>1, <2>2, <2>3, <2>4 DEF LruInv
  <1>15. LoadInv'
    <2>1. \A q \in DOMAIN pcb' : pcb'[q].pos >= 6 \/ pcb'[q].pos = Length(pcb'[q])
      <3> SUFFICES ASSUME NEW q \in DOMAIN pcb PROVE pcb'[q].pos >= 6 \/ pcb'[q].pos = Length(pcb[q])
        BY <1>6
      <3>1. CASE q = t
        BY <1>2, <1>5, <1>6, <3>1
      <3>2. CASE q # t
        BY <1>0, <1>6, <3>2 DEF KernelInv, LoadInv, Filling
      <3> QED
        BY <3>1, <3>2
    <2> QED
      BY <1>0, <1>4, <1>6, <2>1 DEF KernelInv, LoadInv
  <1>16. TurnInv'
    <2>1. \A q \in DOMAIN pcb : pcb'[q].size > 0 => \E k \in DOMAIN QUEUE' : QUEUE'[k] = q
      <3> SUFFICES ASSUME NEW q \in DOMAIN pcb, pcb[q].size > 0
                   PROVE  \E k \in DOMAIN QUEUE' : QUEUE'[k] = q
        BY <1>6
      <3>0. QUEUE \in Seq(DOMAIN pcb) /\ Len(QUEUE) \in Nat /\ DOMAIN QUEUE = 1 .. Len(QUEUE)
        BY LenProperties DEF KernelInv, QueueInv, PidsInv
      <3>1. CASE q = t
        <4>1. Len(QUEUE) + 1 \in DOMAIN QUEUE' /\ QUEUE'[Len(QUEUE) + 1] = t
          BY <1>4, <1>5, <3>0
        <4> QED
          BY <3>1, <4>1
      <3>2. CASE q # t
        <4>1. PICK k \in DOMAIN QUEUE : QUEUE[k] = q
          BY <1>0, <3>2 DEF KernelInv, TurnInv, Queued, t
        <4>2. k \in DOMAIN QUEUE' /\ QUEUE'[k] = QUEUE[k]
          BY <1>4, <1>5, <3>0
        <4> QED
          BY <4>1, <4>2
      <3> QED
        BY <3>1, <3>2
    <2> QED
      BY <1>4, <1>6, <2>1 DEF TurnInv, Queued
  <1>17. \A q \in DOMAIN pcb : /\ WillHaveRun(q)' = Ran(pcb[q])
                               /\ WillHaveRun(q) = IF q = t THEN d + turn.left ELSE Ran(pcb[q])
    <2> SUFFICES ASSUME NEW q \in DOMAIN pcb
                 PROVE  /\ WillHaveRun(q)' = Ran(pcb[q])
                        /\ WillHaveRun(q) = IF q = t THEN d + turn.left ELSE Ran(pcb[q])
      OBVIOUS
    <2>1. WillHaveRun(q)' = Ran(pcb'[q]) + 0
      BY <1>4 DEF WillHaveRun
    <2>2. WillHaveRun(q) = Ran(pcb[q]) + IF q = t THEN turn.left ELSE 0
      BY <1>0, <1>5 DEF WillHaveRun
    <2>3. Ran(pcb'[q]) = Ran(pcb[q]) /\ Ran(pcb[q]) \in Nat
      BY <1>6
    <2> QED
      BY <1>5, <2>1, <2>2, <2>3
  <1>18. \A q \in DOMAIN pcb : WillHaveRun(q)' <= WillHaveRun(q)
    BY <1>5, <1>6, <1>17
  <1>19. LockstepInv'
    <2> SUFFICES ASSUME NEW q \in DOMAIN pcb, NEW r \in DOMAIN pcb,
                        WillHaveRun(q)' < Length(pcb[q]), WillHaveRun(q)' < 4
                 PROVE  /\ WillHaveRun(r)' <= WillHaveRun(q)' + 2
                        /\ r \notin since[q] => WillHaveRun(r)' <= WillHaveRun(q)'
      BY <1>4, <1>6 DEF LockstepInv
    <2>1. q # t
      BY <1>2, <1>5, <1>17
    <2>2. WillHaveRun(q)' = WillHaveRun(q)
      BY <1>17, <2>1
    <2>3. WillHaveRun(r) <= WillHaveRun(q) + 2 /\ (r \notin since[q] => WillHaveRun(r) <= WillHaveRun(q))
      BY <1>0, <2>2 DEF KernelInv, LockstepInv
    <2>4. WillHaveRun(q) \in Nat /\ WillHaveRun(r) \in Nat /\ WillHaveRun(r)' \in Nat
      BY <1>5, <1>6, <1>17
    <2> DEFINE w == WillHaveRun(r)'
    <2>5. w \in Nat /\ w <= WillHaveRun(r)
      BY <1>18, <2>4
    <2> HIDE DEF w
    <2>6. w <= WillHaveRun(q) + 2 /\ (r \notin since[q] => w <= WillHaveRun(q))
      BY <2>3, <2>4, <2>5
    <2> QED
      BY <2>2, <2>6 DEF w
  <1>20. RecencyInv'
    <2> SUFFICES ASSUME NEW q \in DOMAIN pcb', NEW a \in DOMAIN LRU_CACHE', NEW b \in DOMAIN LRU_CACHE',
                        4 <= Ran(pcb'[q]), Ran(pcb'[q]) < Length(pcb'[q]), LRU_CACHE'[a].pid = q,
                        3 * LRU_CACHE'[a].page <= Ran(pcb'[q]), Ran(pcb'[q]) < 3 * LRU_CACHE'[a].page + 3,
                        b < a
                 PROVE  /\ LRU_CACHE'[b].pid \in since'[q]
                        /\ 3 * LRU_CACHE'[b].page <= Ran(pcb'[LRU_CACHE'[b].pid])
                        /\ WillHaveRun(LRU_CACHE[b].pid)' < 3 * LRU_CACHE'[b].page + 5
      BY DEF RecencyInv
    <2>0. PICK e, f : e = LRU_CACHE'[a] /\ f = LRU_CACHE'[b]
      OBVIOUS
    <2> DEFINE x == a - 1
               y == b - 1
    <2>1. q \in DOMAIN pcb /\ a \in 1 .. n + 1 /\ b \in 1 .. n + 1
      BY <1>6, <1>8
    <2>2. a # 1
      BY <2>1
    <2>3. x \in 1 .. n /\ e = LRU_CACHE[x]
      BY <1>11, <2>0, <2>1, <2>2
    <2>4. b # 1 => y \in 1 .. n /\ f = LRU_CACHE[y] /\ y < x
      <3>1. b # 1 => y < x
        BY <2>1
      <3> QED
        BY <1>11, <2>0, <2>1, <3>1
    <2>5. b = 1 => f = [pid |-> t, page |-> i]
      BY <1>11, <2>0, <2>1
    <2> HIDE DEF x, y
    <2>6. /\ e \in E /\ In(pcb, e.pid, e.page) /\ e # [pid |-> t, page |-> i]
          /\ x \in DOMAIN LRU_CACHE
      BY <1>9, <2>3
    <2>7. b # 1 => f \in E /\ In(pcb, f.pid, f.page) /\ y \in DOMAIN LRU_CACHE
      BY <1>9, <2>4
    <2>8. e.pid = q /\ f.pid \in DOMAIN pcb /\ e.page \in Nat /\ f.page \in Nat
      BY <1>5, <2>0, <2>5, <2>6, <2>7 DEF E, In
    <2>9. WillHaveRun(LRU_CACHE[b].pid)' = WillHaveRun(f.pid)'
      BY <2>0 DEF WillHaveRun
    <2>10. WillHaveRun(f.pid)' = Ran(pcb[f.pid]) /\ Ran(pcb'[f.pid]) = Ran(pcb[f.pid])
      BY <1>6, <1>17, <2>8
    <2>11. /\ 4 <= Ran(pcb[q]) /\ Ran(pcb[q]) < Length(pcb[q])
           /\ 3 * e.page <= Ran(pcb[q]) /\ Ran(pcb[q]) < 3 * e.page + 3
      BY <1>6, <2>0, <2>1
    <2> SUFFICES f.pid \in since[q] /\ 3 * f.page <= Ran(pcb[f.pid]) /\ Ran(pcb[f.pid]) < 3 * f.page + 5
      BY <1>4, <2>0, <2>9, <2>10
    <2>12. q # t
      <3>1. CASE q = t
        <4>1. e.page = i
          BY <1>2, <1>5, <2>8, <2>11, <3>1
        <4> QED
          BY <2>6, <2>8, <3>1, <4>1 DEF E
      <3> QED
        BY <3>1
    <2>13. CASE b = 1
      <3>1. f.pid = t /\ f.page = i
        BY <2>5, <2>13
      <3>2. t \in since[q]
        BY <1>0, <1>5, <2>1, <2>12 DEF KernelInv, QueueInv, SinceInv
      <3> QED
        BY <1>2, <1>5, <3>1, <3>2
    <2>14. CASE b # 1
      <3>1. /\ f.pid \in since[q]
            /\ 3 * f.page <= Ran(pcb[f.pid])
            /\ WillHaveRun(f.pid) < 3 * f.page + 5
        <4>1. ~(turn # NoTurn /\ q = turn.pid)
          BY <1>5, <2>12
        <4> QED
          BY <1>0, <2>1, <2>3, <2>4, <2>6, <2>7, <2>8, <2>11, <2>14, <4>1 DEF KernelInv, RecencyInv
      <3>2. Ran(pcb[f.pid]) <= WillHaveRun(f.pid) /\ Ran(pcb[f.pid]) \in Nat /\ WillHaveRun(f.pid) \in Nat
        BY <1>5, <1>6, <1>17, <2>8
      <3> QED
        BY <2>8, <3>1, <3>2
    <2> QED
      BY <2>13, <2>14
  <1>21. LastInv'
    BY <1>4, <1>6 DEF KernelInv, LastInv
  <1> QED
    BY <1>12, <1>13, <1>14, <1>15, <1>16, <1>19, <1>20, <1>21 DEF KernelInv

--------------------------------------------------------------------------------
(***************************************************************************)
(* The end of exec, and the invariant.                                     *)
(***************************************************************************)

\* The list holds exactly the pages in the frame store.
LEMMA ResidentLemma ==
    ASSUME GoodPCBs(pcb), NEW e
    PROVE  e \in Resident <=> \E q \in DOMAIN pcb : \E i \in PageOf(Length(pcb[q])) :
                                 e = [pid |-> q, page |-> i] /\ In(pcb, q, i)
  <1>1. \A q \in DOMAIN pcb : DOMAIN pcb[q].page_table = PageOf(Length(pcb[q]))
    BY LengthLemma DEF GoodPCBs
  <1>2. e \in Pages <=> \E q \in DOMAIN pcb : \E i \in PageOf(Length(pcb[q])) : e = [pid |-> q, page |-> i]
    BY <1>1 DEF Pages
  <1>3. ASSUME NEW q, NEW i, e = [pid |-> q, page |-> i]
        PROVE  ThePage(e).valid[0] <=> pcb[q].page_table[i].valid[0]
    BY <1>3 DEF ThePage
  <1> QED
    BY <1>2, <1>3 DEF Resident, In

\* free_PCB finds every page in the frame store.
LEMMA FreedLemma ==
    ASSUME GoodPCBs(pcb), NEW q \in DOMAIN pcb, NEW i \in PageOf(Length(pcb[q])), In(pcb, q, i)
    PROVE  \A j \in 0 .. 2 : At(pcb, q, i) + j \in FreedLines
  <1>1. PICK g \in Frame : At(pcb, q, i) = 3 * g
    BY InLemma
  <1>2. g \in Nat
    BY ZoneLemma
  <1>3. i \in DOMAIN pcb[q].page_table /\ 0 \in 0 .. 2
    BY LengthLemma DEF GoodPCBs
  <1>4. At(pcb, q, i) \in {pcb[q].page_table[l].index[j] : l \in DOMAIN pcb[q].page_table, j \in 0 .. 2}
    BY <1>3 DEF At
  <1>5. At(pcb, q, i) \in PageIndexes
    BY <1>4 DEF PageIndexes
  <1>6. \A j \in 0 .. 2 : At(pcb, q, i) + j \in FrameLines(At(pcb, q, i))
    BY <1>1, <1>2 DEF FrameLines
  <1> QED
    BY <1>5, <1>6 DEF FreedLines

LEMMA KernelFinish == KernelInv /\ Finish => KernelInv'
  <1> SUFFICES ASSUME KernelInv, Finish PROVE KernelInv'
    OBVIOUS
  <1>1. /\ mode = "run" /\ mode' = "prompt" /\ turn' = turn /\ turn = NoTurn
        /\ UNCHANGED <<PID_counter, args, last>>
        /\ QUEUE' = <<>> /\ LRU_CACHE' = <<>> /\ mem' = MemFree(mem, FreedLines)
        /\ DOMAIN pcb' = {} /\ DOMAIN QUEUE' = {} /\ DOMAIN LRU_CACHE' = {}
    BY DEF Finish, Empty
  <1>2. QueueInv'
    BY QueueNext DEF KernelInv, Next, Kernel
  <1>3. PagesInv'
    <2>1. GoodPCBs(pcb) /\ FramesInv(mem, pcb)
      BY DEF KernelInv, PagesInv
    <2>2. OnMemory(mem') /\ \A a \in Memory : mem'[a] = IF a \in FreedLines THEN FreeLine ELSE mem[a]
      BY <1>1 DEF MemFree, OnMemory
    <2>3. ASSUME NEW a \in FrameZone PROVE mem'[a] = FreeLine
      <3>1. mem[a] = FreeLine \/ a \in FreedLines
        BY <2>1, FreedLemma DEF FramesInv
      <3> QED
        BY <2>2, <3>1, ZoneLemma
    <2> QED
      BY <1>1, <2>2, <2>3 DEF PagesInv, GoodPCBs, FramesInv
  <1>4. LruInv'
    BY <1>1 DEF LruInv
  <1>5. LoadInv'
    BY <1>1 DEF KernelInv, LoadInv
  <1>6. TurnInv' /\ LockstepInv' /\ RecencyInv'
    BY <1>1 DEF TurnInv, LockstepInv, RecencyInv
  <1>7. LastInv'
    BY <1>1 DEF KernelInv, LastInv
  <1> QED
    BY <1>2, <1>3, <1>4, <1>5, <1>6, <1>7 DEF KernelInv

LEMMA KernelStutter == KernelInv /\ UNCHANGED vars => KernelInv'
  <1> SUFFICES ASSUME KernelInv, UNCHANGED vars PROVE KernelInv'
    OBVIOUS
  <1> USE DEF vars
  <1>1. QueueInv'
    BY QueueNext DEF KernelInv
  <1>2. PagesInv' /\ LastInv'
    BY DEF KernelInv, PagesInv, LastInv
  <1>3. LruInv' /\ LoadInv'
    BY DEF KernelInv, LruInv, LoadInv, Filling
  <1>4. TurnInv'
    BY DEF KernelInv, TurnInv, Queued
  <1>5. LockstepInv' /\ RecencyInv'
    BY DEF KernelInv, LockstepInv, RecencyInv, WillHaveRun
  <1> QED
    BY <1>1, <1>2, <1>3, <1>4, <1>5 DEF KernelInv

LEMMA KernelNext == PlainScripts /\ KernelInv /\ [Next]_vars => KernelInv'
  <1> SUFFICES ASSUME PlainScripts, KernelInv, [Next]_vars PROVE KernelInv'
    OBVIOUS
  <1>1. CASE User
    BY <1>1, KernelUser
  <1>2. CASE NewProc
    BY <1>2, KernelNewProc
  <1>3. CASE FillPage
    BY <1>3, KernelFillPage
  <1>4. CASE NewProcFails
    BY <1>4, KernelNewProcFails
  <1>5. CASE AllLoaded
    BY <1>5, KernelAllLoaded
  <1>6. CASE Pop
    BY <1>6, KernelPop
  <1>7. CASE RunLine
    BY <1>7, KernelRunLine
  <1>8. CASE PageFault
    BY <1>8, KernelPageFault
  <1>9. CASE RunLineReturning1
    BY <1>9, NoReturn1 DEF RunLineReturning1
  <1>10. CASE Finish
    BY <1>10, KernelFinish
  <1>11. CASE UNCHANGED vars
    BY <1>11, KernelStutter
  <1> QED
    BY <1>1, <1>2, <1>3, <1>4, <1>5, <1>6, <1>7, <1>8, <1>9, <1>10, <1>11 DEF Next, Kernel

\* The invariant of paging: pages in frames of their own, the LRU list and the page
\* tables agree, and no process is ever so far ahead that the page it needs next
\* could be the least recently used one.
THEOREM KernelInvariant ==
    ASSUME PlainScripts
    PROVE  Spec => []KernelInv
  <1>1. Init => KernelInv
    BY KernelInit
  <1>2. KernelInv /\ [Next]_vars => KernelInv'
    BY KernelNext
  <1> QED
    BY <1>1, <1>2, PTL DEF Spec

--------------------------------------------------------------------------------
(***************************************************************************)
(* What the invariant gives.                                               *)
(***************************************************************************)

\* A valid line of a page table points at that very line of the script.
THEOREM KernelPagesIntact ==
    ASSUME PlainScripts
    PROVE  Spec => []PagesIntact
  <1>1. KernelInv => PagesIntact
    <2> SUFFICES ASSUME KernelInv, NEW e \in Resident, NEW j \in 0 .. 2, ThePage(e).valid[j]
                 PROVE  mem[ThePage(e).index[j]] =
                          [var |-> e.pid,
                           value |-> [script |-> pcb[e.pid].script, line |-> 3 * e.page + j + 1]]
      BY DEF PagesIntact
    <2>1. GoodPCBs(pcb) /\ FramesInv(mem, pcb)
      BY DEF KernelInv, PagesInv
    <2>2. PICK q, i : /\ q \in DOMAIN pcb /\ i \in PageOf(Length(pcb[q]))
                      /\ e = [pid |-> q, page |-> i] /\ In(pcb, q, i)
      BY <2>1, ResidentLemma
    <2>3. PICK g \in Frame : At(pcb, q, i) = 3 * g /\ InFrame(pcb[q], i, g)
      BY <2>1, <2>2, InLemma
    <2>4. ThePage(e) = pcb[q].page_table[i]
      BY <2>2 DEF ThePage
    <2>5. ThePage(e).index[j] = At(pcb, q, i) + j /\ 3 * i + j < Length(pcb[q])
      BY <2>3, <2>4 DEF InFrame
    <2>6. mem[At(pcb, q, i) + j] = LineOf(pcb, q, 3 * i + j + 1)
      BY <2>1, <2>2, <2>5 DEF FramesInv, InPlace
    <2> QED
      BY <2>2, <2>5, <2>6 DEF LineOf
  <1> QED
    BY <1>1, KernelInvariant, PTL

\* The LRU list holds every resident page once and nothing else.
THEOREM KernelLruListsResidents ==
    ASSUME PlainScripts
    PROVE  Spec => []LruListsResidents
  <1>1. KernelInv => LruListsResidents
    <2> SUFFICES ASSUME KernelInv PROVE LruListsResidents
      OBVIOUS
    <2> DEFINE E == [pid : Nat, page : Nat]
               N == Len(LRU_CACHE)
    <2>1. GoodPCBs(pcb) /\ LRU_CACHE \in Seq(E)
      BY DEF KernelInv, PagesInv, LruInv
    <2> HIDE DEF E
    <2>2. N \in Nat /\ DOMAIN LRU_CACHE = 1 .. N /\ LRU_CACHE \in [1 .. N -> E]
      BY <2>1, LenProperties
    <2>3. ASSUME mode \in {"prompt", "load", "run"} PROVE ToSet(LRU_CACHE) = Resident
      <3>1. \A q \in DOMAIN pcb : ~Filling(q)
        BY <2>3 DEF Filling
      <3>2. ASSUME NEW e \in ToSet(LRU_CACHE) PROVE e \in Resident
        <4>1. PICK a \in DOMAIN LRU_CACHE : e = LRU_CACHE[a]
          BY DEF ToSet
        <4>2. e \in E /\ In(pcb, e.pid, e.page)
          BY <2>1, <2>3, <4>1, ElementOfSeq DEF KernelInv, LruInv
        <4>3. e = [pid |-> e.pid, page |-> e.page]
          BY <4>2 DEF E
        <4>4. e.pid \in DOMAIN pcb /\ e.page \in PageOf(Length(pcb[e.pid]))
          BY <4>2 DEF In
        <4> QED
          BY <2>1, <4>2, <4>3, <4>4, ResidentLemma
      <3>3. ASSUME NEW e \in Resident PROVE e \in ToSet(LRU_CACHE)
        <4>1. PICK q, i : /\ q \in DOMAIN pcb /\ i \in PageOf(Length(pcb[q]))
                          /\ e = [pid |-> q, page |-> i] /\ In(pcb, q, i)
          BY <2>1, ResidentLemma
        <4>2. \E a \in DOMAIN LRU_CACHE : LRU_CACHE[a] = e
          BY <2>3, <3>1, <4>1 DEF KernelInv, LruInv
        <4> QED
          BY <4>2 DEF ToSet
      <3> QED
        BY <3>2, <3>3
    <2>4. Cardinality(ToSet(LRU_CACHE)) = N
      <3> DEFINE T == ToSet(LRU_CACHE)
      <3>1. T = {LRU_CACHE[a] : a \in 1 .. N}
        BY <2>2 DEF ToSet
      <3>2. \A a, b \in 1 .. N : LRU_CACHE[a] = LRU_CACHE[b] => a = b
        BY <2>2 DEF KernelInv, LruInv
      <3> HIDE DEF T, N
      <3>3. LRU_CACHE \in Bijection(1 .. N, T)
        <4>1. LRU_CACHE \in [1 .. N -> T] /\ DOMAIN LRU_CACHE = 1 .. N
          BY <2>2, <3>1
        <4>2. LRU_CACHE \in Injection(1 .. N, T)
          BY <3>2, <4>1 DEF Injection, IsInjective
        <4>3. LRU_CACHE \in Surjection(1 .. N, T)
          BY <3>1, <4>1 DEF Surjection
        <4> QED
          BY <4>2, <4>3 DEF Bijection
      <3>4. ExistsBijection(1 .. N, T)
        BY <3>3 DEF ExistsBijection
      <3>5. IsFiniteSet(T) /\ Cardinality(T) = N
        BY <2>2, <3>4, FS_CardinalityType, FS_NatBijection, FS_CountingElements
      <3> QED
        BY <3>5 DEF T
    <2> QED
      BY <2>3, <2>4 DEF LruListsResidents
  <1> QED
    BY <1>1, KernelInvariant, PTL

\* When the prompt is back every frame is free again.
THEOREM KernelNoFrameLeft ==
    ASSUME PlainScripts
    PROVE  Spec => []NoFrameLeft
  <1>1. KernelInv => NoFrameLeft
    <2> SUFFICES ASSUME KernelInv, mode = "prompt", NEW p \in FrameZone PROVE mem[p] = FreeLine
      BY DEF NoFrameLeft
    <2>1. DOMAIN pcb = {}
      BY DEF KernelInv, QueueInv, StageInv, Empty
    <2> QED
      BY <2>1 DEF KernelInv, PagesInv, FramesInv
  <1> QED
    BY <1>1, KernelInvariant, PTL

--------------------------------------------------------------------------------
(***************************************************************************)
(* What a step may never do.                                               *)
(***************************************************************************)

\* The steps that move no page and write no line of memory.
LEMMA QuietLemma ==
    ASSUME User \/ NewProcFails \/ AllLoaded \/ Pop \/ UNCHANGED vars
    PROVE  pcb' = pcb /\ (mode # "prompt" => mem' = mem)
  BY DEF User, SetVar, ResetMem, Exec, Quit, NewProcFails, AllLoaded, Pop, vars

LEMMA SpentUsedUpLemma ==
    ASSUME NEW p, GoodPCB(p), NEW i \in PageOf(Length(p)), Spent(p, i)
    PROVE  UsedUp(p, i)
  <1>1. Length(p) \in Nat /\ Ran(p) \in Nat /\ i \in Nat
    BY LengthLemma
  <1>2. GoodPage(p, i)
    BY DEF GoodPCB
  <1>3. SUFFICES ASSUME NEW j \in 0 .. 2, p.page_table[i].valid[j] PROVE j < p.program_counter[i]
    BY DEF UsedUp
  <1>4. 3 * i + j < Length(p)
    <2>1. \E g \in Frame : InFrame(p, i, g)
      BY <1>2, <1>3 DEF GoodPage, NotLoaded
    <2> QED
      BY <1>3, <2>1 DEF InFrame
  <1>5. p.program_counter[i] = IF Ran(p) >= 3 * i + 3 THEN 3 ELSE IF Ran(p) <= 3 * i THEN 0 ELSE Ran(p) - 3 * i
    BY <1>2 DEF GoodPage
  <1>6. CASE Ran(p) >= 3 * i + 3
    BY <1>3, <1>5, <1>6
  <1>7. CASE Ran(p) = Length(p) /\ ~(Ran(p) >= 3 * i + 3)
    <2>1. p.program_counter[i] = Ran(p) - 3 * i
      BY <1>1, <1>3, <1>4, <1>5, <1>7
    <2> QED
      BY <1>1, <1>3, <1>4, <1>7, <2>1
  <1> QED
    BY <1>6, <1>7 DEF Spent

\* A page is only evicted when all its lines have been run.
THEOREM KernelEvictsUsedUp ==
    ASSUME PlainScripts
    PROVE  Spec => OnlyUsedUpPagesEvicted
  <1>1. ASSUME KernelInv, [Next]_vars, NEW e \in Resident, e.pid \in DOMAIN pcb',
               ~pcb'[e.pid].page_table[e.page].valid[0]
        PROVE  UsedUp(pcb[e.pid], e.page)
    <2>1. GoodPCBs(pcb)
      BY <1>1 DEF KernelInv, PagesInv
    <2>2. PICK q, i : /\ q \in DOMAIN pcb /\ i \in PageOf(Length(pcb[q]))
                      /\ e = [pid |-> q, page |-> i] /\ In(pcb, q, i)
      BY <1>1, <2>1, ResidentLemma
    <2>3. ~pcb'[q].page_table[i].valid[0] /\ pcb[q].page_table[i].valid[0] /\ q \in DOMAIN pcb'
      BY <1>1, <2>2 DEF In
    <2>4. Spent(pcb[q], i)
      <3>1. CASE User \/ NewProcFails \/ AllLoaded \/ Pop \/ UNCHANGED vars
        BY <2>3, <3>1, QuietLemma
      <3>2. CASE NewProc
        <4>1. q # PID_counter
          BY <1>1, <2>2 DEF KernelInv, QueueInv, PidsInv
        <4>2. pcb'[q] = pcb[q]
          BY <2>2, <3>2, <4>1 DEF NewProc
        <4> QED
          BY <2>3, <4>2
      <3>3. CASE FillPage
        <4>1. FillResult(turn.pid, StartPages(pcb[turn.pid]), StartPages(pcb[turn.pid]) - turn.left)
          BY <1>1, <3>3, FillStep
        <4>2. In(pcb', q, i)
          BY <2>2, <4>1 DEF FillResult
        <4> QED
          BY <2>3, <4>2 DEF In
      <3>4. CASE RunLine
        <4>1. Stepped(pcb', turn.pid)
          BY <1>1, <3>4, SteppedLemma DEF RunLine
        <4> QED
          BY <2>2, <2>3, <4>1 DEF Stepped
      <3>5. CASE PageFault
        <4> DEFINE t == turn.pid
                   k == CurrentPage(pcb[t])
        <4>1. RunningFacts(t, k, Ran(pcb[t]))
          BY <1>1, <3>5, RunningLemma DEF PageFault
        <4>2. PICK n : FaultResult(t, k, n)
          BY <1>1, <3>5, <4>1, FaultResultLemma
        <4> HIDE DEF t, k
        <4>3. ~In(pcb', q, i)
          BY <2>3 DEF In
        <4> QED
          BY <2>2, <4>2, <4>3 DEF FaultResult
      <3>6. CASE RunLineReturning1
        BY <1>1, <3>6, NoReturn1 DEF RunLineReturning1
      <3>7. CASE Finish
        BY <2>3, <3>7 DEF Finish, Empty
      <3> QED
        BY <1>1, <3>1, <3>2, <3>3, <3>4, <3>5, <3>6, <3>7 DEF Next, Kernel
    <2>5. GoodPCB(pcb[q])
      BY <2>1, <2>2 DEF GoodPCBs
    <2> QED
      BY <2>2, <2>4, <2>5, SpentUsedUpLemma
  <1>2. KernelInv /\ [Next]_vars =>
            \A e \in Resident : e.pid \in DOMAIN pcb' /\ ~pcb'[e.pid].page_table[e.page].valid[0]
                                => UsedUp(pcb[e.pid], e.page)
    BY <1>1
  <1>3. KernelInv /\ [Next]_vars =>
            (~faked' => \A e \in Resident :
                           e.pid \in DOMAIN pcb' /\ ~pcb'[e.pid].page_table[e.page].valid[0]
                           => UsedUp(pcb[e.pid], e.page))
    BY <1>2
  <1> QED
    BY <1>3, KernelInvariant, PTL DEF Spec, OnlyUsedUpPagesEvicted

\* Loading and evicting pages never touches the variables.
THEOREM KernelPagingKeepsVariables ==
    ASSUME PlainScripts
    PROVE  Spec => PagingKeepsVariables
  <1>1. ASSUME KernelInv, [Next]_vars, mode' # "prompt", last' = last, mode # "prompt"
        PROVE  \A p \in VarZone : mem'[p] = mem[p]
    <2>1. CASE User \/ NewProcFails \/ AllLoaded \/ Pop \/ UNCHANGED vars
      BY <1>1, <2>1, QuietLemma
    <2>2. CASE NewProc
      BY <2>2 DEF NewProc
    <2>3. CASE FillPage
      BY <1>1, <2>3, FillStep DEF FillResult
    <2>4. CASE RunLine
      <3> DEFINE t == turn.pid
                 i == CurrentPage(pcb[t])
                 d == Ran(pcb[t])
      <3>1. RunningFacts(t, i, d)
        BY <1>1, <2>4, RunningLemma DEF RunLine
      <3>2. last' = [pid |-> t, script |-> pcb[t].script, line |-> d + 1]
        BY <1>1, <2>4, <3>1, FetchLemma DEF RunLine
      <3>3. t \in DOMAIN pcb /\ d \in Nat
        BY <3>1 DEF RunningFacts
      <3>4. last.pid = t /\ last.line = d + 1
        BY <1>1, <3>2
      <3>5. last.line <= d
        BY <1>1, <3>3, <3>4 DEF KernelInv, LastInv
      <3> QED
        BY <3>3, <3>4, <3>5
    <2>5. CASE PageFault
      <3> DEFINE t == turn.pid
                 k == CurrentPage(pcb[t])
      <3>1. RunningFacts(t, k, Ran(pcb[t]))
        BY <1>1, <2>5, RunningLemma DEF PageFault
      <3>2. PICK n : FaultResult(t, k, n)
        BY <1>1, <2>5, <3>1, FaultResultLemma
      <3> QED
        BY <3>2 DEF FaultResult
    <2>6. CASE RunLineReturning1
      BY <1>1, <2>6, NoReturn1 DEF RunLineReturning1
    <2>7. CASE Finish
      BY <1>1, <2>7 DEF Finish
    <2> QED
      BY <1>1, <2>1, <2>2, <2>3, <2>4, <2>5, <2>6, <2>7 DEF Next, Kernel
  <1>2. KernelInv /\ [Next]_vars => (mode' # "prompt" /\ last' = last /\ mode # "prompt"
                                     => \A p \in VarZone : mem'[p] = mem[p])
    BY <1>1
  <1> QED
    BY <1>2, KernelInvariant, PTL DEF Spec, PagingKeepsVariables

\* When the processes end every page has been loaded, so that every index that
\* free_PCB clears from is a line of a frame.
LEMMA AllRunLemma ==
    ASSUME KernelInv, mode = "run", turn = NoTurn, queue_done, NEW q \in DOMAIN pcb
    PROVE  /\ pcb[q].size = 0 /\ Ran(pcb[q]) = Length(pcb[q]) /\ pcb[q].pos = Length(pcb[q])
  <1>1. GoodPCB(pcb[q])
    BY DEF KernelInv, PagesInv, GoodPCBs
  <1>2. /\ Length(pcb[q]) \in Nat \ {0} /\ Ran(pcb[q]) \in Nat /\ pcb[q].size \in Nat /\ pcb[q].pos \in Nat
        /\ Ran(pcb[q]) + pcb[q].size = Length(pcb[q])
        /\ DOMAIN pcb[q].page_table = PageOf(Length(pcb[q]))
    BY <1>1, LengthLemma
  <1>3. pcb[q].size = 0
    <2> SUFFICES ASSUME pcb[q].size > 0 PROVE FALSE
      BY <1>2
    <2>1. PICK k \in DOMAIN QUEUE : QUEUE[k] = q
      BY DEF KernelInv, TurnInv, Queued
    <2>2. \A i \in PageOf(Length(pcb[q])) : pcb[q].program_counter[i] = 3
      BY <1>2, <2>1 DEF queue_done, PCB_done
    <2> DEFINE i == Ran(pcb[q]) \div 3
               R == Ran(pcb[q])
    <2>3. i \in Nat /\ 3 * i <= R /\ R < 3 * i + 3 /\ R < Length(pcb[q])
      BY <1>2
    <2> HIDE DEF i, R
    <2>4. i \in PageOf(Length(pcb[q]))
      BY <1>2, <2>3 DEF PageOf, R
    <2>5. GoodPage(pcb[q], i) /\ pcb[q].program_counter[i] = 3
      BY <1>1, <2>2, <2>4 DEF GoodPCB
    <2>6. 3 = IF R >= 3 * i + 3 THEN 3 ELSE IF R <= 3 * i THEN 0 ELSE R - 3 * i
      BY <2>5 DEF GoodPage, R
    <2>7. R \in Nat
      BY <1>2 DEF R
    <2> QED
      BY <2>3, <2>6, <2>7
  <1>4. Ran(pcb[q]) <= pcb[q].pos /\ pcb[q].pos <= Length(pcb[q])
    BY <1>1 DEF GoodPCB
  <1> QED
    BY <1>2, <1>3, <1>4

LEMMA IndexLemma ==
    ASSUME PlainScripts, KernelInv, mode = "run", turn = NoTurn, queue_done, NEW at \in PageIndexes
    PROVE  at \in Int /\ 0 <= at /\ at <= LastFrameLine
  <1>1. PICK q \in DOMAIN pcb : at \in {pcb[q].page_table[i].index[j] :
                                          i \in DOMAIN pcb[q].page_table, j \in 0 .. 2}
    BY DEF PageIndexes
  <1>2. GoodPCB(pcb[q])
    BY DEF KernelInv, PagesInv, GoodPCBs
  <1>3. PICK i \in PageOf(Length(pcb[q])), j \in 0 .. 2 : at = pcb[q].page_table[i].index[j]
    BY <1>1, <1>2, LengthLemma
  <1>4. 3 * i < pcb[q].pos /\ i \in Nat /\ pcb[q].pos \in Nat
    BY <1>2, AllRunLemma, LengthLemma
  <1>5. GoodPage(pcb[q], i)
    BY <1>2 DEF GoodPCB
  <1>6. FRAME_STORE_SIZE \div 3 \in Nat /\ 3 * (FRAME_STORE_SIZE \div 3) <= FRAME_STORE_SIZE
        /\ FRAME_STORE_SIZE < 3 * (FRAME_STORE_SIZE \div 3) + 3 /\ FRAME_STORE_SIZE \in Nat
    BY MemoryAssumption
  <1>7. CASE \E g \in Frame : InFrame(pcb[q], i, g)
    <2>1. PICK g \in Frame : InFrame(pcb[q], i, g)
      BY <1>7
    <2>2. at = 3 * g + j /\ g \in Nat /\ 3 * g + 2 < FRAME_STORE_SIZE
      BY <1>3, <2>1, ZoneLemma DEF InFrame, Frame
    <2> DEFINE c == FRAME_STORE_SIZE \div 3
    <2>3. c \in Nat /\ 3 * c <= FRAME_STORE_SIZE /\ FRAME_STORE_SIZE < 3 * c + 3 /\ FRAME_STORE_SIZE \in Nat
          /\ LastFrameLine = 3 * c - 1
      BY <1>6 DEF LastFrameLine
    <2> HIDE DEF c
    <2>4. g < c
      BY <2>2, <2>3
    <2> QED
      BY <2>2, <2>3, <2>4
  <1>8. CASE NotLoaded(pcb[q], i, 0)
    <2>1. at = 0
      BY <1>3, <1>8 DEF NotLoaded
    <2>2. 0 <= LastFrameLine
      BY <1>6 DEF PlainScripts, LastFrameLine
    <2> QED
      BY <2>1, <2>2
  <1> QED
    BY <1>4, <1>5, <1>7, <1>8 DEF GoodPage

\* free_PCB only clears lines of the array, and of the variables at most the first
\* two behind the last frame.
THEOREM KernelFreeingClearsAtMostTwo ==
    ASSUME PlainScripts, VAR_STORE_SIZE >= 2
    PROVE  Spec => FreeingClearsAtMostTwo
  <1>1. ASSUME KernelInv, [Next]_vars, mode = "run", mode' = "prompt"
        PROVE  /\ FreedLines \subseteq Memory
               /\ \A p \in VarZone : p > LastFrameLine + 2 => mem'[p] = mem[p]
    <2>1. Finish
      BY <1>1 DEF Next, Kernel, User, NewProc, FillPage, NewProcFails, AllLoaded, Pop, RunLine, PageFault,
            RunLineReturning1, HandleFault, SetVar, ResetMem, Exec, Quit, vars, Running
    <2>2. turn = NoTurn /\ queue_done /\ mem' = MemFree(mem, FreedLines)
      BY <2>1 DEF Finish
    <2>3. LastFrameLine \in Int /\ LastFrameLine < FRAME_STORE_SIZE
          /\ FRAME_STORE_SIZE \in Nat /\ VAR_STORE_SIZE \in Nat
      BY MemoryAssumption DEF LastFrameLine
    <2>4. ASSUME NEW p \in FreedLines PROVE p \in Int /\ 0 <= p /\ p <= LastFrameLine + 2
      <3>1. PICK at \in PageIndexes : p \in FrameLines(at)
        BY DEF FreedLines
      <3>2. at \in Int /\ 0 <= at /\ at <= LastFrameLine
        BY <1>1, <2>2, IndexLemma
      <3> QED
        BY <2>3, <3>1, <3>2 DEF FrameLines
    <2>5. FreedLines \subseteq Memory
      <3> SUFFICES ASSUME NEW p \in FreedLines PROVE p \in Memory
        OBVIOUS
      <3>1. p \in Int /\ 0 <= p /\ p < FRAME_STORE_SIZE + VAR_STORE_SIZE
        BY <2>3, <2>4
      <3> QED
        BY <2>3, <3>1 DEF Memory, FrameZone, VarZone
    <2>6. ASSUME NEW p \in VarZone, p > LastFrameLine + 2 PROVE mem'[p] = mem[p]
      <3>1. p \in Int /\ p \in Memory
        BY <2>3, ZoneLemma DEF VarZone
      <3>2. p \notin FreedLines
        BY <2>3, <2>4, <2>6, <3>1
      <3> QED
        BY <2>2, <3>1, <3>2 DEF MemFree
    <2> QED
      BY <2>5, <2>6
  <1>2. KernelInv /\ [Next]_vars => (mode = "run" /\ mode' = "prompt"
            => /\ FreedLines \subseteq Memory
               /\ \A p \in VarZone : p > LastFrameLine + 2 => mem'[p] = mem[p])
    BY <1>1
  <1> QED
    BY <1>2, KernelInvariant, PTL DEF Spec, FreeingClearsAtMostTwo

--------------------------------------------------------------------------------
(***************************************************************************)
(* Paging and round-robin implement the execution of the scripts.          *)
(***************************************************************************)

\* The processes as ScriptRunner sees them.
Procs == [pid \in DOMAIN pcb |-> [script |-> pcb[pid].script, done |-> Done(pcb[pid])]]

LEMMA DoneLemma ==
    ASSUME PlainScripts, NEW p, GoodPCB(p)
    PROVE  Done(p) = Ran(p)
  <1>1. p.script \in Script
    BY LengthLemma
  <1> QED
    BY <1>1, CountLemma DEF Done, Ran, Length

LEMMA SameProcs ==
    ASSUME DOMAIN pcb' = DOMAIN pcb,
           \A q \in DOMAIN pcb : pcb'[q].script = pcb[q].script /\ pcb'[q].size = pcb[q].size
    PROVE  Procs' = Procs
  BY DEF Procs, Done

LEMMA RunnerInit == Init => Runner!Init
  <1> SUFFICES ASSUME Init PROVE Runner!Init
    OBVIOUS
  <1>1. DOMAIN pcb = {} /\ last = NoLine
    BY DEF Init, Empty
  <1>2. Procs = <<>>
    BY <1>1 DEF Procs
  <1> QED
    BY <1>1, <1>2 DEF Runner!Init, Procs, NoLine, Runner!NoLine

LEMMA RunnerStart ==
    ASSUME PlainScripts, KernelInv, NewProc
    PROVE  \E pid \in Pid, s \in Script : Runner!Start(pid, s)
  <1>0. PICK pid, s : pid = PID_counter /\ s = Head(args)
    OBVIOUS
  <1>1. /\ mode = "load" /\ args # <<>> /\ last' = last
        /\ pcb' = [q \in DOMAIN pcb \cup {pid} |-> IF q = pid THEN NewPCB(s) ELSE pcb[q]]
    BY <1>0 DEF NewProc
  <1>2. args \in Seq(Script) /\ PID_counter + Len(args) <= MaxPid + 1
    BY <1>1 DEF KernelInv, LoadInv
  <1>3. s \in Script /\ Len(args) \in Nat \ {0}
    BY <1>0, <1>1, <1>2
  <1>4. pid \in Nat \ {0} /\ pid \notin DOMAIN pcb
    BY <1>0 DEF KernelInv, QueueInv, PidsInv
  <1>5. pid \in Pid
    BY <1>0, <1>2, <1>3, <1>4, KernelAssumption DEF Pid
  <1>6. NewPCB(s).script = s /\ Done(NewPCB(s)) = 0
    <2>1. NewPCB(s).script = s /\ NewPCB(s).size = count_lines(s)
      BY DEF NewPCB
    <2>2. count_lines(s) \in Nat
      BY <1>3, CountLemma
    <2> QED
      BY <2>1, <2>2 DEF Done
  <1>7. DOMAIN Procs = DOMAIN pcb /\ \A q \in DOMAIN pcb :
            Procs[q] = [script |-> pcb[q].script, done |-> Done(pcb[q])]
    BY DEF Procs
  <1>8. /\ DOMAIN pcb' = DOMAIN pcb \cup {pid}
        /\ pcb'[pid] = NewPCB(s)
        /\ \A q \in DOMAIN pcb : pcb'[q] = pcb[q]
    BY <1>1, <1>4
  <1>9. Procs' = [q \in DOMAIN pcb' |-> [script |-> pcb'[q].script, done |-> Done(pcb'[q])]]
    BY DEF Procs, Done
  <1>10. Procs' = [q \in DOMAIN Procs \cup {pid} |->
                      IF q = pid THEN [script |-> s, done |-> 0] ELSE Procs[q]]
    BY <1>4, <1>6, <1>7, <1>8, <1>9
  <1>11. Runner!Start(pid, s)
    BY <1>1, <1>4, <1>7, <1>10 DEF Runner!Start, Procs
  <1> QED
    BY <1>3, <1>5, <1>11

LEMMA RunnerRunLine ==
    ASSUME PlainScripts, KernelInv, RunLine
    PROVE  \E pid \in DOMAIN Procs : Runner!RunLine(pid)
  <1>4. PICK t, i, d : t = turn.pid /\ i = CurrentPage(pcb[t]) /\ d = Ran(pcb[t])
    OBVIOUS
  <1>1. RunningFacts(t, i, d)
    BY <1>4, RunningLemma DEF RunLine
  <1>2. Stepped(pcb', t)
    BY <1>4, SteppedLemma DEF RunLine
  <1>3. last' = [pid |-> t, script |-> pcb[t].script, line |-> d + 1]
    BY <1>1, <1>4, FetchLemma DEF RunLine
  <1>5. t \in DOMAIN pcb /\ d \in Nat /\ d < Length(pcb[t]) /\ Length(pcb[t]) \in Nat
    BY <1>1 DEF RunningFacts
  <1>6. \A q \in DOMAIN pcb : Done(pcb[q]) = Ran(pcb[q])
    BY DoneLemma DEF KernelInv, PagesInv, GoodPCBs
  <1>7. \A q \in DOMAIN pcb' : Done(pcb'[q]) = Ran(pcb'[q])
    BY <1>2, DoneLemma DEF Stepped, GoodPCBs
  <1>8. DOMAIN pcb' = DOMAIN pcb
        /\ \A q \in DOMAIN pcb : /\ pcb'[q].script = pcb[q].script
                                 /\ Ran(pcb'[q]) = IF q = t THEN Ran(pcb[q]) + 1 ELSE Ran(pcb[q])
    BY <1>2 DEF Stepped
  <1>9. Procs = [q \in DOMAIN pcb |-> [script |-> pcb[q].script, done |-> Ran(pcb[q])]]
    BY <1>6 DEF Procs
  <1>10. Procs' = [q \in DOMAIN pcb |-> [script |-> pcb[q].script,
                                         done |-> IF q = t THEN d + 1 ELSE Ran(pcb[q])]]
    <2>1. Procs' = [q \in DOMAIN pcb' |-> [script |-> pcb'[q].script, done |-> Done(pcb'[q])]]
      BY DEF Procs, Done
    <2>2. \A q \in DOMAIN pcb : pcb'[q].script = pcb[q].script
                                /\ Done(pcb'[q]) = IF q = t THEN d + 1 ELSE Ran(pcb[q])
      BY <1>4, <1>7, <1>8
    <2> QED
      BY <1>8, <2>1, <2>2
  <1>11. Procs[t].script = pcb[t].script /\ Procs[t].done + 1 = d + 1
    BY <1>4, <1>5, <1>9
  <1>12. Procs' = [Procs EXCEPT ![t].done = d + 1]
    BY <1>5, <1>9, <1>10
  <1>13. d + 1 <= Len(Lines[Procs[t].script])
    BY <1>5, <1>11 DEF Length
  <1>14. Runner!RunLine(t)
    BY <1>3, <1>11, <1>12, <1>13 DEF Runner!RunLine, Procs
  <1> QED
    BY <1>5, <1>9, <1>14

LEMMA RunnerReturn ==
    ASSUME PlainScripts, KernelInv, Finish
    PROVE  Runner!Return
  <1>1. mode = "run" /\ turn = NoTurn /\ queue_done /\ last' = last /\ DOMAIN pcb' = {}
    BY DEF Finish, Empty
  <1>2. ASSUME NEW q \in DOMAIN pcb PROVE Procs[q].done = Len(Lines[Procs[q].script])
    <2>1. Ran(pcb[q]) = Length(pcb[q])
      BY <1>1, AllRunLemma
    <2>2. Done(pcb[q]) = Ran(pcb[q])
      BY DoneLemma DEF KernelInv, PagesInv, GoodPCBs
    <2>3. Procs[q] = [script |-> pcb[q].script, done |-> Done(pcb[q])]
      BY DEF Procs
    <2> QED
      BY <2>1, <2>2, <2>3 DEF Length
  <1>3. Procs' = <<>>
    BY <1>1 DEF Procs, Done
  <1>4. DOMAIN Procs = DOMAIN pcb
    BY DEF Procs
  <1> QED
    BY <1>1, <1>2, <1>3, <1>4 DEF Runner!Return, Procs

LEMMA RunnerNext ==
    ASSUME PlainScripts, KernelInv, [Next]_vars
    PROVE  [Runner!Next]_<<Procs, last>>
  <1>1. CASE User \/ NewProcFails \/ AllLoaded \/ Pop \/ UNCHANGED vars
    <2>1. pcb' = pcb
      BY <1>1, QuietLemma
    <2>2. last' = last
      BY <1>1 DEF User, SetVar, ResetMem, Exec, Quit, NewProcFails, AllLoaded, Pop, vars
    <2>3. Procs' = Procs
      BY <2>1, SameProcs
    <2> QED
      BY <2>2, <2>3
  <1>2. CASE NewProc
    BY <1>2, RunnerStart DEF Runner!Next
  <1>3. CASE FillPage
    <2>1. FillResult(turn.pid, StartPages(pcb[turn.pid]), StartPages(pcb[turn.pid]) - turn.left)
      BY <1>3, FillStep
    <2>2. DOMAIN pcb' = DOMAIN pcb
          /\ \A q \in DOMAIN pcb : pcb'[q].script = pcb[q].script /\ pcb'[q].size = pcb[q].size
      BY <2>1 DEF FillResult
    <2>3. Procs' = Procs
      BY <2>2, SameProcs
    <2> QED
      BY <1>3, <2>3 DEF FillPage
  <1>4. CASE RunLine
    BY <1>4, RunnerRunLine DEF Runner!Next, Procs
  <1>5. CASE PageFault
    <2> DEFINE t == turn.pid
               k == CurrentPage(pcb[t])
    <2>1. RunningFacts(t, k, Ran(pcb[t]))
      BY <1>5, RunningLemma DEF PageFault
    <2>2. PICK n : FaultResult(t, k, n)
      BY <1>5, <2>1, FaultResultLemma
    <2>3. DOMAIN pcb' = DOMAIN pcb
          /\ \A q \in DOMAIN pcb : pcb'[q].script = pcb[q].script /\ pcb'[q].size = pcb[q].size
      BY <2>2 DEF FaultResult
    <2>4. Procs' = Procs
      BY <2>3, SameProcs
    <2> QED
      BY <1>5, <2>4 DEF PageFault
  <1>6. CASE RunLineReturning1
    BY <1>6, NoReturn1 DEF RunLineReturning1
  <1>7. CASE Finish
    BY <1>7, RunnerReturn DEF Runner!Next
  <1> QED
    BY <1>1, <1>2, <1>3, <1>4, <1>5, <1>6, <1>7 DEF Next, Kernel

\* Paging and round-robin are invisible in what is executed: every process runs the
\* lines of its script in order, each of them once, and the prompt returns when all
\* have been run.  No command of a plain script returns 1, so that this is so to the end.
THEOREM KernelImplementsScriptRunner ==
    ASSUME PlainScripts
    PROVE  Spec => Runner!Spec /\ ImplementsScriptRunner
  <1>1. Init => Runner!Init
    BY RunnerInit
  <1>2. KernelInv /\ [Next]_vars => [Runner!Next]_(Runner!vars)
    BY RunnerNext DEF Runner!vars, Procs
  <1>3. Spec => Runner!Spec
    BY <1>1, <1>2, KernelInvariant, PTL DEF Spec, Runner!Spec
  <1>4. [Runner!Next]_(Runner!vars) => [~faked' => Runner!Next]_(Runner!vars)
    OBVIOUS
  <1>5. Runner!Spec => ImplementsScriptRunner
    BY <1>4, PTL DEF ImplementsScriptRunner, Runner!Spec
  <1> QED
    BY <1>3, <1>5

================================================================================
