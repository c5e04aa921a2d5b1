---------------------------- MODULE FrameKernelProofs ---------------------------
(***************************************************************************)
(* Proofs about FrameKernel for every memory of whole frames and every set *)
(* of scripts that run no others: however frames are taken away, no frame  *)
(* has two owners, and no process executes a line of another script. As    *)
(* long as no frame is taken away, every page is where its table says, and *)
(* the kernel implements ScriptRunner.                                     *)
(***************************************************************************)
EXTENDS FrameKernel, WellFoundedInduction, SequenceTheorems, TLAPS

\* A set of natural numbers that is not empty has a least element.
LEMMA LeastElement ==
    ASSUME NEW S \in SUBSET Nat, S # {}
    PROVE  \E i \in S : \A j \in S : i <= j
  <1>1. IsWellFoundedOn(OpToRel(<, Nat), Nat)
    BY NatLessThanWellFounded
  <1>2. PICK i \in S : \A j \in S : ~(<<j, i>> \in OpToRel(<, Nat))
    BY <1>1, WFMin
  <1>3. \A j \in S : ~(j < i)
    <2> SUFFICES ASSUME NEW j \in S, j < i PROVE FALSE
      OBVIOUS
    <2>1. <<j, i>> \in OpToRel(<, Nat)
      BY DEF OpToRel
    <2> QED
      BY <1>2, <2>1
  <1> QED
    BY <1>3

--------------------------------------------------------------------------------

\* Scripts and memory for which frames and pages fit together.
WholeFrames ==
    /\ THRESHOLD % FRAME_SIZE = 0
    /\ Trailing = {}
    /\ None \notin Script
    /\ \A s \in Script : \A k \in 1 .. Len(Lines[s]) : Lines[s][k].op # "run"

PcbOK(p) ==
    /\ p \in [script : Script, pos : Nat, tail : BOOLEAN, eof : BOOLEAN,
              page_table : [Page -> Frame \cup {-1}], PC : Int]
    /\ p.pos <= Len(Lines[p.script])

ProcsOK(ps) == \A q \in DOMAIN ps : q \in Nat \ {0} /\ PcbOK(ps[q])

\* A line of the script, or the tail of one.
OfScript(value, script) == /\ value.script = script
                           /\ value.tail \/ value.line \in 1 .. Len(Lines[script])

\* A line of a frame of a process: taken, and padding or a line of its script.
LineOK(line, script) == /\ line.var # None
                        /\ line.value = None \/ OfScript(line.value, script)

FrameOK(m, g, script) == \A j \in 0 .. 2 : LineOK(m[3 * g + j], script)

\* A frame with a hole has one on its first line.
HolesOK(m) == \A g \in Frame, j \in 0 .. 2 : m[3 * g + j].var = None => m[3 * g].var = None

OnMemory(m) == m = [k \in Mem!Memory |-> m[k]]

PagesOK(m, ps) ==
    \A q \in DOMAIN ps : \A i \in Page :
        ps[q].page_table[i] # -1 => FrameOK(m, ps[q].page_table[i], ps[q].script)

OneOwner(ps) ==
    \A q, r \in DOMAIN ps : \A i, k \in Page :
        ps[q].page_table[i] = ps[r].page_table[k] /\ ps[q].page_table[i] # -1 => q = r /\ i = k

MemOK(m, ps) == OnMemory(m) /\ HolesOK(m) /\ PagesOK(m, ps) /\ OneOwner(ps)

UsedInv == timer \in Nat /\ last_used \in [Mem!Memory -> Nat]

\* A pid is in a queue; no pid is there twice.
Has(q, pid) == \E k \in DOMAIN q : q[k] = pid

Once(q) == \A i, k \in DOMAIN q : q[i] = q[k] => i = k

Queued(pid) == Has(queue, pid)

PidsInv ==
    /\ pid_counter \in Nat \ {0}
    /\ args \in Seq(Script)
    /\ \A q \in DOMAIN procs : procs[q] \in [script : Script, done : Nat]
    /\ \A q \in DOMAIN pcb : q < pid_counter /\ q \in DOMAIN procs /\ procs[q].script = pcb[q].script
    /\ queue \in Seq(DOMAIN pcb) /\ Once(queue)
    /\ \A q \in DOMAIN pcb : q \in {turn.pid, load.pid} \/ Queued(q)
    /\ \A q \in {turn.pid, load.pid} \ {0} : q \in DOMAIN pcb /\ ~Queued(q)

StageInv ==
    /\ turn \in [pid : Nat, page : Page, left : Int] /\ load \in [pid : Nat, page : Page]
    /\ mode \in {"prompt", "args", "schedule", "init", "lost", "fault", "run", "exited", "crashed"}
    /\ mode = "args" => args # <<>>
    /\ mode \in {"prompt", "args", "schedule"} => turn = NoTurn /\ load = NoLoad
    /\ mode = "init" => turn = NoTurn /\ load.pid # 0 /\ load.page \in {0, 1}
    /\ mode = "lost" => load.pid = turn.pid /\ turn.pid # 0 /\ load.page = 0
    /\ mode = "fault" => load.pid = turn.pid /\ turn.pid # 0 /\ load.page \in Page
    /\ mode = "run" => load = NoLoad /\ turn.pid # 0

\* The program counter of the running process is on a line of its page or behind it.
InPage(p, i) == /\ i \in Page
                /\ \/ p.page_table[i] = -1 /\ p.PC = -3
                   \/ p.page_table[i] # -1 /\ p.PC \in 3 * p.page_table[i] .. 3 * p.page_table[i] + 3

RunInv == mode = "run" => InPage(pcb[turn.pid], turn.page)

FrameKernelInv == /\ UsedInv /\ PidsInv /\ StageInv /\ RunInv
                  /\ ProcsOK(pcb) /\ MemOK(mem, pcb)

--------------------------------------------------------------------------------
(***************************************************************************)
(* Frames.                                                                 *)
(***************************************************************************)

LEMMA FrameLemma ==
    ASSUME WholeFrames
    PROVE  /\ 0 \in Frame /\ Frame \in SUBSET Nat
           /\ \A g \in Frame : g * FRAME_SIZE = 3 * g
           /\ \A g \in Frame : \A j \in 0 .. 2 : 3 * g + j \in 0 .. THRESHOLD - 1
           /\ \A p \in 0 .. THRESHOLD - 1 : \E g \in Frame, j \in 0 .. 2 : p = 3 * g + j
           /\ 0 .. THRESHOLD - 1 \subseteq Mem!Memory
           /\ THRESHOLD \in Nat
           /\ \A g \in Frame : g \in Nat /\ 3 * g + 2 < THRESHOLD
           /\ \A g \in Frame : \A j \in 0 .. 2 : 3 * g + j \in Mem!Memory /\ 3 * g + j < THRESHOLD
  <1> DEFINE c == THRESHOLD \div 3
  <1>1. c \in Nat /\ THRESHOLD = 3 * c /\ c > 0 /\ Frame = 0 .. c - 1
    BY FrameKernelAssumption DEF WholeFrames, FRAME_SIZE, Frame
  <1> HIDE DEF c
  <1>2. ASSUME NEW p \in 0 .. THRESHOLD - 1 PROVE \E g \in Frame, j \in 0 .. 2 : p = 3 * g + j
    <2> DEFINE g == p \div 3
               j == p % 3
    <2>1. g \in Nat /\ j \in 0 .. 2 /\ p = 3 * g + j
      OBVIOUS
    <2> HIDE DEF g, j
    <2>2. g < c
      BY <1>1, <2>1
    <2> QED
      BY <1>1, <2>1, <2>2
  <1>3. 0 .. THRESHOLD - 1 \subseteq Mem!Memory
    BY <1>1 DEF Mem!Memory, Mem!FrameZone
  <1>4. ASSUME NEW g \in Frame, NEW j \in 0 .. 2
        PROVE  g \in Nat /\ 3 * g + 2 < THRESHOLD /\ 3 * g + j \in 0 .. THRESHOLD - 1 /\ 3 * g + j < THRESHOLD
    BY <1>1
  <1> QED
    BY <1>1, <1>2, <1>3, <1>4 DEF FRAME_SIZE

\* A line is in one frame.
LEMMA OneFrame ==
    ASSUME WholeFrames, NEW g \in Frame, NEW h \in Frame, NEW j \in 0 .. 2, NEW k \in 0 .. 2,
           3 * g + j = 3 * h + k
    PROVE  g = h /\ j = k
  <1>1. g \in Nat /\ h \in Nat
    BY FrameLemma
  <1> QED
    BY <1>1

LEMMA MinLemma ==
    ASSUME NEW S \in SUBSET Nat, S # {}
    PROVE  Min(S) \in S /\ \A x \in S : Min(S) <= x
  BY LeastElement DEF Min

\* The first hole is the first line of a frame nobody owns.
LEMMA HoleLemma ==
    ASSUME WholeFrames, HolesOK(mem), Holes # {}
    PROVE  \E g \in Frame : Min(Holes) = 3 * g /\ mem[3 * g].var = None
  <1>1. Holes \in SUBSET Nat
    BY FrameKernelAssumption DEF Holes
  <1>2. Min(Holes) \in Holes /\ \A x \in Holes : Min(Holes) <= x
    BY <1>1, MinLemma
  <1>3. PICK g \in Frame, j \in 0 .. 2 : Min(Holes) = 3 * g + j
    BY <1>2, FrameLemma DEF Holes
  <1>4. mem[3 * g].var = None
    BY <1>2, <1>3 DEF Holes, HolesOK
  <1>5. g \in Nat /\ 3 * g + 0 \in 0 .. THRESHOLD - 1
    BY FrameLemma
  <1>6. 3 * g \in Holes
    BY <1>4, <1>5 DEF Holes
  <1>7. 3 * g + j <= 3 * g
    BY <1>2, <1>3, <1>6
  <1> QED
    BY <1>3, <1>4, <1>5, <1>7

\* There is a least recently used frame.
LEMMA VictimLemma ==
    ASSUME WholeFrames, UsedInv
    PROVE  pick_victim_frame \in Frame
  <1> DEFINE S == {last_used[f * FRAME_SIZE] : f \in Frame}
  <1>1. \A f \in Frame : f * FRAME_SIZE \in Mem!Memory /\ last_used[f * FRAME_SIZE] \in Nat
    <2> SUFFICES ASSUME NEW f \in Frame PROVE f * FRAME_SIZE \in Mem!Memory
      BY DEF UsedInv
    <2>1. f * FRAME_SIZE = 3 * f /\ 3 * f + 0 \in 0 .. THRESHOLD - 1 /\ f \in Nat
      BY FrameLemma
    <2> QED
      BY <2>1, FrameLemma
  <1>2. S \in SUBSET Nat /\ S # {}
    BY <1>1, FrameLemma
  <1>3. PICK u \in S : \A v \in S : u <= v
    BY <1>2, LeastElement
  <1> DEFINE T == {f \in Frame : last_used[f * FRAME_SIZE] = u}
  <1>4. T \in SUBSET Nat /\ T # {}
    BY <1>3, FrameLemma
  <1>5. PICK f \in T : \A g \in T : f <= g
    BY <1>4, LeastElement
  <1>6. f \in Frame /\ last_used[f * FRAME_SIZE] = u
    BY <1>5
  <1>7. ASSUME NEW g \in Frame
        PROVE  \/ last_used[f * FRAME_SIZE] < last_used[g * FRAME_SIZE]
               \/ last_used[f * FRAME_SIZE] = last_used[g * FRAME_SIZE] /\ f <= g
    <2>1. u <= last_used[g * FRAME_SIZE]
      BY <1>3
    <2>2. CASE u = last_used[g * FRAME_SIZE]
      BY <1>5, <1>6, <2>2
    <2>3. CASE u # last_used[g * FRAME_SIZE]
      BY <1>1, <1>6, <2>1, <2>3
    <2> QED
      BY <2>2, <2>3
  <1> QED
    BY <1>6, <1>7 DEF pick_victim_frame

--------------------------------------------------------------------------------
(***************************************************************************)
(* load_page_into_frame_store.                                             *)
(***************************************************************************)

\* When a page is loaded.
LoadPre ==
    /\ ProcsOK(pcb) /\ MemOK(mem, pcb) /\ UsedInv
    /\ load.pid \in DOMAIN pcb /\ load.page \in Page
    /\ queue \in Seq(DOMAIN pcb)
    /\ \A q \in DOMAIN pcb : q = load.pid \/ Queued(q)
    /\ ~Queued(load.pid)

\* What fgets will deliver are lines of the process's own script.
LEMMA UnreadLemma ==
    ASSUME NEW p, PcbOK(p)
    PROVE  /\ Len(Unread(p)) \in Nat
           /\ \A k \in 1 .. Len(Unread(p)) : OfScript(Unread(p)[k], p.script)
           /\ p.pos + Len(Unread(p)) = Len(Lines[p.script]) + (IF p.tail THEN 1 ELSE 0)
  <1> DEFINE next == IF p.tail THEN p.pos ELSE p.pos + 1
             x == Len(Lines[p.script]) - next + 1
  <1>1. x \in Nat /\ p.pos + x = Len(Lines[p.script]) + (IF p.tail THEN 1 ELSE 0)
    <2>1. /\ p.pos \in Nat /\ p.tail \in BOOLEAN /\ p.script \in Script
          /\ p.pos <= Len(Lines[p.script])
      BY DEF PcbOK
    <2>2. Len(Lines[p.script]) \in Nat
      BY <2>1, FrameKernelAssumption
    <2> DEFINE l == Len(Lines[p.script])
    <2> HIDE DEF l
    <2>3. CASE p.tail
      BY <2>1, <2>2, <2>3 DEF l
    <2>4. CASE ~p.tail
      BY <2>1, <2>2, <2>4 DEF l
    <2> QED
      BY <2>3, <2>4
  <1>2. Unread(p) = [k \in 1 .. x |-> [script |-> p.script, line |-> next + k - 1,
                                       tail |-> p.tail /\ k = 1]]
    BY DEF Unread
  <1>3. /\ next \in Nat /\ (~p.tail => next > 0)
        /\ next + x = Len(Lines[p.script]) + 1 /\ Len(Lines[p.script]) \in Nat
    BY FrameKernelAssumption DEF PcbOK
  <1> HIDE DEF next, x
  <1>4. Len(Unread(p)) = x
    BY <1>1, <1>2
  <1>5. ASSUME NEW k \in 1 .. x PROVE OfScript(Unread(p)[k], p.script)
    <2>1. Unread(p)[k] = [script |-> p.script, line |-> next + k - 1, tail |-> p.tail /\ k = 1]
      BY <1>2
    <2>2. CASE p.tail /\ k = 1
      <3>1. (p.tail /\ k = 1) = TRUE
        BY <2>2
      <3>2. Unread(p)[k] = [script |-> p.script, line |-> next + k - 1, tail |-> TRUE]
        BY <2>1, <3>1
      <3> QED
        BY <3>2 DEF OfScript
    <2>3. CASE ~(p.tail /\ k = 1)
      <3>1. next + k > 1
        BY <1>1, <1>3, <2>3
      <3>2. next + k - 1 \in 1 .. Len(Lines[p.script])
        BY <1>1, <1>3, <3>1
      <3> QED
        BY <2>1, <3>2 DEF OfScript
    <2> QED
      BY <2>2, <2>3
  <1> QED
    BY <1>1, <1>4, <1>5

\* The page goes to frame g, which has a hole on its first line or is taken.
Place(r, g) ==
    /\ r.at = 3 * g
    /\ ~Loading.eof
    /\ r.n \in 0 .. 3 /\ r.n <= Len(Unread(Loading))
    /\ r.n < 3 => r.n = Len(Unread(Loading))
    /\ ~Evicts => mem[3 * g].var = None

LEMMA PlaceLemma ==
    ASSUME WholeFrames, LoadPre, NEW r \in Loads
    PROVE  \/ r.n = 0 /\ ~Evicts /\ ~EndsWith(r) /\ ~Misses(r)
           \/ \E g \in Frame : Place(r, g)
  <1>1. r.at = FirstLine /\ r.n = LinesRead(FirstLine)
    BY DEF Loads
  <1>2. CASE Loading.eof
    BY <1>1, <1>2 DEF LinesRead, Evicts, EndsWith, Misses
  <1>3. CASE ~Loading.eof
    <2>1. PICK g \in Frame : r.at = 3 * g /\ (~Evicts => mem[3 * g].var = None)
      <3>1. CASE Holes # {}
        BY <1>1, <3>1, HoleLemma DEF LoadPre, MemOK, FirstLine, Evicts
      <3>2. CASE Holes = {}
        BY <1>1, <1>3, <3>2, VictimLemma, FrameLemma DEF LoadPre, FirstLine, Evicts
      <3> QED
        BY <3>1, <3>2
    <2> DEFINE u == Len(Unread(Loading))
               S == {FRAME_SIZE, THRESHOLD - r.at, u}
    <2>2. u \in Nat
      BY UnreadLemma DEF LoadPre, ProcsOK, Loading
    <2>3. r.n = Min(S)
      BY <1>1, <1>3 DEF LinesRead
    <2> HIDE DEF u
    <2>4. g \in Nat /\ 3 * g + 2 < THRESHOLD /\ THRESHOLD \in Nat
      BY FrameLemma
    <2>5. S \in SUBSET Nat /\ S # {} /\ THRESHOLD - r.at >= 3
      BY <2>1, <2>2, <2>4 DEF FRAME_SIZE
    <2>6. r.n \in S /\ \A x \in S : r.n <= x
      BY <2>3, <2>5, MinLemma
    <2>7. r.n \in Nat /\ r.n <= 3 /\ r.n <= u /\ (r.n < 3 => r.n = u)
      BY <2>5, <2>6 DEF FRAME_SIZE
    <2>8. Place(r, g)
      BY <1>3, <2>1, <2>7 DEF Place, u
    <2> QED
      BY <2>8
  <1> QED
    BY <1>2, <1>3

LEMMA FrameLinesLemma ==
    ASSUME WholeFrames, NEW g \in Frame, NEW r, r.at = 3 * g
    PROVE  TakenFrame(r) = g /\ LinesOfFrame(g) = 3 * g .. 3 * g + 2
  <1>1. g \in Nat /\ g * FRAME_SIZE = 3 * g
    BY FrameLemma
  <1> QED
    BY <1>1 DEF TakenFrame, LinesOfFrame, FRAME_SIZE

\* The frame's three lines are the process's own, or the first one stays a hole;
\* no other line changes.
LoadedTo(m, g, n) ==
    /\ OnMemory(m)
    /\ \A p \in Mem!Memory : (\A j \in 0 .. 2 : p # 3 * g + j) => m[p] = mem[p]
    /\ n > 0 => FrameOK(m, g, Loading.script)
    /\ n = 0 => m[3 * g].var = None

LEMMA LoadedMemLemma ==
    ASSUME WholeFrames, LoadPre, NEW r, NEW g \in Frame, Place(r, g)
    PROVE  LoadedTo(LoadedMem(r), g, r.n)
  <1> DEFINE m == LoadedMem(r)
             script == Loading.script
  <1>1. /\ g \in Nat /\ r.at = 3 * g /\ r.n \in 0 .. 3
        /\ \A j \in 0 .. 2 : 3 * g + j \in Mem!Memory /\ 3 * g + j < THRESHOLD
        /\ THRESHOLD \in Nat
    BY FrameLemma DEF Place
  <1>2. PcbOK(Loading)
    BY DEF LoadPre, ProcsOK, Loading
  <1>3. script \in Script /\ script # None /\ script \notin Trailing
    BY <1>2 DEF PcbOK, WholeFrames
  <1>4. Taken(r) \subseteq 3 * g .. 3 * g + 2
    BY <1>1, FrameLinesLemma DEF Taken
  <1>5. Read(r) = 3 * g .. 3 * g + r.n - 1
    BY <1>1 DEF Read
  <1>6. /\ r.n > 0 => Padding(r) \subseteq 3 * g .. 3 * g + 2
        /\ r.n > 0 /\ r.n < 3 => Padding(r) = 3 * g + r.n .. 3 * g + 2
        /\ r.n = 0 => Padding(r) \subseteq 3 * g + 1 .. 3 * g + 2
    <2>1. r.n > 0 /\ r.n < 3 => EndsWith(r)
      BY <1>3 DEF Place, EndsWith
    <2>2. r.n = 0 => ~EndsWith(r)
      BY DEF EndsWith
    <2>3. r.n = 3 => 3 * g + r.n .. 3 * g + 2 = {} /\ 3 * g + r.n + 1 .. 3 * g + 2 = {}
      BY <1>1
    <2> QED
      BY <1>1, <2>1, <2>2, <2>3 DEF Padding
  <1>7. ASSUME NEW p \in Mem!Memory, \A j \in 0 .. 2 : p # 3 * g + j PROVE m[p] = mem[p]
    <2>1. p \notin 3 * g .. 3 * g + 2
      <3> SUFFICES ASSUME p \in 3 * g .. 3 * g + 2 PROVE FALSE
        OBVIOUS
      <3>1. p - 3 * g \in 0 .. 2 /\ p = 3 * g + (p - 3 * g)
        BY <1>1
      <3> QED
        BY <1>7, <3>1
    <2>2. p \notin Read(r) /\ p \notin Padding(r) /\ p \notin Taken(r)
      BY <1>1, <1>4, <1>5, <1>6, <2>1
    <2> QED
      BY <2>2 DEF LoadedMem
  <1>8. ASSUME r.n > 0, NEW j \in 0 .. 2 PROVE LineOK(m[3 * g + j], script)
    <2>1. 3 * g + j \in Mem!Memory
      BY <1>1
    <2>2. CASE j < r.n
      <3>1. 3 * g + j \in Read(r) /\ j + 1 \in 1 .. Len(Unread(Loading)) /\ 3 * g + j - r.at + 1 = j + 1
        <4>1. Len(Unread(Loading)) \in Nat /\ r.n <= Len(Unread(Loading))
          BY <1>2, UnreadLemma DEF Place
        <4> QED
          BY <1>1, <1>5, <2>2, <4>1
      <3>2. m[3 * g + j] = [var |-> script, value |-> Unread(Loading)[j + 1]]
        <4>1. PICK k \in Mem!Memory : k = 3 * g + j
          BY <2>1
        <4>2. k \in Read(r) /\ k - r.at + 1 = j + 1
          <5>1. k \in Read(r)
            BY <3>1, <4>1
          <5>2. k - r.at + 1 = j + 1
            BY <1>1, <4>1
          <5> QED
            BY <5>1, <5>2
        <4>3. m[k] = [var |-> script, value |-> Unread(Loading)[k - r.at + 1]]
          BY <4>2 DEF LoadedMem
        <4> QED
          BY <4>1, <4>2, <4>3
      <3>3. OfScript(Unread(Loading)[j + 1], script)
        BY <1>2, <3>1, UnreadLemma
      <3> QED
        BY <1>3, <3>2, <3>3 DEF LineOK
    <2>3. CASE ~(j < r.n)
      <3>1. r.n < 3 /\ 3 * g + j \in 3 * g + r.n .. 3 * g + 2 /\ 3 * g + j \notin Read(r)
        BY <1>1, <1>5, <2>3
      <3>2. 3 * g + j \in Padding(r)
        BY <1>6, <1>8, <3>1
      <3>3. m[3 * g + j] = [var |-> script, value |-> None]
        BY <2>1, <3>1, <3>2 DEF LoadedMem
      <3> QED
        BY <1>3, <3>3 DEF LineOK
    <2> QED
      BY <2>2, <2>3
  <1>9. ASSUME r.n = 0 PROVE m[3 * g].var = None
    <2>1. 3 * g + 0 = 3 * g /\ 3 * g \in Mem!Memory
      BY <1>1
    <2>2. 3 * g \notin Read(r) /\ 3 * g \notin Padding(r)
      BY <1>1, <1>5, <1>6, <1>9
    <2>3. m[3 * g] = IF 3 * g \in Taken(r) THEN Mem!FreeLine ELSE mem[3 * g]
      BY <2>1, <2>2 DEF LoadedMem
    <2>4. CASE Evicts
      BY <1>1, <2>3, <2>4, FrameLinesLemma DEF Taken, Mem!FreeLine
    <2>5. CASE ~Evicts
      BY <2>3, <2>5 DEF Taken, Place
    <2> QED
      BY <2>4, <2>5
  <1>10. OnMemory(m)
    BY DEF OnMemory, LoadedMem
  <1> QED
    BY <1>7, <1>8, <1>9, <1>10 DEF LoadedTo, FrameOK

\* A process that has lost pages and is otherwise as before.
Loses(p2, p) ==
    /\ p2 = [script |-> p.script, pos |-> p.pos, tail |-> p.tail, eof |-> p.eof,
             page_table |-> p2.page_table, PC |-> p.PC]
    /\ p2.page_table \in [Page -> Frame \cup {-1}]
    /\ \A i \in Page : p2.page_table[i] \in {p.page_table[i], -1}

\* Nobody has the frame any more.
FrameFree(ps, table, g) ==
    /\ DOMAIN ps = DOMAIN pcb
    /\ \A q \in DOMAIN pcb : Loses(ps[q], pcb[q])
    /\ \A q \in DOMAIN pcb : q # load.pid => \A i \in Page : ps[q].page_table[i] # g
    /\ table \in [Page -> Frame \cup {-1}]
    /\ \A i \in Page : table[i] \in {Loading.page_table[i], -1} /\ table[i] # g

LEMMA LosesNothing ==
    ASSUME NEW p, PcbOK(p)
    PROVE  Loses(p, p)
  BY DEF PcbOK, Loses

\* The first entry for a frame is cleared.
LEMMA ClearedFirstLemma ==
    ASSUME NEW table \in [Page -> Frame \cup {-1}], NEW g \in Frame, NEW i \in Page, table[i] = g,
           \A k \in Page : table[k] = g => k = i
    PROVE  /\ ClearedFirst(table, g) \in [Page -> Frame \cup {-1}]
           /\ \A k \in Page : ClearedFirst(table, g)[k] \in {table[k], -1} /\ ClearedFirst(table, g)[k] # g
  <1> DEFINE c == CHOOSE k \in Page : table[k] = g /\ \A l \in 0 .. k - 1 : table[l] # g
  <1>1. /\ Page \in SUBSET Nat
        /\ \A k \in Page : \A l \in 0 .. k - 1 : l \in Page /\ l # k
    BY FrameKernelAssumption DEF Page
  <1>2. i \in Page /\ table[i] = g /\ \A l \in 0 .. i - 1 : table[l] # g
    BY <1>1
  <1>3. c \in Page /\ table[c] = g
    BY <1>2
  <1> HIDE DEF c
  <1>4. c = i
    BY <1>3
  <1>5. ClearedFirst(table, g) = [table EXCEPT ![i] = -1]
    BY <1>4 DEF ClearedFirst, c
  <1>6. g # -1
    BY DEF Frame
  <1> QED
    BY <1>5, <1>6

\* The process in the queue that has the frame, if there is one, is told.
LEMMA ToldLemma ==
    ASSUME WholeFrames, LoadPre, NEW g \in Frame
    PROVE  /\ DOMAIN Told(g) = DOMAIN pcb
           /\ \A q \in DOMAIN pcb : Loses(Told(g)[q], pcb[q])
           /\ \A q \in DOMAIN pcb : q # load.pid => \A i \in Page : Told(g)[q].page_table[i] # g
  <1>0. /\ \A q \in DOMAIN pcb : PcbOK(pcb[q])
        /\ OneOwner(pcb)
        /\ g # -1
    BY DEF LoadPre, ProcsOK, MemOK, Frame
  <1>1. CASE Owners(g) = {}
    <2>1. Told(g) = pcb
      BY <1>1 DEF Told
    <2>2. ASSUME NEW q \in DOMAIN pcb, q # load.pid, NEW i \in Page
          PROVE  pcb[q].page_table[i] # g
      <3>1. PICK k \in DOMAIN queue : queue[k] = q
        BY <2>2 DEF LoadPre, Queued, Has
      <3> QED
        BY <1>1, <3>1 DEF Owners
    <2> QED
      BY <1>0, <2>1, <2>2, LosesNothing
  <1>2. CASE Owners(g) # {}
    <2>1. Owners(g) \in SUBSET Nat
      BY DEF Owners, LoadPre
    <2>2. PICK k \in DOMAIN queue : k = Min(Owners(g)) /\ \E i \in Page : pcb[queue[k]].page_table[i] = g
      BY <1>2, <2>1, MinLemma DEF Owners
    <2>3. PICK o \in DOMAIN pcb : o = queue[k]
      BY DEF LoadPre
    <2>4. PICK i \in Page : pcb[o].page_table[i] = g
      BY <2>2, <2>3
    <2> DEFINE table == pcb[o].page_table
    <2>5. Told(g) = [pcb EXCEPT ![o].page_table = ClearedFirst(@, g)]
      BY <1>2, <2>2, <2>3 DEF Told
    <2>6. /\ table \in [Page -> Frame \cup {-1}]
          /\ \A l \in Page : table[l] = g => l = i
      BY <1>0, <2>4 DEF PcbOK, OneOwner
    <2>7. /\ ClearedFirst(table, g) \in [Page -> Frame \cup {-1}]
          /\ \A l \in Page : ClearedFirst(table, g)[l] \in {table[l], -1} /\ ClearedFirst(table, g)[l] # g
      BY <2>4, <2>6, ClearedFirstLemma
    <2> DEFINE new == ClearedFirst(table, g)
    <2>8. /\ DOMAIN Told(g) = DOMAIN pcb
          /\ \A q \in DOMAIN pcb : q # o => Told(g)[q] = pcb[q]
          /\ Told(g)[o] = [pcb[o] EXCEPT !.page_table = new]
      BY <2>5
    <2> HIDE DEF new
    <2>9. PcbOK(pcb[o])
      BY <1>0
    <2>10. Told(g)[o] = [script |-> pcb[o].script, pos |-> pcb[o].pos, tail |-> pcb[o].tail,
                        eof |-> pcb[o].eof, page_table |-> new, PC |-> pcb[o].PC]
      BY <2>8, <2>9 DEF PcbOK
    <2>11. Loses(Told(g)[o], pcb[o])
      BY <2>7, <2>10 DEF Loses, new
    <2>12. \A l \in Page : Told(g)[o].page_table[l] # g
      BY <2>7, <2>10 DEF new
    <2>13. ASSUME NEW q \in DOMAIN pcb, q # o, NEW l \in Page PROVE pcb[q].page_table[l] # g
      BY <1>0, <2>4, <2>13 DEF OneOwner
    <2> QED
      BY <1>0, <2>8, <2>11, <2>12, <2>13, LosesNothing
  <1> QED
    BY <1>1, <1>2

LEMMA FrameFreeLemma ==
    ASSUME WholeFrames, LoadPre, NEW r, NEW g \in Frame, Place(r, g)
    PROVE  FrameFree(Others(r), OwnTable(r), g)
  <1>1. TakenFrame(r) = g /\ g # -1 /\ g \in Nat
    BY FrameLinesLemma, FrameLemma DEF Place
  <1>2. /\ \A q \in DOMAIN pcb : PcbOK(pcb[q])
        /\ Loading \in {pcb[q] : q \in DOMAIN pcb}
        /\ Loading.page_table \in [Page -> Frame \cup {-1}]
    BY DEF LoadPre, ProcsOK, Loading, PcbOK
  <1>3. CASE Evicts
    <2>1. Others(r) = Told(g) /\ OwnTable(r) = Cleared(Loading.page_table, g)
      BY <1>1, <1>3 DEF Others, OwnTable
    <2>2. OwnTable(r) = [i \in Page |-> IF Loading.page_table[i] = g THEN -1 ELSE Loading.page_table[i]]
      BY <2>1 DEF Cleared
    <2>3. OwnTable(r) \in [Page -> Frame \cup {-1}]
      BY <1>2, <2>2
    <2>4. \A i \in Page : OwnTable(r)[i] \in {Loading.page_table[i], -1} /\ OwnTable(r)[i] # g
      BY <1>1, <2>2
    <2> QED
      BY <2>1, <2>3, <2>4, ToldLemma DEF FrameFree
  <1>4. CASE ~Evicts
    <2>1. Others(r) = pcb /\ OwnTable(r) = Loading.page_table
      BY <1>4 DEF Others, OwnTable
    <2>2. mem[3 * g].var = None
      BY <1>4 DEF Place
    <2>3. ASSUME NEW q \in DOMAIN pcb, NEW i \in Page PROVE pcb[q].page_table[i] # g
      <3> SUFFICES ASSUME pcb[q].page_table[i] = g PROVE FALSE
        OBVIOUS
      <3>1. FrameOK(mem, g, pcb[q].script)
        BY <1>1 DEF LoadPre, MemOK, PagesOK
      <3>2. mem[3 * g + 0].var # None /\ 3 * g + 0 = 3 * g
        BY <1>1, <3>1 DEF FrameOK, LineOK
      <3> QED
        BY <2>2, <3>2
    <2> QED
      BY <1>2, <2>1, <2>3, LosesNothing DEF FrameFree
  <1> QED
    BY <1>3, <1>4

\* What becomes of the process that loads, but for the page table.
LEMMA LoadedLemma ==
    ASSUME LoadPre, NEW r, r.n \in Nat, r.n <= Len(Unread(Loading)),
           NEW table \in [Page -> Frame \cup {-1}],
           Loaded(r).page_table = table
    PROVE  /\ PcbOK(Loaded(r))
           /\ Loaded(r).script = Loading.script /\ Loaded(r).PC = Loading.PC
  <1>1. PcbOK(Loading)
    BY DEF LoadPre, ProcsOK, Loading
  <1>2. /\ Loading = [script |-> Loading.script, pos |-> Loading.pos, tail |-> Loading.tail,
                      eof |-> Loading.eof, page_table |-> Loading.page_table, PC |-> Loading.PC]
        /\ Loading.script \in Script /\ Loading.pos \in Nat /\ Loading.PC \in Int
        /\ Loading.tail \in BOOLEAN /\ Loading.eof \in BOOLEAN
        /\ Loading.pos <= Len(Lines[Loading.script])
    BY <1>1 DEF PcbOK
  <1> DEFINE pos == Loading.pos + r.n - (IF Loading.tail /\ r.n > 0 THEN 1 ELSE 0)
             tail == Loading.tail /\ r.n = 0
             eof == Loading.eof \/ EndsWith(r) \/ Misses(r)
  <1>3. pos \in Nat /\ pos <= Len(Lines[Loading.script])
    <2> DEFINE l == Len(Lines[Loading.script])
               u == Len(Unread(Loading))
    <2>1. l \in Nat
      BY <1>2, FrameKernelAssumption
    <2>2. u \in Nat /\ Loading.pos + u = l + (IF Loading.tail THEN 1 ELSE 0)
      BY <1>1, UnreadLemma
    <2> HIDE DEF l, u
    <2>3. r.n \in Nat /\ r.n <= u /\ Loading.pos <= l
      BY <1>2 DEF l, u
    <2> SUFFICES pos \in Nat /\ pos <= l
      BY DEF l
    <2> DEFINE n == r.n
               p == Loading.pos
    <2>4. n \in Nat /\ p \in Nat /\ n <= u /\ p <= l /\ p + u = l + (IF Loading.tail THEN 1 ELSE 0)
      BY <1>2, <2>2, <2>3
    <2> SUFFICES LET c == p + n - (IF Loading.tail /\ n > 0 THEN 1 ELSE 0) IN c \in Nat /\ c <= l
      OBVIOUS
    <2> HIDE DEF n, p
    <2>5. CASE Loading.tail
      BY <2>1, <2>2, <2>4, <2>5
    <2>6. CASE ~Loading.tail
      BY <2>1, <2>2, <2>4, <2>6
    <2> QED
      BY <2>5, <2>6
  <1>4. tail \in BOOLEAN /\ eof \in BOOLEAN
    BY <1>2 DEF EndsWith, Misses
  <1>5. Loaded(r) = [script |-> Loading.script, pos |-> pos, tail |-> tail, eof |-> eof,
                     page_table |-> table, PC |-> Loading.PC]
    <2> DEFINE T == IF r.n > 0 THEN [OwnTable(r) EXCEPT ![load.page] = TakenFrame(r)] ELSE OwnTable(r)
    <2>1. Loaded(r) = [Loading EXCEPT !.pos = pos, !.tail = tail, !.eof = eof, !.page_table = T]
      BY DEF Loaded
    <2> HIDE DEF pos, tail, eof, T
    <2>2. Loaded(r) = [script |-> Loading.script, pos |-> pos, tail |-> tail, eof |-> eof,
                       page_table |-> T, PC |-> Loading.PC]
      BY <1>2, <2>1
    <2>3. T = table
      BY <2>2
    <2> QED
      BY <2>2, <2>3
  <1> HIDE DEF pos, tail, eof
  <1> QED
    BY <1>2, <1>3, <1>4, <1>5 DEF PcbOK

\* After a page was loaded.
LoadPost(r, m, others, p) ==
    /\ DOMAIN others = DOMAIN pcb
    /\ \A q \in DOMAIN pcb : Loses(others[q], pcb[q])
    /\ PcbOK(p) /\ p.script = Loading.script /\ p.PC = Loading.PC
    /\ r.n > 0 => p.page_table[load.page] \in Frame
    /\ MemOK(m, With(others, load.pid, p))

LEMMA LoadLemma ==
    ASSUME WholeFrames, LoadPre, NEW r \in Loads
    PROVE  LoadPost(r, LoadedMem(r), Others(r), Loaded(r))
  <1> DEFINE m == LoadedMem(r)
             others == Others(r)
             ps == With(others, load.pid, Loaded(r))
  <1>0. /\ \A q \in DOMAIN pcb : PcbOK(pcb[q])
        /\ PcbOK(Loading) /\ Loading = pcb[load.pid] /\ load.pid \in DOMAIN pcb /\ load.page \in Page
        /\ OnMemory(mem) /\ HolesOK(mem) /\ PagesOK(mem, pcb) /\ OneOwner(pcb)
    BY DEF LoadPre, ProcsOK, Loading, MemOK
  <1>1. CASE r.n = 0 /\ ~Evicts /\ ~EndsWith(r) /\ ~Misses(r)
    <2>1. others = pcb /\ OwnTable(r) = Loading.page_table /\ Loaded(r).page_table = Loading.page_table
      <3>1. others = pcb /\ OwnTable(r) = Loading.page_table
        BY <1>1 DEF Others, OwnTable
      <3> QED
        BY <1>0, <1>1, <3>1 DEF Loaded, PcbOK
    <2>2. Read(r) = {} /\ Padding(r) = {} /\ Taken(r) = {}
      <3>1. r.at \in Int
        <4>1. r.at = FirstLine
          BY DEF Loads
        <4>2. CASE Holes # {}
          <5>1. PICK g \in Frame : Min(Holes) = 3 * g
            BY <1>0, <4>2, HoleLemma
          <5>2. g \in Nat
            BY FrameLemma
          <5> QED
            BY <4>1, <4>2, <5>1, <5>2 DEF FirstLine
        <4>3. CASE Holes = {}
          <5>1. THRESHOLD \in Nat
            BY FrameLemma
          <5> QED
            BY <1>1, <4>1, <4>3, <5>1 DEF FirstLine
        <4> QED
          BY <4>2, <4>3
      <3> QED
        BY <1>1, <3>1 DEF Read, Padding, Taken
    <2>3. m = [k \in Mem!Memory |-> mem[k]]
      BY <2>2 DEF LoadedMem
    <2>4. m = mem
      BY <1>0, <2>3 DEF OnMemory
    <2>5. PcbOK(Loaded(r)) /\ Loaded(r).script = Loading.script /\ Loaded(r).PC = Loading.PC
      <3>1. Loading.page_table \in [Page -> Frame \cup {-1}]
        BY <1>0 DEF PcbOK
      <3>2. r.n \in Nat /\ r.n <= Len(Unread(Loading))
        BY <1>0, <1>1, UnreadLemma
      <3> QED
        BY <2>1, <3>1, <3>2, LoadedLemma
    <2>6. /\ DOMAIN ps = DOMAIN pcb
          /\ \A q \in DOMAIN pcb : ps[q].script = pcb[q].script /\ ps[q].page_table = pcb[q].page_table
      BY <1>0, <2>1, <2>5 DEF With
    <2> HIDE DEF ps, others, m
    <2>7. MemOK(m, ps)
      BY <1>0, <2>4, <2>6 DEF MemOK, PagesOK, OneOwner
    <2>8. \A q \in DOMAIN pcb : Loses(others[q], pcb[q])
      BY <1>0, <2>1, LosesNothing
    <2> QED
      BY <1>1, <2>1, <2>5, <2>7, <2>8 DEF LoadPost, ps, others, m
  <1>2. ASSUME NEW g \in Frame, Place(r, g) PROVE LoadPost(r, m, others, Loaded(r))
    <2> DEFINE own == OwnTable(r)
               table == IF r.n > 0 THEN [own EXCEPT ![load.page] = g] ELSE own
    <2>1. LoadedTo(m, g, r.n)
      BY <1>2, LoadedMemLemma
    <2>2. FrameFree(others, own, g)
      BY <1>2, FrameFreeLemma
    <2>3. g # -1 /\ g \in Nat /\ r.n \in 0 .. 3 /\ r.n <= Len(Unread(Loading)) /\ TakenFrame(r) = g
      <3>1. g \in Nat
        BY FrameLemma
      <3>2. r.at = 3 * g /\ r.n \in 0 .. 3 /\ r.n <= Len(Unread(Loading))
        BY <1>2 DEF Place
      <3>3. TakenFrame(r) = g
        BY <3>2, FrameLinesLemma
      <3> QED
        BY <3>1, <3>2, <3>3
    <2>4. own \in [Page -> Frame \cup {-1}] /\ \A i \in Page : own[i] \in {Loading.page_table[i], -1} /\ own[i] # g
      BY <2>2 DEF FrameFree
    <2> HIDE DEF own, others, m
    <2>5. table \in [Page -> Frame \cup {-1}]
      BY <1>0, <2>4
    <2>6. /\ r.n > 0 => table[load.page] = g
          /\ \A i \in Page : i # load.page \/ r.n = 0 => table[i] = own[i]
      BY <1>0, <2>3, <2>4
    <2>7. Loaded(r).page_table = table
      BY <1>0, <2>3 DEF Loaded, PcbOK, own
    <2> HIDE DEF table
    <2>8. PcbOK(Loaded(r)) /\ Loaded(r).script = Loading.script /\ Loaded(r).PC = Loading.PC
      BY <2>3, <2>5, <2>7, LoadedLemma
    <2>9. /\ DOMAIN ps = DOMAIN pcb
          /\ ps[load.pid].script = pcb[load.pid].script
          /\ ps[load.pid].page_table = table
          /\ \A q \in DOMAIN pcb : q # load.pid => ps[q] = others[q]
      BY <1>0, <2>2, <2>7, <2>8 DEF With, FrameFree
    <2> HIDE DEF ps
    <2>10. ASSUME NEW q \in DOMAIN pcb
           PROVE  /\ ps[q].script = pcb[q].script
                  /\ \A i \in Page : \/ q = load.pid /\ i = load.page /\ r.n > 0 /\ ps[q].page_table[i] = g
                                     \/ /\ ps[q].page_table[i] # g
                                        /\ ps[q].page_table[i] \in {pcb[q].page_table[i], -1}
      <3>1. CASE q = load.pid
        BY <1>0, <2>3, <2>4, <2>6, <2>9, <3>1
      <3>2. CASE q # load.pid
        <4>1. ps[q] = others[q] /\ Loses(others[q], pcb[q]) /\ \A i \in Page : others[q].page_table[i] # g
          BY <2>2, <2>9, <3>2 DEF FrameFree
        <4>2. ps[q].script = pcb[q].script /\ \A i \in Page : ps[q].page_table[i] \in {pcb[q].page_table[i], -1}
          BY <4>1 DEF Loses
        <4> QED
          BY <4>1, <4>2
      <3> QED
        BY <3>1, <3>2
    <2>11. ASSUME NEW h \in Frame, h # g, NEW j \in 0 .. 2 PROVE m[3 * h + j] = mem[3 * h + j]
      <3>1. 3 * h + j \in Mem!Memory
        BY FrameLemma
      <3>2. \A k \in 0 .. 2 : 3 * h + j # 3 * g + k
        BY <2>11, OneFrame
      <3> QED
        BY <2>1, <3>1, <3>2 DEF LoadedTo
    <2>12. PagesOK(m, ps)
      <3> SUFFICES ASSUME NEW q \in DOMAIN pcb, NEW i \in Page, ps[q].page_table[i] # -1
                   PROVE  FrameOK(m, ps[q].page_table[i], ps[q].script)
        BY <2>9 DEF PagesOK
      <3>1. CASE ps[q].page_table[i] = g
        <4>1. q = load.pid /\ r.n > 0 /\ ps[q].script = Loading.script
          BY <1>0, <2>10, <3>1
        <4> QED
          BY <2>1, <3>1, <4>1 DEF LoadedTo
      <3>2. CASE ps[q].page_table[i] # g
        <4>1. PICK h : h = ps[q].page_table[i]
          OBVIOUS
        <4>2. h = pcb[q].page_table[i] /\ h # -1 /\ h # g /\ ps[q].script = pcb[q].script
          BY <2>10, <3>2, <4>1
        <4>3. h \in Frame
          BY <1>0, <4>2 DEF PcbOK
        <4>4. FrameOK(mem, h, pcb[q].script)
          BY <1>0, <4>2 DEF PagesOK
        <4>5. FrameOK(m, h, pcb[q].script)
          BY <2>11, <4>2, <4>3, <4>4 DEF FrameOK
        <4> QED
          BY <4>1, <4>2, <4>5
      <3> QED
        BY <3>1, <3>2
    <2>13. OneOwner(ps)
      <3> SUFFICES ASSUME NEW q \in DOMAIN pcb, NEW s \in DOMAIN pcb, NEW i \in Page, NEW k \in Page,
                          ps[q].page_table[i] = ps[s].page_table[k], ps[q].page_table[i] # -1
                   PROVE  q = s /\ i = k
        BY <2>9 DEF OneOwner
      <3>1. CASE ps[q].page_table[i] = g
        BY <2>10, <3>1
      <3>2. CASE ps[q].page_table[i] # g
        <4>1. ps[q].page_table[i] = pcb[q].page_table[i] /\ ps[s].page_table[k] = pcb[s].page_table[k]
          BY <2>10, <3>2
        <4>2. pcb[q].page_table[i] = pcb[s].page_table[k] /\ pcb[q].page_table[i] # -1
          BY <4>1
        <4>3. OneOwner(pcb)
          BY <1>0
        <4> QED
          BY <4>2, <4>3 DEF OneOwner
      <3> QED
        BY <3>1, <3>2
    <2>14. HolesOK(m)
      <3> SUFFICES ASSUME NEW h \in Frame, NEW j \in 0 .. 2, m[3 * h + j].var = None
                   PROVE  m[3 * h].var = None
        BY DEF HolesOK
      <3>1. CASE h = g
        BY <2>1, <2>3, <3>1 DEF LoadedTo, FrameOK, LineOK
      <3>2. CASE h # g
        <4>1. m[3 * h + j] = mem[3 * h + j] /\ m[3 * h + 0] = mem[3 * h + 0] /\ 3 * h + 0 = 3 * h
          BY <2>11, <3>2, FrameLemma
        <4> QED
          BY <1>0, <4>1 DEF HolesOK
      <3> QED
        BY <3>1, <3>2
    <2>15. MemOK(m, ps)
      BY <2>1, <2>12, <2>13, <2>14 DEF MemOK, LoadedTo
    <2>16. r.n > 0 => Loaded(r).page_table[load.page] \in Frame
      BY <2>6, <2>7
    <2> QED
      BY <2>2, <2>8, <2>15, <2>16 DEF LoadPost, FrameFree, ps
  <1> QED
    BY <1>1, <1>2, PlaceLemma

--------------------------------------------------------------------------------
(***************************************************************************)
(* The ready queue.                                                        *)
(***************************************************************************)

LEMMA SeqIn ==
    ASSUME NEW S, NEW q \in Seq(S), NEW T, \A k \in DOMAIN q : q[k] \in T
    PROVE  q \in Seq(T)
  <1>1. Len(q) \in Nat /\ DOMAIN q = 1 .. Len(q) /\ q = [k \in 1 .. Len(q) |-> q[k]]
    OBVIOUS
  <1>2. q \in [1 .. Len(q) -> T]
    BY <1>1
  <1> QED
    BY <1>1, <1>2

LEMMA AppendLemma ==
    ASSUME NEW S, NEW q \in Seq(S), NEW x \in S, Once(q), ~Has(q, x)
    PROVE  /\ Append(q, x) \in Seq(S) /\ Once(Append(q, x))
           /\ \A y : Has(Append(q, x), y) <=> Has(q, y) \/ y = x
  <1> DEFINE n == Len(q)
             p == Append(q, x)
  <1>1. n \in Nat /\ DOMAIN q = 1 .. n /\ p \in Seq(S)
    OBVIOUS
  <1>2. DOMAIN p = 1 .. n + 1 /\ p[n + 1] = x /\ \A k \in 1 .. n : p[k] = q[k]
    OBVIOUS
  <1> HIDE DEF p, n
  <1>3. ASSUME NEW i \in DOMAIN p, NEW k \in DOMAIN p, p[i] = p[k] PROVE i = k
    <2>1. CASE i \in 1 .. n /\ k \in 1 .. n
      BY <1>1, <1>2, <1>3, <2>1 DEF Once
    <2>2. CASE i = n + 1 /\ k \in 1 .. n
      BY <1>1, <1>2, <1>3, <2>2 DEF Has
    <2>3. CASE k = n + 1 /\ i \in 1 .. n
      BY <1>1, <1>2, <1>3, <2>3 DEF Has
    <2> QED
      BY <1>1, <1>2, <2>1, <2>2, <2>3
  <1>4. ASSUME NEW y PROVE Has(p, y) <=> Has(q, y) \/ y = x
    BY <1>1, <1>2 DEF Has
  <1> QED
    BY <1>1, <1>3, <1>4 DEF Once, p

LEMMA TailLemma ==
    ASSUME NEW S, NEW q \in Seq(S), q # <<>>, Once(q)
    PROVE  /\ Head(q) \in S /\ Tail(q) \in Seq(S) /\ Once(Tail(q)) /\ ~Has(Tail(q), Head(q))
           /\ \A y : Has(q, y) <=> Has(Tail(q), y) \/ y = Head(q)
  <1> DEFINE n == Len(q)
             p == Tail(q)
  <1>1. n \in Nat /\ n > 0 /\ DOMAIN q = 1 .. n /\ p \in Seq(S) /\ Head(q) = q[1] /\ q[1] \in S
    OBVIOUS
  <1>2. DOMAIN p = 1 .. n - 1 /\ \A k \in 1 .. n - 1 : p[k] = q[k + 1]
    OBVIOUS
  <1> HIDE DEF p, n
  <1>3. ASSUME NEW i \in DOMAIN p, NEW k \in DOMAIN p, p[i] = p[k] PROVE i = k
    <2>1. i + 1 \in DOMAIN q /\ k + 1 \in DOMAIN q /\ q[i + 1] = q[k + 1] /\ i \in Int /\ k \in Int
      BY <1>1, <1>2, <1>3
    <2>2. i + 1 = k + 1
      BY <2>1 DEF Once
    <2> QED
      BY <2>1, <2>2
  <1>4. ~Has(p, q[1])
    <2> SUFFICES ASSUME NEW k \in DOMAIN p, p[k] = q[1] PROVE FALSE
      BY DEF Has
    <2>1. k + 1 \in DOMAIN q /\ 1 \in DOMAIN q /\ q[k + 1] = q[1] /\ k + 1 # 1
      BY <1>1, <1>2
    <2> QED
      BY <2>1 DEF Once
  <1>5. ASSUME NEW y, Has(q, y) PROVE Has(p, y) \/ y = q[1]
    <2>1. PICK k \in DOMAIN q : q[k] = y
      BY <1>5 DEF Has
    <2>2. CASE k = 1
      BY <2>1, <2>2
    <2>3. CASE k # 1
      <3>1. k - 1 \in DOMAIN p /\ (k - 1) + 1 = k
        BY <1>1, <1>2, <2>3
      <3>2. p[k - 1] = y
        BY <1>2, <2>1, <3>1
      <3> QED
        BY <3>1, <3>2 DEF Has
    <2> QED
      BY <2>2, <2>3
  <1>6. ASSUME NEW y, Has(p, y) \/ y = q[1] PROVE Has(q, y)
    <2>1. CASE y = q[1]
      BY <1>1, <2>1 DEF Has
    <2>2. CASE Has(p, y)
      <3>1. PICK k \in DOMAIN p : p[k] = y
        BY <2>2 DEF Has
      <3>2. k + 1 \in DOMAIN q /\ q[k + 1] = y
        BY <1>1, <1>2, <3>1
      <3> QED
        BY <3>2 DEF Has
    <2> QED
      BY <1>6, <2>1, <2>2
  <1> QED
    BY <1>1, <1>3, <1>4, <1>5, <1>6 DEF Once, p

\* When a page is missing, the same processes wait, in another order.
LEMMA RotatedLemma ==
    ASSUME NEW S, NEW q \in Seq(S), Once(q)
    PROVE  /\ Rotated(q) \in Seq(S) /\ Once(Rotated(q))
           /\ \A y : Has(Rotated(q), y) <=> Has(q, y)
  <1>1. CASE q = <<>>
    BY <1>1 DEF Rotated
  <1>2. CASE q # <<>>
    <2>1. /\ Head(q) \in S /\ Tail(q) \in Seq(S) /\ Once(Tail(q)) /\ ~Has(Tail(q), Head(q))
          /\ \A y : Has(q, y) <=> Has(Tail(q), y) \/ y = Head(q)
      BY <1>2, TailLemma
    <2>2. Rotated(q) = Append(Tail(q), Head(q))
      BY <1>2 DEF Rotated
    <2> DEFINE t == Tail(q)
               x == Head(q)
    <2>3. t \in Seq(S) /\ x \in S /\ Once(t) /\ ~Has(t, x)
      BY <2>1
    <2> HIDE DEF t, x
    <2>4. /\ Append(t, x) \in Seq(S) /\ Once(Append(t, x))
          /\ \A y : Has(Append(t, x), y) <=> Has(t, y) \/ y = x
      BY <2>3, AppendLemma
    <2> QED
      BY <2>1, <2>2, <2>4 DEF t, x
  <1> QED
    BY <1>1, <1>2

--------------------------------------------------------------------------------
(***************************************************************************)
(* What keeps the memory right.                                            *)
(***************************************************************************)

\* A process may lose pages or go, and a new one has none.
LEMMA ForgetLemma ==
    ASSUME NEW m, NEW old, NEW new, MemOK(m, old),
           \A q \in DOMAIN new :
               \/ \A i \in Page : new[q].page_table[i] = -1
               \/ /\ q \in DOMAIN old /\ new[q].script = old[q].script
                  /\ \A i \in Page : new[q].page_table[i] \in {old[q].page_table[i], -1}
    PROVE  MemOK(m, new)
  <1>1. ASSUME NEW q \in DOMAIN new, NEW i \in Page, new[q].page_table[i] # -1
        PROVE  /\ q \in DOMAIN old /\ new[q].script = old[q].script
               /\ new[q].page_table[i] = old[q].page_table[i]
    BY <1>1
  <1>2. PagesOK(m, new)
    <2> SUFFICES ASSUME NEW q \in DOMAIN new, NEW i \in Page, new[q].page_table[i] # -1
                 PROVE  FrameOK(m, new[q].page_table[i], new[q].script)
      BY DEF PagesOK
    <2>1. q \in DOMAIN old /\ new[q].script = old[q].script /\ new[q].page_table[i] = old[q].page_table[i]
      BY <1>1
    <2>2. FrameOK(m, old[q].page_table[i], old[q].script)
      BY <2>1 DEF MemOK, PagesOK
    <2> QED
      BY <2>1, <2>2
  <1>3. OneOwner(new)
    <2> SUFFICES ASSUME NEW q \in DOMAIN new, NEW r \in DOMAIN new, NEW i \in Page, NEW k \in Page,
                        new[q].page_table[i] = new[r].page_table[k], new[q].page_table[i] # -1
                 PROVE  q = r /\ i = k
      BY DEF OneOwner
    <2>1. q \in DOMAIN old /\ new[q].page_table[i] = old[q].page_table[i]
      BY <1>1
    <2>2. r \in DOMAIN old /\ new[r].page_table[k] = old[r].page_table[k]
      BY <1>1
    <2>3. old[q].page_table[i] = old[r].page_table[k] /\ old[q].page_table[i] # -1
      BY <2>1, <2>2
    <2>4. OneOwner(old)
      BY DEF MemOK
    <2> QED
      BY <2>1, <2>2, <2>3, <2>4 DEF OneOwner
  <1> QED
    BY <1>2, <1>3 DEF MemOK

\* The frames of a memory are those of another.
SameFrames(m, n) == OnMemory(n) /\ \A p \in 0 .. THRESHOLD - 1 : n[p] = m[p]

LEMMA SameFramesLemma ==
    ASSUME WholeFrames, NEW m, NEW n, NEW ps, MemOK(m, ps), ProcsOK(ps), SameFrames(m, n)
    PROVE  MemOK(n, ps)
  <1>1. ASSUME NEW g \in Frame, NEW j \in 0 .. 2 PROVE n[3 * g + j] = m[3 * g + j]
    <2>1. 3 * g + j \in 0 .. THRESHOLD - 1
      BY FrameLemma
    <2> QED
      BY <2>1 DEF SameFrames
  <1>2. HolesOK(n)
    <2> SUFFICES ASSUME NEW g \in Frame, NEW j \in 0 .. 2, n[3 * g + j].var = None
                 PROVE  n[3 * g].var = None
      BY DEF HolesOK
    <2>1. m[3 * g].var = None
      BY <1>1 DEF MemOK, HolesOK
    <2>2. 3 * g + 0 = 3 * g /\ n[3 * g + 0] = m[3 * g + 0]
      BY <1>1, FrameLemma
    <2> QED
      BY <2>1, <2>2
  <1>3. PagesOK(n, ps)
    <2> SUFFICES ASSUME NEW q \in DOMAIN ps, NEW i \in Page, ps[q].page_table[i] # -1
                 PROVE  FrameOK(n, ps[q].page_table[i], ps[q].script)
      BY DEF PagesOK
    <2>1. ps[q].page_table[i] \in Frame
      BY DEF ProcsOK, PcbOK
    <2>2. FrameOK(m, ps[q].page_table[i], ps[q].script)
      BY DEF MemOK, PagesOK
    <2> QED
      BY <1>1, <2>1, <2>2 DEF FrameOK
  <1> QED
    BY <1>2, <1>3 DEF MemOK, SameFrames

\* set and resetmem leave the frames alone.
LEMMA SetValueLemma ==
    ASSUME WholeFrames, OnMemory(mem), NEW v, NEW x
    PROVE  SameFrames(mem, Mem!MemSetValue(mem, v, x))
  <1>1. /\ Mem!VarZone \subseteq Nat /\ Mem!VarZone \subseteq Mem!Memory
        /\ \A p \in 0 .. THRESHOLD - 1 : p \notin Mem!VarZone
    BY FrameKernelAssumption DEF Mem!VarZone, Mem!Memory
  <1>2. ASSUME NEW w, Mem!LinesOf(mem, w) # {}
        PROVE  Mem!First(Mem!LinesOf(mem, w)) \in Mem!VarZone
    <2>1. Mem!LinesOf(mem, w) \in SUBSET Nat
      BY <1>1 DEF Mem!LinesOf
    <2>2. PICK k \in Mem!LinesOf(mem, w) : \A l \in Mem!LinesOf(mem, w) : k <= l
      BY <1>2, <2>1, LeastElement
    <2>3. Mem!First(Mem!LinesOf(mem, w)) \in Mem!LinesOf(mem, w)
      BY <2>2 DEF Mem!First
    <2> QED
      BY <2>3 DEF Mem!LinesOf
  <1> DEFINE n == Mem!MemSetValue(mem, v, x)
             a == Mem!First(Mem!LinesOf(mem, v))
             b == Mem!First(Mem!LinesOf(mem, None))
  <1>3. CASE Mem!LinesOf(mem, v) # {}
    <2>1. n = [mem EXCEPT ![a].value = x]
      BY <1>3 DEF Mem!MemSetValue
    <2>2. a \in Mem!VarZone
      BY <1>2, <1>3
    <2> HIDE DEF n, a
    <2>3. n = [k \in Mem!Memory |-> IF k = a THEN [mem[a] EXCEPT !.value = x] ELSE mem[k]]
      BY <1>1, <2>1, <2>2 DEF OnMemory
    <2>4. OnMemory(n)
      BY <2>3 DEF OnMemory
    <2>5. \A p \in 0 .. THRESHOLD - 1 : n[p] = mem[p]
      BY <1>1, <2>2, <2>3, FrameLemma
    <2> QED
      BY <2>4, <2>5 DEF SameFrames, n
  <1>4. CASE Mem!LinesOf(mem, v) = {} /\ Mem!LinesOf(mem, None) # {}
    <2>1. n = [mem EXCEPT ![b] = [var |-> v, value |-> x]]
      BY <1>4 DEF Mem!MemSetValue
    <2>2. b \in Mem!VarZone
      BY <1>2, <1>4
    <2> HIDE DEF n, b
    <2>3. n = [k \in Mem!Memory |-> IF k = b THEN [var |-> v, value |-> x] ELSE mem[k]]
      BY <1>1, <2>1, <2>2 DEF OnMemory
    <2>4. OnMemory(n)
      BY <2>3 DEF OnMemory
    <2>5. \A p \in 0 .. THRESHOLD - 1 : n[p] = mem[p]
      BY <1>1, <2>2, <2>3, FrameLemma
    <2> QED
      BY <2>4, <2>5 DEF SameFrames, n
  <1>5. CASE Mem!LinesOf(mem, v) = {} /\ Mem!LinesOf(mem, None) = {}
    <2>1. n = mem
      BY <1>5 DEF Mem!MemSetValue
    <2> HIDE DEF n
    <2> QED
      BY <2>1 DEF SameFrames, n
  <1> QED
    BY <1>3, <1>4, <1>5

LEMMA ResetLemma ==
    ASSUME WholeFrames, OnMemory(mem)
    PROVE  SameFrames(mem, Mem!ResetVarZone(mem))
  <1>1. \A p \in 0 .. THRESHOLD - 1 : p \notin Mem!VarZone /\ p \in Mem!Memory
    BY FrameKernelAssumption, FrameLemma DEF Mem!VarZone
  <1>2. Mem!ResetVarZone(mem) = [p \in Mem!Memory |-> IF p \in Mem!VarZone THEN Mem!FreeLine ELSE mem[p]]
    BY DEF Mem!ResetVarZone, Mem!MemFree
  <1> QED
    BY <1>1, <1>2 DEF SameFrames, OnMemory

LEMMA EffectLemma ==
    ASSUME WholeFrames, OnMemory(mem), NEW cmd
    PROVE  SameFrames(mem, Effect(mem, cmd))
  <1>1. CASE cmd.op = "set"
    <2>1. Effect(mem, cmd) = Mem!MemSetValue(mem, cmd.var, cmd.val)
      BY <1>1 DEF Effect
    <2> QED
      BY <2>1, SetValueLemma
  <1>2. CASE cmd.op = "resetmem"
    <2>1. Effect(mem, cmd) = Mem!ResetVarZone(mem)
      BY <1>2 DEF Effect
    <2> QED
      BY <2>1, ResetLemma
  <1>3. CASE cmd.op # "set" /\ cmd.op # "resetmem"
    <2>1. Effect(mem, cmd) = mem
      BY <1>3 DEF Effect
    <2> QED
      BY <2>1 DEF SameFrames
  <1> QED
    BY <1>1, <1>2, <1>3

--------------------------------------------------------------------------------
(***************************************************************************)
(* What the steps have in common.                                          *)
(***************************************************************************)

\* A line more in the history of a process.
HistoryKept ==
    /\ DOMAIN procs' = DOMAIN procs
    /\ \A q \in DOMAIN procs : procs'[q] \in [script : Script, done : Nat] /\ procs'[q].script = procs[q].script

\* Who waits and who runs: what a step has to see to.
PidsKept ==
    /\ pid_counter' = pid_counter /\ args' \in Seq(Script)
    /\ DOMAIN pcb' = DOMAIN pcb /\ \A q \in DOMAIN pcb : pcb'[q].script = pcb[q].script
    /\ procs' = procs \/ HistoryKept
    /\ queue' \in Seq(DOMAIN pcb) /\ Once(queue')
    /\ \A q \in DOMAIN pcb : q \in {turn'.pid, load'.pid} \/ Has(queue', q)
    /\ \A q \in {turn'.pid, load'.pid} \ {0} : q \in DOMAIN pcb /\ ~Has(queue', q)

LEMMA PidsLemma ==
    ASSUME PidsInv, PidsKept
    PROVE  PidsInv'
  <1>1. HistoryKept
    BY DEF PidsInv, PidsKept, HistoryKept
  <1> QED
    BY <1>1 DEF PidsInv, PidsKept, HistoryKept, Queued

LEMMA LoadPreLemma ==
    ASSUME FrameKernelInv, mode \in {"init", "lost", "fault"}
    PROVE  LoadPre
  <1>1. load.pid # 0 /\ load.page \in Page /\ turn.pid \in {0, load.pid}
    BY DEF FrameKernelInv, StageInv, NoTurn
  <1>2. \A q \in DOMAIN pcb : q # 0
    BY DEF FrameKernelInv, ProcsOK
  <1>3. load.pid \in DOMAIN pcb /\ ~Queued(load.pid)
    BY <1>1 DEF FrameKernelInv, PidsInv
  <1>4. \A q \in DOMAIN pcb : q = load.pid \/ Queued(q)
    BY <1>1, <1>2 DEF FrameKernelInv, PidsInv
  <1> QED
    BY <1>1, <1>3, <1>4 DEF LoadPre, FrameKernelInv, PidsInv

\* The processes with p in the place of the one that loads.
AfterPost(r, p, ps) ==
    /\ DOMAIN ps = DOMAIN pcb
    /\ \A q \in DOMAIN pcb : ps[q].script = pcb[q].script
    /\ ps[load.pid] = p
    /\ ProcsOK(ps)
    /\ MemOK(LoadedMem(r), ps)

LEMMA AfterLemma ==
    ASSUME WholeFrames, LoadPre, NEW r \in Loads, NEW p, PcbOK(p), p.script = Loading.script,
           \A i \in Page : p.page_table[i] \in {Loaded(r).page_table[i], -1}
    PROVE  AfterPost(r, p, With(Others(r), load.pid, p))
  <1> DEFINE others == Others(r)
             l == Loaded(r)
             old == With(others, load.pid, l)
             ps == With(others, load.pid, p)
  <1>1. LoadPost(r, LoadedMem(r), others, l)
    BY LoadLemma
  <1> HIDE DEF others, l
  <1>2. load.pid \in DOMAIN pcb /\ Loading = pcb[load.pid] /\ ProcsOK(pcb)
    BY DEF LoadPre, Loading
  <1>3. /\ DOMAIN others = DOMAIN pcb /\ \A q \in DOMAIN pcb : Loses(others[q], pcb[q])
        /\ l.script = Loading.script
        /\ MemOK(LoadedMem(r), old)
    BY <1>1 DEF LoadPost
  <1>4. /\ DOMAIN ps = DOMAIN pcb /\ DOMAIN old = DOMAIN pcb
        /\ ps[load.pid] = p /\ old[load.pid] = l
        /\ \A q \in DOMAIN pcb : q # load.pid => ps[q] = others[q] /\ old[q] = others[q]
    BY <1>2, <1>3 DEF With
  <1> HIDE DEF ps, old
  <1>5. ASSUME NEW q \in DOMAIN pcb PROVE PcbOK(others[q]) /\ others[q].script = pcb[q].script
    <2>1. PcbOK(pcb[q])
      BY <1>2 DEF ProcsOK
    <2>2. Loses(others[q], pcb[q])
      BY <1>3
    <2>3. others[q] = [script |-> pcb[q].script, pos |-> pcb[q].pos, tail |-> pcb[q].tail,
                       eof |-> pcb[q].eof, page_table |-> others[q].page_table, PC |-> pcb[q].PC]
      BY <2>2 DEF Loses
    <2>4. others[q].page_table \in [Page -> Frame \cup {-1}]
      BY <2>2 DEF Loses
    <2> DEFINE t == others[q].page_table
    <2> HIDE DEF t
    <2>5. t \in [Page -> Frame \cup {-1}]
      BY <2>4 DEF t
    <2>6. others[q] = [script |-> pcb[q].script, pos |-> pcb[q].pos, tail |-> pcb[q].tail,
                       eof |-> pcb[q].eof, page_table |-> t, PC |-> pcb[q].PC]
      BY <2>3 DEF t
    <2> QED
      BY <2>1, <2>5, <2>6 DEF PcbOK
  <1>6. \A q \in DOMAIN pcb : ps[q].script = pcb[q].script
    BY <1>2, <1>4, <1>5
  <1>7. ProcsOK(ps)
    BY <1>2, <1>4, <1>5 DEF ProcsOK
  <1>8. ASSUME NEW q \in DOMAIN ps
        PROVE  /\ q \in DOMAIN old /\ ps[q].script = old[q].script
               /\ \A i \in Page : ps[q].page_table[i] \in {old[q].page_table[i], -1}
    <2>1. CASE q = load.pid
      BY <1>3, <1>4, <2>1 DEF l
    <2>2. CASE q # load.pid
      BY <1>4, <2>2
    <2> QED
      BY <2>1, <2>2
  <1>9. MemOK(LoadedMem(r), ps)
    BY <1>3, <1>8, ForgetLemma
  <1> QED
    BY <1>4, <1>6, <1>7, <1>9 DEF AfterPost, ps, others

\* What a load does to the memory and to the times of use.
LEMMA LoadedUsedLemma ==
    ASSUME UsedInv, NEW r
    PROVE  LoadedUsed(r) \in [Mem!Memory -> Nat]
  BY DEF UsedInv, LoadedUsed

LEMMA UsedNowLemma ==
    ASSUME UsedInv, NEW k
    PROVE  UsedNow(last_used, k) \in [Mem!Memory -> Nat]
  <1>1. CASE k < THRESHOLD
    <2>1. UsedNow(last_used, k) = [last_used EXCEPT ![k] = timer + 1]
      BY <1>1 DEF UsedNow
    <2>2. timer + 1 \in Nat
      BY DEF UsedInv
    <2> QED
      BY <2>1, <2>2 DEF UsedInv
  <1>2. CASE ~(k < THRESHOLD)
    BY <1>2 DEF UsedInv, UsedNow
  <1> QED
    BY <1>1, <1>2

\* A process whose program counter and pages are changed is still one.
LEMMA MovedLemma ==
    ASSUME NEW p, PcbOK(p), NEW pc \in Int
    PROVE  /\ PcbOK([p EXCEPT !.PC = pc])
           /\ [p EXCEPT !.PC = pc].script = p.script
           /\ [p EXCEPT !.PC = pc].page_table = p.page_table
           /\ [p EXCEPT !.PC = pc].PC = pc
  <1>1. /\ p = [script |-> p.script, pos |-> p.pos, tail |-> p.tail, eof |-> p.eof,
                page_table |-> p.page_table, PC |-> p.PC]
        /\ p.script \in Script /\ p.pos \in Nat /\ p.tail \in BOOLEAN /\ p.eof \in BOOLEAN
        /\ p.page_table \in [Page -> Frame \cup {-1}]
        /\ p.pos <= Len(Lines[p.script])
    BY DEF PcbOK
  <1>2. [p EXCEPT !.PC = pc] = [script |-> p.script, pos |-> p.pos, tail |-> p.tail, eof |-> p.eof,
                                page_table |-> p.page_table, PC |-> pc]
    BY <1>1
  <1> QED
    BY <1>1, <1>2 DEF PcbOK

LEMMA RewoundLemma ==
    ASSUME NEW p, PcbOK(p)
    PROVE  /\ PcbOK(Rewound(p)) /\ Rewound(p).script = p.script
           /\ \A i \in Page : Rewound(p).page_table[i] = -1
  <1>1. /\ p = [script |-> p.script, pos |-> p.pos, tail |-> p.tail, eof |-> p.eof,
                page_table |-> p.page_table, PC |-> p.PC]
        /\ p.script \in Script /\ p.pos \in Nat /\ p.PC \in Int
        /\ p.pos <= Len(Lines[p.script])
    BY DEF PcbOK
  <1>2. Rewound(p) = [script |-> p.script, pos |-> p.pos, tail |-> TRUE, eof |-> FALSE,
                      page_table |-> NoPages, PC |-> p.PC]
    <2> DEFINE t == TRUE
               f == FALSE
    <2>1. Rewound(p) = [p EXCEPT !.tail = t, !.eof = f, !.page_table = NoPages]
      BY DEF Rewound
    <2> HIDE DEF t, f
    <2>2. Rewound(p) = [script |-> p.script, pos |-> p.pos, tail |-> t, eof |-> f,
                        page_table |-> NoPages, PC |-> p.PC]
      BY <1>1, <2>1
    <2> QED
      BY <2>2 DEF t, f
  <1>3. NoPages \in [Page -> Frame \cup {-1}] /\ \A i \in Page : NoPages[i] = -1
    BY DEF NoPages
  <1> QED
    BY <1>1, <1>2, <1>3 DEF PcbOK

\* The page that the search finds has the program counter.
LEMMA LocatedLemma ==
    ASSUME WholeFrames, NEW p, PcbOK(p), Located(p)
    PROVE  InPage(p, PageOf(p))
  <1> DEFINE S == {i \in Page : AtPage(p, i)}
  <1>1. Page \in SUBSET Nat
    BY FrameKernelAssumption DEF Page
  <1>2. S \in SUBSET Nat /\ S # {}
    BY <1>1 DEF Located
  <1>3. PICK i \in S : \A k \in S : i <= k
    BY <1>2, LeastElement
  <1>4. \A k \in 0 .. i - 1 : ~AtPage(p, k)
    <2>1. i \in Nat /\ \A k \in 0 .. i - 1 : k \in Page
      BY <1>3, FrameKernelAssumption DEF Page
    <2> QED
      BY <1>3, <2>1
  <1>5. PageOf(p) \in Page /\ AtPage(p, PageOf(p))
    BY <1>3, <1>4 DEF PageOf
  <1>6. PICK c \in Page : c = PageOf(p) /\ AtPage(p, c)
    BY <1>5
  <1>7. PICK g : g = p.page_table[c]
    OBVIOUS
  <1>8. g \in Frame \cup {-1} /\ Frame \subseteq Nat /\ p.PC \in Int
    BY <1>7, FrameLemma DEF PcbOK
  <1>9. p.PC = g * 3 \/ (g # -1 /\ p.PC \in g * 3 .. g * 3 + 3)
    BY <1>6, <1>7 DEF AtPage, FRAME_SIZE
  <1>10. (g = -1 /\ p.PC = -3) \/ (g # -1 /\ p.PC \in 3 * g .. 3 * g + 3)
    BY <1>8, <1>9
  <1> QED
    BY <1>6, <1>7, <1>10 DEF InPage

--------------------------------------------------------------------------------
(***************************************************************************)
(* The invariant holds at first, and every step keeps it.                  *)
(***************************************************************************)

LEMMA InitInv ==
    ASSUME WholeFrames, Init
    PROVE  FrameKernelInv
  <1>1. DOMAIN pcb = {} /\ DOMAIN procs = {} /\ DOMAIN queue = {}
    BY DEF Init
  <1>2. 0 \in Page
    BY FrameKernelAssumption DEF Page
  <1>3. PidsInv
    <2>1. queue \in Seq(DOMAIN pcb) /\ args \in Seq(Script)
      BY DEF Init
    <2> QED
      BY <1>1, <2>1 DEF Init, PidsInv, Once, NoTurn, NoLoad
  <1>4. StageInv /\ RunInv /\ UsedInv
    BY <1>2 DEF Init, StageInv, RunInv, UsedInv, NoTurn, NoLoad
  <1>5. MemOK(mem, pcb)
    <2>1. mem = [p \in Mem!Memory |-> Mem!FreeLine]
      BY DEF Init, Mem!MemInit
    <2>2. OnMemory(mem)
      BY <2>1 DEF OnMemory
    <2>3. HolesOK(mem)
      <3> SUFFICES ASSUME NEW g \in Frame PROVE mem[3 * g].var = None
        BY DEF HolesOK
      <3>1. 3 * g + 0 \in Mem!Memory /\ 3 * g + 0 = 3 * g
        BY FrameLemma
      <3> QED
        BY <2>1, <3>1 DEF Mem!FreeLine
    <2> QED
      BY <1>1, <2>2, <2>3 DEF MemOK, PagesOK, OneOwner
  <1> QED
    BY <1>1, <1>3, <1>4, <1>5 DEF FrameKernelInv, ProcsOK

LEMMA UnchangedInv ==
    ASSUME FrameKernelInv, UNCHANGED vars
    PROVE  FrameKernelInv'
  BY DEF FrameKernelInv, UsedInv, PidsInv, StageInv, RunInv, Queued, ProcsOK, MemOK, PagesOK, OneOwner,
         vars, store, history

LEMMA UserInv ==
    ASSUME WholeFrames, FrameKernelInv, User
    PROVE  FrameKernelInv'
  <1> USE DEF FrameKernelInv
  <1>1. ASSUME NEW v \in Var, NEW x \in Val, SetVar(v, x) PROVE FrameKernelInv'
    <2>1. MemOK(mem', pcb)
      BY <1>1, SetValueLemma, SameFramesLemma DEF SetVar, MemOK
    <2> QED
      BY <1>1, <2>1 DEF SetVar, history, UsedInv, PidsInv, StageInv, RunInv, Queued
  <1>2. CASE ResetMem
    <2>1. MemOK(mem', pcb)
      BY <1>2, ResetLemma, SameFramesLemma DEF ResetMem, MemOK
    <2> QED
      BY <1>2, <2>1 DEF ResetMem, history, UsedInv, PidsInv, StageInv, RunInv, Queued
  <1>3. ASSUME NEW n \in 1 .. 3, NEW scripts \in [1 .. n -> Script], Exec(scripts) PROVE FrameKernelInv'
    <2>1. scripts \in Seq(Script) /\ scripts # <<>>
      BY <1>3
    <2> QED
      BY <1>3, <2>1 DEF Exec, store, history, UsedInv, PidsInv, StageInv, RunInv, Queued
  <1>4. CASE Quit
    BY <1>4 DEF Quit, store, history, UsedInv, PidsInv, StageInv, RunInv, Queued
  <1> QED
    BY <1>1, <1>2, <1>3, <1>4 DEF User

\* A new process has no frame.
LEMMA NextScriptInv ==
    ASSUME WholeFrames, FrameKernelInv, NextScript
    PROVE  FrameKernelInv'
  <1>1. /\ mode = "args" /\ args # <<>> /\ args \in Seq(Script) /\ turn = NoTurn /\ load = NoLoad
        /\ Initialize(Head(args)) /\ args' = Tail(args)
    BY DEF NextScript, FrameKernelInv, StageInv, PidsInv
  <1>2. PICK s \in Script : s = Head(args)
    BY <1>1
  <1>3. PICK c \in Nat \ {0} : c = pid_counter
    BY DEF FrameKernelInv, PidsInv
  <1>4. \A q \in DOMAIN pcb : q # c
    BY <1>3 DEF FrameKernelInv, PidsInv, ProcsOK
  <1>5. PcbOK(NewPCB(s)) /\ NewPCB(s).script = s /\ \A i \in Page : NewPCB(s).page_table[i] = -1
    <2>1. NoPages \in [Page -> Frame \cup {-1}] /\ \A i \in Page : NoPages[i] = -1
      BY DEF NoPages
    <2>2. Len(Lines[s]) \in Nat
      BY FrameKernelAssumption
    <2> QED
      BY <2>1, <2>2 DEF NewPCB, PcbOK
  <1>6. /\ DOMAIN pcb' = DOMAIN pcb \cup {c} /\ pcb'[c] = NewPCB(s)
        /\ \A q \in DOMAIN pcb : pcb'[q] = pcb[q]
    BY <1>1, <1>2, <1>3, <1>4 DEF Initialize, With
  <1>7. /\ DOMAIN procs' = DOMAIN procs \cup {c} /\ procs'[c] = [script |-> s, done |-> 0]
        /\ \A q \in DOMAIN procs : q # c => procs'[q] = procs[q]
    BY <1>1, <1>2, <1>3 DEF Initialize, With
  <1>8. ProcsOK(pcb')
    BY <1>3, <1>5, <1>6 DEF ProcsOK, FrameKernelInv
  <1>9. MemOK(mem, pcb')
    <2>1. ASSUME NEW q \in DOMAIN pcb'
          PROVE  \/ \A i \in Page : pcb'[q].page_table[i] = -1
                 \/ /\ q \in DOMAIN pcb /\ pcb'[q].script = pcb[q].script
                    /\ \A i \in Page : pcb'[q].page_table[i] \in {pcb[q].page_table[i], -1}
      BY <1>5, <1>6
    <2>2. MemOK(mem, pcb)
      BY DEF FrameKernelInv
    <2> QED
      BY <2>1, <2>2, ForgetLemma
  <1>10. load' = [pid |-> c, page |-> 0] /\ mode' = "init" /\ pid_counter' = c + 1
         /\ UNCHANGED <<store, timer, queue, policy, turn, last>>
    BY <1>1, <1>3 DEF Initialize
  <1>11. queue' \in Seq(DOMAIN pcb') /\ Once(queue') /\ ~Has(queue', c)
    <2>1. queue \in Seq(DOMAIN pcb) /\ Once(queue)
      BY DEF FrameKernelInv, PidsInv
    <2>2. \A k \in DOMAIN queue : queue[k] \in DOMAIN pcb
      BY <2>1
    <2>3. queue \in Seq(DOMAIN pcb')
      BY <1>6, <2>1, <2>2, SeqIn
    <2> QED
      BY <1>4, <1>10, <2>1, <2>2, <2>3 DEF Has
  <1>12. PidsInv'
    <2>1. args' \in Seq(Script)
      BY <1>1
    <2>2. \A q \in DOMAIN procs' : procs'[q] \in [script : Script, done : Nat]
      BY <1>7 DEF FrameKernelInv, PidsInv
    <2>3. ASSUME NEW q \in DOMAIN pcb'
          PROVE  q < c + 1 /\ q \in DOMAIN procs' /\ procs'[q].script = pcb'[q].script
      <3>1. CASE q = c
        BY <1>3, <1>5, <1>6, <1>7, <3>1
      <3>2. CASE q # c
        <4>1. q \in DOMAIN pcb /\ q \in Nat /\ q < c /\ q \in DOMAIN procs /\ procs[q].script = pcb[q].script
          BY <1>3, <1>6, <3>2 DEF FrameKernelInv, PidsInv, ProcsOK
        <4> QED
          BY <1>3, <1>6, <1>7, <3>2, <4>1
      <3> QED
        BY <3>1, <3>2
    <2>4. \A q \in DOMAIN pcb' : q \in {turn'.pid, load'.pid} \/ Has(queue', q)
      BY <1>1, <1>6, <1>10 DEF FrameKernelInv, PidsInv, ProcsOK, Queued, NoTurn, NoLoad
    <2>5. \A q \in {turn'.pid, load'.pid} \ {0} : q \in DOMAIN pcb' /\ ~Has(queue', q)
      BY <1>1, <1>6, <1>10, <1>11 DEF NoTurn
    <2> QED
      BY <1>3, <1>10, <1>11, <2>1, <2>2, <2>3, <2>4, <2>5 DEF PidsInv, Queued
  <1>13. StageInv' /\ RunInv' /\ UsedInv'
    <2>1. 0 \in Page
      BY FrameKernelAssumption DEF Page
    <2>2. StageInv' /\ RunInv'
      BY <1>1, <1>3, <1>10, <2>1 DEF StageInv, RunInv, NoTurn
    <2>3. UsedInv'
      BY <1>10 DEF FrameKernelInv, UsedInv, store
    <2> QED
      BY <2>2, <2>3
  <1>14. MemOK(mem', pcb')
    BY <1>9, <1>10 DEF store
  <1> QED
    BY <1>8, <1>12, <1>13, <1>14 DEF FrameKernelInv

LEMMA NoSuchFileInv ==
    ASSUME FrameKernelInv, NoSuchFile
    PROVE  FrameKernelInv'
  BY DEF NoSuchFile, FrameKernelInv, store, history, UsedInv, PidsInv, StageInv, RunInv, Queued

\* The scheduler returns when nobody is left.
LEMMA ReturnInv ==
    ASSUME FrameKernelInv, Return
    PROVE  FrameKernelInv'
  <1>1. DOMAIN pcb = {}
    <2>1. turn.pid = 0 /\ load.pid = 0
      BY DEF Return, FrameKernelInv, StageInv, NoTurn, NoLoad
    <2>2. ASSUME NEW q \in DOMAIN pcb PROVE FALSE
      <3>1. q # 0
        BY DEF FrameKernelInv, ProcsOK
      <3>2. Queued(q)
        BY <2>1, <3>1 DEF FrameKernelInv, PidsInv
      <3>3. DOMAIN queue = {}
        BY DEF Return
      <3> QED
        BY <3>2, <3>3 DEF Queued, Has
    <2> QED
      BY <2>2
  <1>2. DOMAIN procs' = {}
    BY DEF Return
  <1>3. PidsInv'
    BY <1>1, <1>2 DEF Return, FrameKernelInv, PidsInv, Queued
  <1> QED
    BY <1>3 DEF Return, FrameKernelInv, store, UsedInv, StageInv, RunInv

LEMMA LoadFirstInv ==
    ASSUME WholeFrames, FrameKernelInv, LoadFirst
    PROVE  FrameKernelInv'
  <1>1. LoadPre /\ mode = "init" /\ load.page = 0 /\ load.pid # 0 /\ turn = NoTurn
    BY LoadPreLemma DEF LoadFirst, FrameKernelInv, StageInv
  <1>2. PICK r \in Loads : /\ mem' = LoadedMem(r) /\ last_used' = LoadedUsed(r)
                           /\ pcb' = With(Others(r), load.pid, Loaded(r))
    BY DEF LoadFirst
  <1>3. AfterPost(r, Loaded(r), pcb')
    <2>1. PcbOK(Loaded(r)) /\ Loaded(r).script = Loading.script
      BY <1>1, LoadLemma DEF LoadPost
    <2> QED
      BY <1>1, <1>2, <2>1, AfterLemma
  <1>4. load' = [pid |-> load.pid, page |-> 1]
    BY DEF LoadFirst, FrameKernelInv, StageInv
  <1>5. UNCHANGED <<timer, queue, pid_counter, mode, args, policy, turn, last, procs>>
    BY DEF LoadFirst, history
  <1>6. UsedInv'
    BY <1>2, <1>5, LoadedUsedLemma DEF FrameKernelInv, UsedInv
  <1>7. PidsKept
    BY <1>3, <1>4, <1>5 DEF AfterPost, PidsKept, FrameKernelInv, PidsInv, Queued
  <1>8. StageInv' /\ RunInv'
    <2>1. 1 \in Page
      BY FrameKernelAssumption DEF Page
    <2> QED
      BY <1>1, <1>4, <1>5, <2>1 DEF StageInv, RunInv, FrameKernelInv
  <1>9. PidsInv'
    BY <1>7, PidsLemma DEF FrameKernelInv
  <1> QED
    BY <1>2, <1>3, <1>6, <1>8, <1>9 DEF FrameKernelInv, AfterPost

\* The second page is loaded, and the process waits.
LEMMA LoadSecondInv ==
    ASSUME WholeFrames, FrameKernelInv, LoadSecond
    PROVE  FrameKernelInv'
  <1>1. LoadPre /\ mode = "init" /\ load.pid # 0 /\ turn = NoTurn
    BY LoadPreLemma DEF LoadSecond, FrameKernelInv, StageInv
  <1>2. PICK r \in Loads : /\ mem' = LoadedMem(r) /\ last_used' = LoadedUsed(r)
                           /\ pcb' = With(Others(r), load.pid, makePCB_withPageTable(Loaded(r)))
    BY DEF LoadSecond
  <1>3. AfterPost(r, makePCB_withPageTable(Loaded(r)), pcb')
    <2> DEFINE l == Loaded(r)
               pc == l.page_table[0] * FRAME_SIZE
               p == makePCB_withPageTable(l)
    <2>1. PcbOK(l) /\ l.script = Loading.script
      BY <1>1, LoadLemma DEF LoadPost
    <2>2. pc \in Int
      <3>1. l.page_table[0] \in Frame \cup {-1}
        BY <2>1, FrameKernelAssumption DEF PcbOK, Page
      <3>2. PICK g \in Frame \cup {-1} : g = l.page_table[0]
        BY <3>1
      <3>3. g \in Int
        BY FrameLemma
      <3> QED
        BY <3>2, <3>3 DEF FRAME_SIZE
    <2>3. p = [l EXCEPT !.PC = pc]
      BY DEF makePCB_withPageTable
    <2> HIDE DEF pc
    <2>4. PcbOK(p) /\ p.script = l.script /\ p.page_table = l.page_table
      BY <2>1, <2>2, <2>3, MovedLemma
    <2> QED
      BY <1>1, <1>2, <2>1, <2>4, AfterLemma
  <1>4. /\ load' = NoLoad /\ queue' = Append(queue, load.pid)
        /\ mode' = IF args = <<>> THEN "schedule" ELSE "args"
        /\ UNCHANGED <<timer, pid_counter, args, policy, turn, last, procs>>
    BY DEF LoadSecond, history
  <1>5. UsedInv'
    BY <1>2, <1>4, LoadedUsedLemma DEF FrameKernelInv, UsedInv
  <1>6. /\ queue' \in Seq(DOMAIN pcb) /\ Once(queue')
        /\ \A y : Has(queue', y) <=> Has(queue, y) \/ y = load.pid
    BY <1>1, <1>4, AppendLemma DEF LoadPre, Queued, FrameKernelInv, PidsInv
  <1>7. PidsKept
    <2>1. \A q \in DOMAIN pcb : Has(queue', q)
      BY <1>1, <1>6 DEF LoadPre, Queued
    <2> QED
      BY <1>1, <1>3, <1>4, <1>6, <2>1 DEF AfterPost, PidsKept, FrameKernelInv, PidsInv, NoTurn, NoLoad
  <1>8. StageInv' /\ RunInv'
    <2>1. 0 \in Page
      BY FrameKernelAssumption DEF Page
    <2> QED
      BY <1>1, <1>4, <2>1 DEF StageInv, RunInv, FrameKernelInv, NoLoad, NoTurn
  <1>9. PidsInv'
    BY <1>7, PidsLemma DEF FrameKernelInv
  <1> QED
    BY <1>2, <1>3, <1>5, <1>8, <1>9 DEF FrameKernelInv, AfterPost

\* Without run in a script, no process is loaded within a turn.
LEMMA NotNested ==
    ASSUME FrameKernelInv
    PROVE  ~LoadSecondNested /\ ~NestedRun /\ ~NestedNoSuchFile
  BY DEF FrameKernelInv, StageInv, LoadSecondNested, NestedRun, NestedNoSuchFile

--------------------------------------------------------------------------------
(***************************************************************************)
(* Turns.                                                                  *)
(***************************************************************************)

\* The process runs, or is to load the page it has lost.
Found(pid, p) ==
    /\ turn' \in [pid : Nat, page : Page, left : Int] /\ turn'.pid = pid
    /\ load' \in [pid : Nat, page : Page]
    /\ \/ mode' = "run" /\ load' = NoLoad /\ InPage(p, turn'.page)
       \/ mode' = "lost" /\ load'.pid = pid /\ load'.page = 0

LEMMA SearchLemma ==
    ASSUME WholeFrames, NEW pid \in Nat, NEW p, PcbOK(p), NEW others, NEW left \in Int,
           Search(pid, p, others, left)
    PROVE  \E q : /\ PcbOK(q) /\ q.script = p.script
                  /\ \A i \in Page : q.page_table[i] \in {p.page_table[i], -1}
                  /\ pcb' = With(others, pid, q)
                  /\ Found(pid, q)
  <1>0. 0 \in Page
    BY FrameKernelAssumption DEF Page
  <1>1. CASE Located(p)
    <2>1. InPage(p, PageOf(p))
      BY <1>1, LocatedLemma
    <2>2. PageOf(p) \in Page
      BY <2>1 DEF InPage
    <2>3. turn' = [pid |-> pid, page |-> PageOf(p), left |-> left] /\ load' = NoLoad /\ mode' = "run"
          /\ pcb' = With(others, pid, p)
      BY <1>1 DEF Search
    <2>4. Found(pid, p)
      BY <1>0, <2>1, <2>2, <2>3 DEF Found, NoLoad
    <2> QED
      BY <2>3, <2>4
  <1>2. CASE ~Located(p)
    <2>1. /\ PcbOK(Rewound(p)) /\ Rewound(p).script = p.script
          /\ \A i \in Page : Rewound(p).page_table[i] = -1
      BY RewoundLemma
    <2>2. /\ turn' = [pid |-> pid, page |-> 0, left |-> left] /\ load' = [pid |-> pid, page |-> 0]
          /\ mode' = "lost" /\ pcb' = With(others, pid, Rewound(p))
      BY <1>2 DEF Search
    <2>3. Found(pid, Rewound(p))
      BY <1>0, <2>2 DEF Found
    <2> QED
      BY <2>1, <2>2, <2>3
  <1> QED
    BY <1>1, <1>2

\* The stages after a search.
LEMMA FoundLemma ==
    ASSUME FrameKernelInv, NEW pid \in DOMAIN pcb, NEW p, Found(pid, p), pcb'[pid] = p
    PROVE  StageInv' /\ RunInv'
  <1>1. pid # 0
    BY DEF FrameKernelInv, ProcsOK
  <1>2. turn' \in [pid : Nat, page : Page, left : Int] /\ turn'.pid = pid /\ load' \in [pid : Nat, page : Page]
    BY DEF Found
  <1>3. CASE mode' = "run" /\ load' = NoLoad /\ InPage(p, turn'.page)
    BY <1>1, <1>2, <1>3 DEF StageInv, RunInv
  <1>4. CASE mode' = "lost" /\ load'.pid = pid /\ load'.page = 0
    BY <1>1, <1>2, <1>4 DEF StageInv, RunInv
  <1> QED
    BY <1>3, <1>4 DEF Found

LEMMA DispatchInv ==
    ASSUME WholeFrames, FrameKernelInv, Dispatch
    PROVE  FrameKernelInv'
  <1>1. mode = "schedule" /\ queue # <<>> /\ queue \in Seq(DOMAIN pcb) /\ Once(queue)
        /\ turn = NoTurn /\ load = NoLoad
    BY DEF Dispatch, FrameKernelInv, StageInv, PidsInv
  <1>2. PICK pid \in DOMAIN pcb :
            /\ pid = Head(queue)
            /\ Tail(queue) \in Seq(DOMAIN pcb) /\ Once(Tail(queue)) /\ ~Has(Tail(queue), pid)
            /\ \A y : Has(queue, y) <=> Has(Tail(queue), y) \/ y = pid
    BY <1>1, TailLemma
  <1>3. PcbOK(pcb[pid]) /\ pid \in Nat \ {0} /\ ProcsOK(pcb) /\ MemOK(mem, pcb)
    BY DEF FrameKernelInv, ProcsOK
  <1>4. Search(pid, pcb[pid], pcb, Quanta)
    BY <1>2 DEF Dispatch
  <1>5. Quanta \in Int
    BY DEF Quanta, MAX_INT
  <1>6. PICK p : /\ PcbOK(p) /\ p.script = pcb[pid].script
                 /\ \A i \in Page : p.page_table[i] \in {pcb[pid].page_table[i], -1}
                 /\ pcb' = With(pcb, pid, p)
                 /\ Found(pid, p)
    BY <1>3, <1>4, <1>5, SearchLemma
  <1>7. DOMAIN pcb' = DOMAIN pcb /\ pcb'[pid] = p /\ \A q \in DOMAIN pcb : q # pid => pcb'[q] = pcb[q]
    BY <1>6 DEF With
  <1>8. UNCHANGED <<mem, last_used, timer, pid_counter, args, policy, last, procs>> /\ queue' = Tail(queue)
    BY DEF Dispatch, store, history
  <1>9. ProcsOK(pcb')
    BY <1>3, <1>6, <1>7 DEF ProcsOK
  <1>10. MemOK(mem, pcb')
    <2>1. ASSUME NEW q \in DOMAIN pcb'
          PROVE  /\ q \in DOMAIN pcb /\ pcb'[q].script = pcb[q].script
                 /\ \A i \in Page : pcb'[q].page_table[i] \in {pcb[q].page_table[i], -1}
      BY <1>6, <1>7
    <2> QED
      BY <1>3, <2>1, ForgetLemma
  <1>11. PidsKept
    <2>1. turn'.pid = pid /\ load'.pid \in {0, pid}
      BY <1>6 DEF Found, NoLoad
    <2>2. \A q \in DOMAIN pcb : q = pid \/ Has(queue', q)
      BY <1>1, <1>2, <1>8 DEF FrameKernelInv, PidsInv, ProcsOK, NoTurn, NoLoad, Queued
    <2>3. \A q \in DOMAIN pcb : pcb'[q].script = pcb[q].script
      BY <1>6, <1>7
    <2> QED
      BY <1>2, <1>7, <1>8, <2>1, <2>2, <2>3 DEF PidsKept, FrameKernelInv, PidsInv
  <1>12. StageInv' /\ RunInv'
    BY <1>6, <1>7, FoundLemma
  <1>13. PidsInv' /\ UsedInv'
    BY <1>8, <1>11, PidsLemma DEF FrameKernelInv, UsedInv
  <1> QED
    BY <1>8, <1>9, <1>10, <1>12, <1>13 DEF FrameKernelInv

LEMMA LoadLostInv ==
    ASSUME WholeFrames, FrameKernelInv, LoadLost
    PROVE  FrameKernelInv'
  <1>1. LoadPre /\ mode = "lost" /\ load.pid = turn.pid /\ load.pid \in Nat
        /\ turn \in [pid : Nat, page : Page, left : Int]
    BY LoadPreLemma DEF LoadLost, FrameKernelInv, StageInv
  <1>2. PICK r \in Loads : /\ mem' = LoadedMem(r) /\ last_used' = LoadedUsed(r)
                           /\ Search(load.pid, Loaded(r), Others(r), turn.left)
    BY DEF LoadLost
  <1>3. PcbOK(Loaded(r)) /\ Loaded(r).script = Loading.script
    BY <1>1, LoadLemma DEF LoadPost
  <1>4. PICK p : /\ PcbOK(p) /\ p.script = Loaded(r).script
                 /\ \A i \in Page : p.page_table[i] \in {Loaded(r).page_table[i], -1}
                 /\ pcb' = With(Others(r), load.pid, p)
                 /\ Found(load.pid, p)
    <2> DEFINE pid == load.pid
               l == Loaded(r)
               others == Others(r)
               left == turn.left
    <2>1. pid \in Nat /\ left \in Int /\ PcbOK(l) /\ Search(pid, l, others, left)
      BY <1>1, <1>2, <1>3
    <2> HIDE DEF pid, l, others, left
    <2>2. \E q : /\ PcbOK(q) /\ q.script = l.script
                 /\ \A i \in Page : q.page_table[i] \in {l.page_table[i], -1}
                 /\ pcb' = With(others, pid, q)
                 /\ Found(pid, q)
      BY <2>1, SearchLemma
    <2> QED
      BY <2>2 DEF pid, l, others
  <1>5. AfterPost(r, p, pcb')
    <2>1. AfterPost(r, p, With(Others(r), load.pid, p))
      BY <1>1, <1>3, <1>4, AfterLemma
    <2> QED
      BY <1>4, <2>1
  <1>6. UNCHANGED <<timer, queue, pid_counter, args, policy, last, procs>>
    BY DEF LoadLost, history
  <1>7. PidsKept
    <2>1. turn'.pid = load.pid /\ load'.pid \in {0, load.pid}
      BY <1>4 DEF Found, NoLoad
    <2>2. \A q \in DOMAIN pcb : q = load.pid \/ Has(queue', q)
      BY <1>1, <1>6 DEF LoadPre, Queued
    <2>3. ~Has(queue', load.pid) /\ load.pid \in DOMAIN pcb /\ Once(queue') /\ queue' \in Seq(DOMAIN pcb)
      BY <1>1, <1>6 DEF LoadPre, Queued, FrameKernelInv, PidsInv
    <2> QED
      BY <1>5, <1>6, <2>1, <2>2, <2>3 DEF AfterPost, PidsKept, FrameKernelInv, PidsInv
  <1>8. StageInv' /\ RunInv'
    <2>1. load.pid \in DOMAIN pcb /\ pcb'[load.pid] = p
      BY <1>1, <1>5 DEF AfterPost, LoadPre
    <2> DEFINE pid == load.pid
    <2>2. pid \in DOMAIN pcb /\ pcb'[pid] = p /\ Found(pid, p)
      BY <1>4, <2>1
    <2> HIDE DEF pid
    <2> QED
      BY <2>2, FoundLemma
  <1>9. PidsInv' /\ UsedInv'
    BY <1>2, <1>6, <1>7, PidsLemma, LoadedUsedLemma DEF FrameKernelInv, UsedInv
  <1> QED
    BY <1>2, <1>5, <1>8, <1>9 DEF FrameKernelInv, AfterPost

\* The running process.
LEMMA RunningLemma ==
    ASSUME WholeFrames, FrameKernelInv, mode \in {"run", "fault"}
    PROVE  /\ turn.pid \in DOMAIN pcb /\ turn.pid \in Nat \ {0} /\ PcbOK(Current)
           /\ turn.page \in Page /\ turn.left \in Int
           /\ turn = [pid |-> turn.pid, page |-> turn.page, left |-> turn.left]
           /\ load.pid \in {0, turn.pid}
           /\ ~Queued(turn.pid) /\ \A q \in DOMAIN pcb : q = turn.pid \/ Queued(q)
  <1>1. turn \in [pid : Nat, page : Page, left : Int] /\ turn.pid # 0 /\ load.pid \in {0, turn.pid}
    BY DEF FrameKernelInv, StageInv, NoLoad
  <1>2. turn.pid \in DOMAIN pcb /\ ~Queued(turn.pid)
    BY <1>1 DEF FrameKernelInv, PidsInv
  <1>3. \A q \in DOMAIN pcb : q = turn.pid \/ Queued(q)
    BY <1>1 DEF FrameKernelInv, PidsInv, ProcsOK
  <1> QED
    BY <1>1, <1>2, <1>3 DEF FrameKernelInv, ProcsOK, Current

\* Only the program counter of the running process changes.
Counted(pc) ==
    /\ DOMAIN pcb' = DOMAIN pcb
    /\ \A q \in DOMAIN pcb : pcb'[q].script = pcb[q].script /\ pcb'[q].page_table = pcb[q].page_table
    /\ pcb'[turn.pid].PC = pc
    /\ ProcsOK(pcb')
    /\ MemOK(mem, pcb')

LEMMA CountedLemma ==
    ASSUME FrameKernelInv, turn.pid \in DOMAIN pcb, NEW pc \in Int,
           pcb' = [pcb EXCEPT ![turn.pid] = [@ EXCEPT !.PC = pc]]
    PROVE  Counted(pc)
  <1>1. PICK t \in DOMAIN pcb : t = turn.pid
    OBVIOUS
  <1>2. PICK p : p = [pcb[t] EXCEPT !.PC = pc]
    OBVIOUS
  <1>3. \A q \in DOMAIN pcb : PcbOK(pcb[q]) /\ q \in Nat \ {0}
    BY DEF FrameKernelInv, ProcsOK
  <1>4. PcbOK(p) /\ p.script = pcb[t].script /\ p.page_table = pcb[t].page_table /\ p.PC = pc
    BY <1>2, <1>3, MovedLemma
  <1>5. DOMAIN pcb' = DOMAIN pcb /\ pcb'[t] = p /\ \A q \in DOMAIN pcb : q # t => pcb'[q] = pcb[q]
    BY <1>1, <1>2
  <1>6. ProcsOK(pcb')
    BY <1>3, <1>4, <1>5 DEF ProcsOK
  <1>7. \A q \in DOMAIN pcb : pcb'[q].script = pcb[q].script /\ pcb'[q].page_table = pcb[q].page_table
    BY <1>4, <1>5
  <1>8. MemOK(mem, pcb')
    BY <1>5, <1>7, ForgetLemma DEF FrameKernelInv
  <1> QED
    BY <1>1, <1>4, <1>5, <1>6, <1>7, <1>8 DEF Counted

\* The start of page i is in page i.
LEMMA StartLemma ==
    ASSUME WholeFrames, NEW p, NEW i \in Page, p.page_table[i] \in Frame,
           p.PC = p.page_table[i] * FRAME_SIZE
    PROVE  InPage(p, i)
  <1>1. PICK g \in Frame : g = p.page_table[i]
    OBVIOUS
  <1>2. g \in Nat /\ g * FRAME_SIZE = 3 * g
    BY FrameLemma
  <1> QED
    BY <1>1, <1>2 DEF InPage

LEMMA NextPageInv ==
    ASSUME WholeFrames, FrameKernelInv, NextPage
    PROVE  FrameKernelInv'
  <1>1. /\ turn.pid \in DOMAIN pcb /\ turn.pid \in Nat \ {0} /\ turn.page \in Page /\ turn.left \in Int
        /\ turn = [pid |-> turn.pid, page |-> turn.page, left |-> turn.left]
        /\ mode = "run" /\ load = NoLoad
    BY RunningLemma DEF NextPage, FrameKernelInv, StageInv
  <1>2. PICK i : i = turn.page + 1
    OBVIOUS
  <1>3. i \in Page /\ Current.page_table[i] \in Frame
    <2>1. NextEntry \in Frame
      BY DEF NextPage
    <2>2. THRESHOLD \notin Frame
      <3> SUFFICES ASSUME THRESHOLD \in Frame PROVE FALSE
        OBVIOUS
      <3>1. 3 * THRESHOLD + 2 < THRESHOLD /\ THRESHOLD \in Nat
        BY FrameLemma
      <3> QED
        BY <3>1
    <2> QED
      BY <1>2, <2>1, <2>2 DEF NextEntry
  <1>4. PICK pc \in Int : pc = Current.page_table[i] * FRAME_SIZE
    BY <1>3, FrameLemma DEF FRAME_SIZE
  <1>5. pcb' = [pcb EXCEPT ![turn.pid] = [@ EXCEPT !.PC = pc]]
    BY <1>1, <1>2, <1>4 DEF NextPage, Moved, Current
  <1>6. Counted(pc)
    BY <1>1, <1>5, CountedLemma
  <1>7. /\ turn' = [pid |-> turn.pid, page |-> i, left |-> turn.left]
        /\ UNCHANGED <<mem, last_used, timer, queue, pid_counter, mode, args, policy, load, last, procs>>
    BY <1>1, <1>2 DEF NextPage, store, history
  <1>8. PidsKept
    BY <1>6, <1>7 DEF Counted, PidsKept, FrameKernelInv, PidsInv, Queued
  <1>9. StageInv'
    BY <1>1, <1>3, <1>7 DEF StageInv, FrameKernelInv
  <1>10. InPage(pcb'[turn.pid], i)
    <2>1. pcb'[turn.pid].page_table[i] \in Frame
      BY <1>1, <1>3, <1>6 DEF Counted, Current
    <2>2. pcb'[turn.pid].PC = pcb'[turn.pid].page_table[i] * FRAME_SIZE
      BY <1>1, <1>4, <1>6 DEF Counted, Current
    <2> QED
      BY <1>3, <2>1, <2>2, StartLemma
  <1>11. RunInv'
    BY <1>7, <1>10 DEF RunInv
  <1>12. PidsInv' /\ UsedInv'
    BY <1>7, <1>8, PidsLemma DEF FrameKernelInv, UsedInv
  <1> QED
    BY <1>6, <1>7, <1>9, <1>11, <1>12 DEF FrameKernelInv, Counted

LEMMA PageFaultInv ==
    ASSUME WholeFrames, FrameKernelInv, PageFault
    PROVE  FrameKernelInv'
  <1>1. /\ turn.pid \in DOMAIN pcb /\ turn.pid \in Nat \ {0}
        /\ ~Queued(turn.pid) /\ \A q \in DOMAIN pcb : q = turn.pid \/ Queued(q)
        /\ turn \in [pid : Nat, page : Page, left : Int] /\ mode = "run"
    BY RunningLemma DEF PageFault, FrameKernelInv, StageInv
  <1>2. turn.page + 1 \in Page
    <2>1. NextEntry = -1
      BY DEF PageFault
    <2>2. THRESHOLD # -1
      BY FrameLemma
    <2> QED
      BY <2>1, <2>2 DEF NextEntry
  <1>3. /\ queue' = Rotated(queue) /\ load' = [pid |-> turn.pid, page |-> turn.page + 1] /\ mode' = "fault"
        /\ UNCHANGED <<mem, last_used, timer, pcb, pid_counter, args, policy, turn, last, procs>>
    BY DEF PageFault, store, history
  <1>4. /\ queue' \in Seq(DOMAIN pcb) /\ Once(queue')
        /\ \A y : Has(queue', y) <=> Has(queue, y)
    BY <1>3, RotatedLemma DEF FrameKernelInv, PidsInv
  <1>5. PidsKept
    BY <1>1, <1>3, <1>4 DEF PidsKept, FrameKernelInv, PidsInv, Queued
  <1>6. StageInv' /\ RunInv'
    BY <1>1, <1>2, <1>3 DEF StageInv, RunInv, FrameKernelInv
  <1>7. PidsInv' /\ UsedInv'
    BY <1>3, <1>5, PidsLemma DEF FrameKernelInv, UsedInv
  <1> QED
    BY <1>3, <1>6, <1>7 DEF FrameKernelInv

LEMMA LoadFaultInv ==
    ASSUME WholeFrames, FrameKernelInv, LoadFault
    PROVE  FrameKernelInv'
  <1>1. /\ LoadPre /\ mode = "fault" /\ load.pid = turn.pid /\ load.page \in Page
        /\ turn.pid \in Nat \ {0} /\ turn.left \in Int
        /\ turn = [pid |-> turn.pid, page |-> turn.page, left |-> turn.left]
    BY LoadPreLemma, RunningLemma DEF LoadFault, FrameKernelInv, StageInv
  <1>2. PICK r \in Loads : /\ r.n > 0
                           /\ mem' = LoadedMem(r) /\ last_used' = LoadedUsed(r)
                           /\ pcb' = With(Others(r), load.pid, Moved(Loaded(r), load.page))
    BY DEF LoadFault
  <1> DEFINE l == Loaded(r)
             p == Moved(l, load.page)
  <1>3. PcbOK(l) /\ l.script = Loading.script /\ l.page_table[load.page] \in Frame
    BY <1>1, <1>2, LoadLemma DEF LoadPost
  <1>4. PICK pc \in Int : pc = l.page_table[load.page] * FRAME_SIZE
    BY <1>3, FrameLemma DEF FRAME_SIZE
  <1>5. p = [l EXCEPT !.PC = pc]
    BY <1>4 DEF Moved
  <1>6. PcbOK(p) /\ p.script = l.script /\ p.page_table = l.page_table /\ p.PC = pc
    BY <1>3, <1>5, MovedLemma
  <1>7. AfterPost(r, p, pcb')
    BY <1>1, <1>2, <1>3, <1>6, AfterLemma
  <1> HIDE DEF l, p
  <1>8. /\ turn' = [pid |-> turn.pid, page |-> load.page, left |-> turn.left]
        /\ load' = NoLoad /\ mode' = "run"
        /\ UNCHANGED <<timer, queue, pid_counter, args, policy, last, procs>>
    BY <1>1 DEF LoadFault, history
  <1>9. PidsKept
    <2>1. \A q \in DOMAIN pcb : q = turn.pid \/ Has(queue', q)
      BY <1>1, <1>8 DEF LoadPre, Queued
    <2>2. ~Has(queue', turn.pid) /\ turn.pid \in DOMAIN pcb /\ Once(queue') /\ queue' \in Seq(DOMAIN pcb)
      BY <1>1, <1>8 DEF LoadPre, Queued, FrameKernelInv, PidsInv
    <2> QED
      BY <1>7, <1>8, <2>1, <2>2 DEF AfterPost, PidsKept, FrameKernelInv, PidsInv, NoLoad
  <1>10. StageInv'
    <2>1. 0 \in Page
      BY FrameKernelAssumption DEF Page
    <2> QED
      BY <1>1, <1>8, <2>1 DEF StageInv, NoLoad
  <1>11. InPage(p, load.page)
    BY <1>1, <1>3, <1>4, <1>6, StartLemma
  <1>12. RunInv'
    BY <1>1, <1>7, <1>8, <1>11 DEF RunInv, AfterPost
  <1>13. PidsInv' /\ UsedInv'
    BY <1>2, <1>8, <1>9, PidsLemma, LoadedUsedLemma DEF FrameKernelInv, UsedInv
  <1> QED
    BY <1>2, <1>7, <1>10, <1>12, <1>13 DEF FrameKernelInv, AfterPost

--------------------------------------------------------------------------------
(***************************************************************************)
(* The ends of turns.                                                      *)
(***************************************************************************)

\* A process goes; others have lost pages at most.
LEMMA TerminateLemma ==
    ASSUME WholeFrames, FrameKernelInv, mode \in {"run", "fault"}, NEW others,
           DOMAIN others = DOMAIN pcb, \A q \in DOMAIN pcb : others[q].script = pcb[q].script,
           Terminate(others)
    PROVE  PidsInv' /\ StageInv' /\ RunInv'
  <1>1. /\ turn.pid \in DOMAIN pcb /\ turn.pid \in Nat \ {0}
        /\ ~Queued(turn.pid) /\ \A q \in DOMAIN pcb : q = turn.pid \/ Queued(q)
    BY RunningLemma
  <1>2. /\ pcb' = Without(others, turn.pid)
        /\ turn' = NoTurn /\ load' = NoLoad /\ mode' = "schedule"
        /\ UNCHANGED <<timer, queue, pid_counter, args, policy, last, procs>>
    BY DEF Terminate, history
  <1>3. /\ DOMAIN pcb' = DOMAIN pcb \ {turn.pid}
        /\ \A q \in DOMAIN pcb' : pcb'[q].script = pcb[q].script
    BY <1>2 DEF Without
  <1>4. queue' \in Seq(DOMAIN pcb')
    <2>1. queue \in Seq(DOMAIN pcb)
      BY DEF FrameKernelInv, PidsInv
    <2>2. \A k \in DOMAIN queue : queue[k] \in DOMAIN pcb'
      <3> SUFFICES ASSUME NEW k \in DOMAIN queue PROVE queue[k] \in DOMAIN pcb /\ queue[k] # turn.pid
        BY <1>3
      <3>1. queue[k] \in DOMAIN pcb
        BY <2>1
      <3>2. queue[k] # turn.pid
        BY <1>1 DEF Queued, Has
      <3> QED
        BY <3>1, <3>2
    <2> QED
      BY <1>2, <2>1, <2>2, SeqIn
  <1>5. PidsInv'
    <2>1. \A q \in DOMAIN pcb' : Has(queue', q)
      BY <1>1, <1>2, <1>3 DEF Queued
    <2>2. {turn'.pid, load'.pid} \ {0} = {}
      BY <1>2 DEF NoTurn, NoLoad
    <2> QED
      BY <1>2, <1>3, <1>4, <2>1, <2>2 DEF PidsInv, FrameKernelInv, Queued
  <1>6. StageInv' /\ RunInv'
    <2>1. 0 \in Page
      BY FrameKernelAssumption DEF Page
    <2> QED
      BY <1>2, <2>1 DEF StageInv, RunInv, NoTurn, NoLoad
  <1> QED
    BY <1>5, <1>6

LEMMA EndsInv ==
    ASSUME WholeFrames, FrameKernelInv, Ends
    PROVE  FrameKernelInv'
  <1>1. mode \in {"run", "fault"} /\ Terminate(pcb) /\ UNCHANGED <<mem, last_used, timer>>
    BY DEF Ends, Terminate, store
  <1>2. PidsInv' /\ StageInv' /\ RunInv'
    BY <1>1, TerminateLemma
  <1>3. pcb' = [q \in DOMAIN pcb \ {turn.pid} |-> pcb[q]]
    BY <1>1 DEF Terminate, Without
  <1>4. ProcsOK(pcb') /\ DOMAIN pcb' \subseteq DOMAIN pcb /\ \A q \in DOMAIN pcb' : pcb'[q] = pcb[q]
    BY <1>3 DEF ProcsOK, FrameKernelInv
  <1>5. MemOK(mem, pcb')
    BY <1>4, ForgetLemma DEF FrameKernelInv
  <1> QED
    BY <1>1, <1>2, <1>4, <1>5 DEF FrameKernelInv, UsedInv

LEMMA LoadFailsInv ==
    ASSUME WholeFrames, FrameKernelInv, LoadFails
    PROVE  FrameKernelInv'
  <1>1. LoadPre /\ mode = "fault" /\ load.pid = turn.pid
    BY LoadPreLemma DEF LoadFails, FrameKernelInv, StageInv
  <1>2. PICK r \in Loads : /\ r.n = 0 /\ mem' = LoadedMem(r) /\ last_used' = LoadedUsed(r)
                           /\ Terminate(Others(r))
    BY DEF LoadFails
  <1> DEFINE others == Others(r)
             l == Loaded(r)
             ps == With(others, load.pid, l)
  <1>3. LoadPost(r, LoadedMem(r), others, l)
    BY <1>1, LoadLemma
  <1>4. PcbOK(l) /\ l.script = Loading.script
    BY <1>3 DEF LoadPost
  <1>5. AfterPost(r, l, ps)
    BY <1>1, <1>4, AfterLemma
  <1>6. DOMAIN others = DOMAIN pcb /\ \A q \in DOMAIN pcb : Loses(others[q], pcb[q])
    BY <1>3 DEF LoadPost
  <1> HIDE DEF others, l
  <1>7. Terminate(others) /\ mode \in {"run", "fault"} /\ DOMAIN others = DOMAIN pcb
        /\ \A q \in DOMAIN pcb : others[q].script = pcb[q].script
    <2>1. \A q \in DOMAIN pcb : others[q].script = pcb[q].script
      BY <1>6 DEF Loses
    <2> QED
      BY <1>1, <1>2, <1>6, <2>1 DEF others
  <1>8. PidsInv' /\ StageInv' /\ RunInv'
    BY <1>7, TerminateLemma
  <1>9. pcb' = [q \in DOMAIN pcb \ {turn.pid} |-> others[q]] /\ timer' = timer
    BY <1>6, <1>7 DEF Terminate, Without
  <1>10. /\ DOMAIN pcb' \subseteq DOMAIN ps
         /\ \A q \in DOMAIN pcb' : pcb'[q] = ps[q]
    BY <1>1, <1>6, <1>9 DEF With
  <1> HIDE DEF ps
  <1>11. ProcsOK(pcb')
    BY <1>5, <1>10 DEF AfterPost, ProcsOK
  <1>12. MemOK(LoadedMem(r), pcb')
    <2> DEFINE m == LoadedMem(r)
    <2>1. MemOK(m, ps)
      BY <1>5 DEF AfterPost
    <2> HIDE DEF m
    <2>2. MemOK(m, pcb')
      BY <1>10, <2>1, ForgetLemma
    <2> QED
      BY <2>2 DEF m
  <1>13. UsedInv'
    BY <1>2, <1>9, LoadedUsedLemma DEF FrameKernelInv, UsedInv
  <1> QED
    BY <1>2, <1>8, <1>11, <1>12, <1>13 DEF FrameKernelInv

LEMMA CrashesInv ==
    ASSUME FrameKernelInv, Crashes
    PROVE  FrameKernelInv'
  BY DEF Crashes, FrameKernelInv, store, history, UsedInv, PidsInv, StageInv, RunInv, Queued

--------------------------------------------------------------------------------
(***************************************************************************)
(* Lines are executed.                                                     *)
(***************************************************************************)

\* The line about to be executed is one of the frame of the page the process is
\* in, and so of its script.
LEMMA LineLemma ==
    ASSUME WholeFrames, FrameKernelInv, Executable
    PROVE  /\ OfScript(Line, Current.script) /\ Current.script \in Script
           /\ Current.PC \in Int
           /\ Current.page_table[turn.page] # -1
           /\ Current.PC + 1 \in 3 * Current.page_table[turn.page] .. 3 * Current.page_table[turn.page] + 3
  <1>1. turn.pid \in DOMAIN pcb /\ PcbOK(Current) /\ turn.page \in Page /\ Current = pcb[turn.pid]
    BY RunningLemma DEF Executable, Current
  <1>2. PICK g \in Frame \cup {-1}, pc \in Int : g = Current.page_table[turn.page] /\ pc = Current.PC
    BY <1>1 DEF PcbOK
  <1>3. InPage(Current, turn.page) /\ pc >= 0
    BY <1>2 DEF Executable, FrameKernelInv, RunInv, Current
  <1>4. g # -1 /\ pc \in 3 * g .. 3 * g + 3
    BY <1>2, <1>3 DEF InPage
  <1>5. g \in Frame /\ g \in Nat /\ g * FRAME_SIZE = 3 * g
    BY <1>4, FrameLemma
  <1>6. ~(pc % 3 = 0 /\ pc # 3 * g)
    BY <1>2, <1>5 DEF Executable, PageDone, FRAME_SIZE
  <1>7. pc # 3 * g + 3
    <2> SUFFICES ASSUME pc = 3 * g + 3 PROVE FALSE
      OBVIOUS
    <2>1. pc % 3 = 0
      BY <1>5
    <2> QED
      BY <1>5, <1>6, <2>1
  <1>8. PICK j \in 0 .. 2 : pc = 3 * g + j
    <2>1. pc - 3 * g \in 0 .. 2 /\ pc = 3 * g + (pc - 3 * g)
      BY <1>4, <1>5, <1>7
    <2> QED
      BY <2>1
  <1>9. FrameOK(mem, g, Current.script)
    BY <1>1, <1>2, <1>4 DEF FrameKernelInv, MemOK, PagesOK
  <1>10. OfScript(mem[pc].value, Current.script)
    BY <1>2, <1>8, <1>9 DEF FrameOK, LineOK, Executable
  <1>11. pc + 1 \in 3 * g .. 3 * g + 3
    BY <1>5, <1>8
  <1> QED
    BY <1>1, <1>2, <1>4, <1>10, <1>11 DEF Line, PcbOK

\* A line without run.
LEMMA CommandLemma ==
    ASSUME WholeFrames, FrameKernelInv, Executable
    PROVE  Command.op # "run"
  <1>1. OfScript(Line, Current.script) /\ Current.script \in Script
    BY LineLemma
  <1>2. CASE Line.tail
    BY <1>2 DEF Command
  <1>3. CASE ~Line.tail
    <2>1. Line.script \in Script /\ Line.line \in 1 .. Len(Lines[Line.script])
      BY <1>1, <1>3 DEF OfScript
    <2>2. Command = Lines[Line.script][Line.line]
      BY <1>3 DEF Command
    <2> QED
      BY <2>1, <2>2 DEF WholeFrames
  <1> QED
    BY <1>2, <1>3

\* What executing a line does to the process.
LEMMA CountLemma ==
    ASSUME WholeFrames, FrameKernelInv, Executable, pcb' = [pcb EXCEPT ![turn.pid].PC = @ + 1]
    PROVE  Counted(Current.PC + 1) /\ InPage(pcb'[turn.pid], turn.page)
  <1>1. turn.pid \in DOMAIN pcb /\ turn.page \in Page
    BY RunningLemma DEF Executable
  <1>2. PICK pc \in Int : pc = Current.PC + 1
    BY LineLemma
  <1>3. pcb' = [pcb EXCEPT ![turn.pid] = [@ EXCEPT !.PC = pc]]
    BY <1>1, <1>2 DEF Current
  <1>4. Counted(pc)
    BY <1>1, <1>3, CountedLemma
  <1>5. PICK g : g = Current.page_table[turn.page]
    OBVIOUS
  <1>6. g # -1 /\ pc \in 3 * g .. 3 * g + 3
    BY <1>2, <1>5, LineLemma
  <1>7. pcb'[turn.pid].page_table[turn.page] = g /\ pcb'[turn.pid].PC = pc
    BY <1>1, <1>4, <1>5 DEF Counted, Current
  <1> QED
    BY <1>1, <1>2, <1>4, <1>6, <1>7 DEF InPage

\* The history of lines keeps the scripts.
LEMMA RecordedLemma ==
    ASSUME WholeFrames, FrameKernelInv, Executable, Recorded
    PROVE  /\ HistoryKept
           /\ last'.pid = turn.pid /\ last'.script = procs[turn.pid].script
  <1>1. turn.pid \in DOMAIN pcb
    BY RunningLemma DEF Executable
  <1>2. turn.pid \in DOMAIN procs /\ procs[turn.pid].script = Current.script
        /\ \A q \in DOMAIN procs : procs[q] \in [script : Script, done : Nat]
    BY <1>1 DEF FrameKernelInv, PidsInv, Current
  <1>3. last'.pid = turn.pid /\ last'.script = procs[turn.pid].script
    BY <1>2, LineLemma DEF Recorded, OfScript
  <1>4. PICK t \in DOMAIN procs : t = turn.pid
    BY <1>2
  <1>5. procs' = [procs EXCEPT ![t] = [procs[t] EXCEPT !.done = procs[t].done + 1]]
    BY <1>4 DEF Recorded
  <1>6. PICK d \in Nat : d = procs[t].done + 1
    BY <1>2
  <1>7. [procs[t] EXCEPT !.done = d] = [script |-> procs[t].script, done |-> d]
    BY <1>2
  <1>8. procs' = [procs EXCEPT ![t] = [script |-> procs[t].script, done |-> d]]
    BY <1>5, <1>6, <1>7
  <1>9. \A q \in DOMAIN procs : /\ procs'[q] \in [script : Script, done : Nat]
                                /\ procs'[q].script = procs[q].script
    BY <1>2, <1>8
  <1> QED
    BY <1>3, <1>8, <1>9 DEF HistoryKept

LEMMA RunLineInv ==
    ASSUME WholeFrames, FrameKernelInv, RunLine
    PROVE  FrameKernelInv'
  <1>1. /\ Executable /\ mode = "run" /\ load = NoLoad
        /\ turn.pid \in DOMAIN pcb /\ turn.pid \in Nat \ {0} /\ turn.page \in Page /\ turn.left \in Int
        /\ turn = [pid |-> turn.pid, page |-> turn.page, left |-> turn.left]
        /\ ~Queued(turn.pid) /\ \A q \in DOMAIN pcb : q = turn.pid \/ Queued(q)
    BY RunningLemma DEF RunLine, Executable, FrameKernelInv, StageInv
  <1>2. pcb' = [pcb EXCEPT ![turn.pid].PC = @ + 1] /\ Recorded /\ EndTurn(queue)
    BY DEF RunLine
  <1>3. Counted(Current.PC + 1) /\ InPage(pcb'[turn.pid], turn.page)
    BY <1>1, <1>2, CountLemma
  <1>4. /\ DOMAIN pcb' = DOMAIN pcb /\ \A q \in DOMAIN pcb : pcb'[q].script = pcb[q].script
        /\ ProcsOK(pcb') /\ MemOK(mem, pcb')
    BY <1>3 DEF Counted
  <1>5. HistoryKept
    BY <1>1, <1>2, RecordedLemma
  <1>6. mem' = Effect(mem, Command) /\ last_used' = UsedNow(last_used, Current.PC) /\ timer' = timer + 1
        /\ UNCHANGED <<pid_counter, args, policy, load>>
    BY DEF RunLine
  <1>7. MemOK(mem', pcb')
    <2>1. OnMemory(mem)
      BY DEF FrameKernelInv, MemOK
    <2>2. SameFrames(mem, mem')
      BY <1>6, <2>1, EffectLemma
    <2> QED
      BY <1>4, <2>2, SameFramesLemma
  <1>8. UsedInv'
    BY <1>6, UsedNowLemma DEF FrameKernelInv, UsedInv
  <1>9. CASE turn.left > 1
    <2>1. turn' = [pid |-> turn.pid, page |-> turn.page, left |-> turn.left - 1]
          /\ mode' = "run" /\ queue' = queue
      BY <1>1, <1>2, <1>9 DEF EndTurn
    <2>2. PidsKept
      BY <1>1, <1>4, <1>5, <1>6, <2>1 DEF PidsKept, FrameKernelInv, PidsInv, Queued, NoLoad
    <2>3. StageInv'
      BY <1>1, <1>6, <2>1 DEF StageInv, FrameKernelInv
    <2>4. RunInv'
      BY <1>3, <2>1 DEF RunInv
    <2>5. PidsInv'
      BY <2>2, PidsLemma DEF FrameKernelInv
    <2> QED
      BY <1>4, <1>7, <1>8, <2>3, <2>4, <2>5 DEF FrameKernelInv
  <1>10. CASE ~(turn.left > 1)
    <2>1. turn' = NoTurn /\ mode' = "schedule" /\ queue' = Append(queue, turn.pid)
      BY <1>2, <1>10 DEF EndTurn
    <2>2. /\ queue' \in Seq(DOMAIN pcb) /\ Once(queue')
          /\ \A y : Has(queue', y) <=> Has(queue, y) \/ y = turn.pid
      BY <1>1, <2>1, AppendLemma DEF FrameKernelInv, PidsInv, Queued
    <2>3. PidsKept
      BY <1>1, <1>4, <1>5, <1>6, <2>1, <2>2 DEF PidsKept, FrameKernelInv, PidsInv, Queued, NoLoad, NoTurn
    <2>4. StageInv' /\ RunInv'
      <3>1. 0 \in Page
        BY FrameKernelAssumption DEF Page
      <3> QED
        BY <1>1, <1>6, <2>1, <3>1 DEF StageInv, RunInv, FrameKernelInv, NoTurn, NoLoad
    <2>5. PidsInv'
      BY <2>3, PidsLemma DEF FrameKernelInv
    <2> QED
      BY <1>4, <1>7, <1>8, <2>4, <2>5 DEF FrameKernelInv
  <1> QED
    BY <1>9, <1>10

\* A line with quit ends the shell.
LEMMA QuitLineInv ==
    ASSUME WholeFrames, FrameKernelInv, RunOrQuitLine
    PROVE  FrameKernelInv'
  <1>1. /\ Executable /\ load = NoLoad /\ turn.pid \in DOMAIN pcb /\ turn.pid \in Nat \ {0}
        /\ ~Queued(turn.pid) /\ \A q \in DOMAIN pcb : q = turn.pid \/ Queued(q)
    BY RunningLemma DEF RunOrQuitLine, Executable, FrameKernelInv, StageInv
  <1>2. pcb' = [pcb EXCEPT ![turn.pid].PC = @ + 1] /\ Recorded
    BY DEF RunOrQuitLine
  <1>3. mode' = "exited"
    BY <1>1, CommandLemma DEF RunOrQuitLine
  <1>4. Counted(Current.PC + 1)
    BY <1>1, <1>2, CountLemma
  <1>5. HistoryKept
    BY <1>1, <1>2, RecordedLemma
  <1>6. UNCHANGED <<mem, last_used, timer, queue, pid_counter, args, policy, load, turn>>
    BY DEF RunOrQuitLine, store
  <1>7. PidsKept
    BY <1>1, <1>4, <1>5, <1>6 DEF Counted, PidsKept, FrameKernelInv, PidsInv, Queued, NoLoad
  <1>8. StageInv' /\ RunInv'
    BY <1>3, <1>6 DEF StageInv, RunInv, FrameKernelInv
  <1>9. PidsInv' /\ UsedInv'
    BY <1>6, <1>7, PidsLemma DEF FrameKernelInv, UsedInv
  <1> QED
    BY <1>4, <1>6, <1>8, <1>9 DEF FrameKernelInv, Counted

LEMMA NextInv ==
    ASSUME WholeFrames, FrameKernelInv, [Next]_vars
    PROVE  FrameKernelInv'
  <1>1. CASE UNCHANGED vars
    BY <1>1, UnchangedInv
  <1>2. CASE User
    BY <1>2, UserInv
  <1>3. CASE NextScript
    BY <1>3, NextScriptInv
  <1>4. CASE NoSuchFile
    BY <1>4, NoSuchFileInv
  <1>5. CASE LoadFirst
    BY <1>5, LoadFirstInv
  <1>6. CASE LoadSecond
    BY <1>6, LoadSecondInv
  <1>7. CASE Dispatch
    BY <1>7, DispatchInv
  <1>8. CASE LoadLost
    BY <1>8, LoadLostInv
  <1>9. CASE Return
    BY <1>9, ReturnInv
  <1>10. CASE NextPage
    BY <1>10, NextPageInv
  <1>11. CASE PageFault
    BY <1>11, PageFaultInv
  <1>12. CASE LoadFault
    BY <1>12, LoadFaultInv
  <1>13. CASE LoadFails
    BY <1>13, LoadFailsInv
  <1>14. CASE Ends
    BY <1>14, EndsInv
  <1>15. CASE Crashes
    BY <1>15, CrashesInv
  <1>16. CASE RunLine
    BY <1>16, RunLineInv
  <1>17. CASE RunOrQuitLine
    BY <1>17, QuitLineInv
  <1> QED
    BY <1>1, <1>2, <1>3, <1>4, <1>5, <1>6, <1>7, <1>8, <1>9, <1>10, <1>11, <1>12, <1>13, <1>14, <1>15,
       <1>16, <1>17, NotNested DEF Next, Kernel

--------------------------------------------------------------------------------
(***************************************************************************)
(* While no frame is taken, pages are in place and lines in order.         *)
(***************************************************************************)

\* The memory has a hole whenever a page is to be loaded.
NothingTaken == mode \in {"init", "lost", "fault"} => ~Evicts

\* What the memory has of line n of a script.
PageLine(s, n) == [var |-> s, value |-> IF n <= Len(Lines[s])
                                        THEN [script |-> s, line |-> n, tail |-> FALSE] ELSE None]

Holds(m, g, s, i) == \A j \in 0 .. 2 : m[3 * g + j] = PageLine(s, 3 * i + j + 1)

Stored(m, ps) ==
    \A q \in DOMAIN ps : \A i \in Page :
        ps[q].page_table[i] # -1 => Holds(m, ps[q].page_table[i], ps[q].script, i)

\* Holes are behind all frames in use.
Above(m, ps) ==
    \A g \in Frame : m[3 * g].var = None =>
        \A q \in DOMAIN ps : \A i \in Page : ps[q].page_table[i] < g

\* Pages are loaded one after the other, into ever higher frames, until the file ends.
Ordered(p) ==
    /\ ~p.tail
    /\ p.eof => p.pos = Len(Lines[p.script])
    /\ p.pos = Len(Lines[p.script]) \/ p.pos % 3 = 0
    /\ \A i \in Page : p.page_table[i] # -1 <=> 3 * i < p.pos
    /\ \A i, k \in Page : i < k /\ p.page_table[k] # -1 => p.page_table[i] < p.page_table[k]

Layout(m, ps) == Stored(m, ps) /\ Above(m, ps) /\ \A q \in DOMAIN ps : Ordered(ps[q])

\* The process p is in page i, d lines having been executed.
At(p, i, d) == /\ InPage(p, i)
               /\ IF p.page_table[i] = -1 THEN Len(Lines[p.script]) = 0 /\ d = 0
                  ELSE d = 3 * i + p.PC - 3 * p.page_table[i]

Done(q) == procs[q].done

WaitInv == \A q \in DOMAIN pcb : Queued(q) => \E i \in Page : At(pcb[q], i, Done(q))

BeginInv == mode = "init" =>
                /\ Done(load.pid) = 0
                /\ load.page = 0 => Loading.pos = 0
                /\ load.page = 1 => /\ Loading.page_table[1] = -1
                                    /\ Loading.page_table[0] # -1 \/ Len(Lines[Loading.script]) = 0

TurnInv == /\ mode # "lost"
           /\ mode \in {"run", "fault"} => At(Current, turn.page, Done(turn.pid))
           /\ mode = "fault" => /\ load.page = turn.page + 1
                                /\ Current.page_table[load.page] = -1
                                /\ Current.page_table[turn.page] # -1
                                /\ Current.PC = 3 * Current.page_table[turn.page] + 3

CountInv == /\ \A q \in DOMAIN procs : /\ q \in Nat /\ q < pid_counter
                                       /\ Done(q) <= Len(Lines[procs[q].script])
            /\ pid_counter + Len(args) <= MaxPid + 1

InOrderInv == Layout(mem, pcb) /\ WaitInv /\ BeginInv /\ TurnInv /\ CountInv

\* The scripts fit into the page tables, and None is none of their lines.
ScriptsFit ==
    \A s \in Script : /\ Len(Lines[s]) <= 3 * PAGE_TABLE_SIZE
                      /\ \A k \in 1 .. Len(Lines[s]) : [script |-> s, line |-> k, tail |-> FALSE] # None

\* Who has gone has executed its whole script.
FinishedInv == \A q \in DOMAIN procs \ DOMAIN pcb : Done(q) = Len(Lines[procs[q].script])

\* A process may go or begin; the others keep their pages.
LEMMA LayoutKept ==
    ASSUME WholeFrames, NEW m, NEW old, NEW new, Layout(m, old),
           \A q \in DOMAIN new :
               /\ Ordered(new[q])
               /\ \/ \A i \in Page : new[q].page_table[i] = -1
                  \/ /\ q \in DOMAIN old /\ new[q].script = old[q].script
                     /\ new[q].page_table = old[q].page_table
    PROVE  Layout(m, new)
  <1>1. Stored(m, new)
    <2> SUFFICES ASSUME NEW q \in DOMAIN new, NEW i \in Page, new[q].page_table[i] # -1
                 PROVE  Holds(m, new[q].page_table[i], new[q].script, i)
      BY DEF Stored
    <2>1. q \in DOMAIN old /\ new[q].script = old[q].script /\ new[q].page_table[i] = old[q].page_table[i]
      OBVIOUS
    <2>2. Holds(m, old[q].page_table[i], old[q].script, i)
      BY <2>1 DEF Layout, Stored
    <2> QED
      BY <2>1, <2>2
  <1>2. Above(m, new)
    <2> SUFFICES ASSUME NEW g \in Frame, m[3 * g].var = None, NEW q \in DOMAIN new, NEW i \in Page
                 PROVE  new[q].page_table[i] < g
      BY DEF Above
    <2>1. CASE new[q].page_table[i] = -1
      BY <2>1, FrameLemma
    <2>2. CASE new[q].page_table[i] # -1
      <3>1. q \in DOMAIN old /\ new[q].page_table[i] = old[q].page_table[i]
        BY <2>2
      <3> QED
        BY <3>1 DEF Layout, Above
    <2> QED
      BY <2>1, <2>2
  <1> QED
    BY <1>1, <1>2 DEF Layout

LEMMA LayoutSameFrames ==
    ASSUME WholeFrames, NEW m, NEW n, NEW ps, Layout(m, ps), ProcsOK(ps), SameFrames(m, n)
    PROVE  Layout(n, ps)
  <1>1. ASSUME NEW g \in Frame, NEW j \in 0 .. 2 PROVE n[3 * g + j] = m[3 * g + j]
    <2>1. 3 * g + j \in 0 .. THRESHOLD - 1
      BY FrameLemma
    <2> QED
      BY <2>1 DEF SameFrames
  <1>2. Stored(n, ps)
    <2> SUFFICES ASSUME NEW q \in DOMAIN ps, NEW i \in Page, ps[q].page_table[i] # -1
                 PROVE  Holds(n, ps[q].page_table[i], ps[q].script, i)
      BY DEF Stored
    <2>1. ps[q].page_table[i] \in Frame
      BY DEF ProcsOK, PcbOK
    <2>2. Holds(m, ps[q].page_table[i], ps[q].script, i)
      BY DEF Layout, Stored
    <2> QED
      BY <1>1, <2>1, <2>2 DEF Holds
  <1>3. Above(n, ps)
    <2> SUFFICES ASSUME NEW g \in Frame, n[3 * g].var = None PROVE m[3 * g].var = None
      BY DEF Above, Layout
    <2>1. 3 * g + 0 = 3 * g /\ n[3 * g + 0] = m[3 * g + 0]
      BY <1>1, FrameLemma
    <2> QED
      BY <2>1
  <1> QED
    BY <1>2, <1>3 DEF Layout

\* The program counter may move.
LEMMA OrderedMoved ==
    ASSUME NEW p, PcbOK(p), Ordered(p), NEW pc \in Int
    PROVE  Ordered([p EXCEPT !.PC = pc])
  <1>1. p = [script |-> p.script, pos |-> p.pos, tail |-> p.tail, eof |-> p.eof,
             page_table |-> p.page_table, PC |-> p.PC]
    BY DEF PcbOK
  <1>2. PICK q : q = [p EXCEPT !.PC = pc]
    OBVIOUS
  <1>3. q.script = p.script /\ q.pos = p.pos /\ q.tail = p.tail /\ q.eof = p.eof /\ q.page_table = p.page_table
    BY <1>1, <1>2
  <1>4. Ordered(q)
    BY <1>3 DEF Ordered
  <1> QED
    BY <1>2, <1>4

\* The lines that fgets will deliver, in order.
LEMMA UnreadPlain ==
    ASSUME NEW p, PcbOK(p), ~p.tail
    PROVE  /\ Len(Unread(p)) = Len(Lines[p.script]) - p.pos
           /\ \A k \in 1 .. Len(Unread(p)) :
                  Unread(p)[k] = [script |-> p.script, line |-> p.pos + k, tail |-> FALSE]
  <1> DEFINE x == Len(Lines[p.script]) - (p.pos + 1) + 1
  <1>1. p.pos \in Nat /\ Len(Lines[p.script]) \in Nat /\ p.pos <= Len(Lines[p.script])
    BY FrameKernelAssumption DEF PcbOK
  <1>2. Unread(p) = [k \in 1 .. x |-> [script |-> p.script, line |-> p.pos + 1 + k - 1,
                                       tail |-> p.tail /\ k = 1]]
    BY DEF Unread
  <1>3. x \in Nat /\ x = Len(Lines[p.script]) - p.pos
    BY <1>1
  <1> HIDE DEF x
  <1>4. Len(Unread(p)) = x
    BY <1>2, <1>3
  <1>5. ASSUME NEW k \in 1 .. x
        PROVE  Unread(p)[k] = [script |-> p.script, line |-> p.pos + k, tail |-> FALSE]
    <2>1. p.pos + 1 + k - 1 = p.pos + k
      BY <1>1, <1>3
    <2>2. (p.tail /\ k = 1) = FALSE
      OBVIOUS
    <2>3. Unread(p)[k] = [script |-> p.script, line |-> p.pos + 1 + k - 1, tail |-> p.tail /\ k = 1]
      BY <1>2
    <2> QED
      BY <2>1, <2>2, <2>3
  <1> QED
    BY <1>3, <1>4, <1>5

\* The next page of a process is to be loaded, and there is a hole for it.
LoadsNext ==
    /\ LoadPre /\ Layout(mem, pcb) /\ ~Evicts
    /\ Loading.page_table[load.page] = -1
    /\ \/ load.page = 0
       \/ load.page - 1 \in Page /\ Loading.page_table[load.page - 1] # -1
       \/ Loading.pos = Len(Lines[Loading.script])

\* The process that loads is at the end of its file or at the page's first line.
LEMMA NextLine ==
    ASSUME LoadsNext
    PROVE  /\ PcbOK(Loading) /\ Ordered(Loading) /\ load.page \in Nat /\ Loading.pos \in Nat
           /\ Len(Lines[Loading.script]) \in Nat /\ Loading.pos <= Len(Lines[Loading.script])
           /\ \/ Loading.pos = Len(Lines[Loading.script])
              \/ Loading.pos = 3 * load.page /\ ~Loading.eof
  <1>1. PcbOK(Loading) /\ Ordered(Loading) /\ load.page \in Page
    BY DEF LoadsNext, LoadPre, ProcsOK, Layout, Loading
  <1>2. PICK pos \in Nat, l \in Nat : pos = Loading.pos /\ l = Len(Lines[Loading.script]) /\ pos <= l
    BY <1>1, FrameKernelAssumption DEF PcbOK
  <1>3. PICK c \in Nat : c = load.page
    BY <1>1 DEF Page
  <1>4. pos <= 3 * c
    BY <1>1, <1>2, <1>3 DEF LoadsNext, Ordered
  <1>5. pos = l \/ (pos % 3 = 0 /\ ~Loading.eof)
    BY <1>1, <1>2 DEF Ordered
  <1>6. c = 0 \/ 3 * (c - 1) < pos \/ pos = l
    <2>1. CASE load.page - 1 \in Page /\ Loading.page_table[load.page - 1] # -1
      BY <1>1, <1>2, <1>3, <2>1 DEF Ordered
    <2> QED
      BY <1>2, <1>3, <2>1 DEF LoadsNext
  <1>7. pos = l \/ pos = 3 * c
    BY <1>4, <1>5, <1>6
  <1> QED
    BY <1>1, <1>2, <1>3, <1>5, <1>7

\* The page goes to the first hole.
LEMMA FirstHole ==
    ASSUME WholeFrames, LoadsNext, NEW r \in Loads, ~Loading.eof
    PROVE  \E g \in Frame : /\ Place(r, g) /\ mem[3 * g].var = None
                            /\ \A h \in Frame : mem[3 * h].var = None => g <= h
  <1>1. Holes # {}
    BY DEF LoadsNext, Evicts
  <1>2. r.at = Min(Holes) /\ r.n = LinesRead(r.at)
    BY <1>1 DEF Loads, FirstLine
  <1>3. PICK g0 \in Frame : r.at = 3 * g0
    BY <1>1, <1>2, HoleLemma DEF LoadsNext, LoadPre, MemOK
  <1>4. \E g \in Frame : Place(r, g)
    <2> SUFFICES ASSUME r.n = 0, ~EndsWith(r), ~Misses(r) PROVE FALSE
      BY PlaceLemma DEF LoadsNext
    <2>1. g0 \in Nat /\ 3 * g0 + 2 < THRESHOLD /\ THRESHOLD \in Nat
      BY FrameLemma
    <2> QED
      BY <1>3, <2>1 DEF Misses, FRAME_SIZE
  <1>5. PICK g \in Frame : Place(r, g)
    BY <1>4
  <1>6. mem[3 * g].var = None
    BY <1>5 DEF Place, LoadsNext
  <1>7. ASSUME NEW h \in Frame, mem[3 * h].var = None PROVE g <= h
    <2>1. h \in Nat /\ g \in Nat /\ 3 * h + 0 \in 0 .. THRESHOLD - 1 /\ 3 * h + 0 = 3 * h
      BY FrameLemma
    <2>2. 3 * h \in Holes
      BY <1>7, <2>1 DEF Holes
    <2>3. Min(Holes) <= 3 * h
      <3>1. Holes \in SUBSET Nat
        BY FrameKernelAssumption DEF Holes
      <3> QED
        BY <2>2, <3>1, MinLemma
    <2>4. r.at = 3 * g
      BY <1>5 DEF Place
    <2> QED
      BY <1>2, <2>1, <2>3, <2>4
  <1> QED
    BY <1>5, <1>6, <1>7

\* The process after the page was loaded into a hole.
LEMMA LoadedFields ==
    ASSUME LoadsNext, NEW r, r.n \in Nat
    PROVE  /\ Others(r) = pcb
           /\ Loaded(r).script = Loading.script /\ Loaded(r).PC = Loading.PC
           /\ Loaded(r).pos = Loading.pos + r.n /\ ~Loaded(r).tail
           /\ Loaded(r).eof = (Loading.eof \/ EndsWith(r) \/ Misses(r))
           /\ Loaded(r).page_table = IF r.n > 0 THEN [Loading.page_table EXCEPT ![load.page] = TakenFrame(r)]
                                     ELSE Loading.page_table
  <1>1. PcbOK(Loading) /\ ~Loading.tail /\ Loading.pos \in Nat
    BY NextLine DEF Ordered
  <1>2. Loading = [script |-> Loading.script, pos |-> Loading.pos, tail |-> Loading.tail,
                   eof |-> Loading.eof, page_table |-> Loading.page_table, PC |-> Loading.PC]
    BY <1>1 DEF PcbOK
  <1>3. Others(r) = pcb /\ OwnTable(r) = Loading.page_table
    BY DEF LoadsNext, Others, OwnTable
  <1> DEFINE pos == Loading.pos + r.n - (IF Loading.tail /\ r.n > 0 THEN 1 ELSE 0)
             tail == Loading.tail /\ r.n = 0
             eof == Loading.eof \/ EndsWith(r) \/ Misses(r)
             T == IF r.n > 0 THEN [Loading.page_table EXCEPT ![load.page] = TakenFrame(r)]
                  ELSE Loading.page_table
  <1>4. pos = Loading.pos + r.n /\ ~tail
    BY <1>1
  <1>5. Loaded(r) = [Loading EXCEPT !.pos = pos, !.tail = tail, !.eof = eof, !.page_table = T]
    BY <1>3 DEF Loaded
  <1> HIDE DEF pos, tail, eof, T
  <1>6. Loaded(r) = [script |-> Loading.script, pos |-> pos, tail |-> tail, eof |-> eof,
                     page_table |-> T, PC |-> Loading.PC]
    BY <1>2, <1>5
  <1>7. /\ Loaded(r).script = Loading.script /\ Loaded(r).PC = Loading.PC
        /\ Loaded(r).pos = pos /\ Loaded(r).tail = tail /\ Loaded(r).eof = eof
        /\ Loaded(r).page_table = T
    BY <1>6
  <1> QED
    BY <1>3, <1>4, <1>7 DEF eof, T

\* What the frame holds after the page was loaded into it.
LEMMA PageLoaded ==
    ASSUME WholeFrames, LoadsNext, NEW r, NEW g \in Frame, Place(r, g), r.n > 0
    PROVE  Holds(LoadedMem(r), g, Loading.script, load.page)
  <1> DEFINE m == LoadedMem(r)
             script == Loading.script
             u == Len(Unread(Loading))
  <1>1. /\ g \in Nat /\ r.at = 3 * g /\ r.n \in 0 .. 3
        /\ \A j \in 0 .. 2 : 3 * g + j \in Mem!Memory /\ 3 * g + j < THRESHOLD
    BY FrameLemma DEF Place
  <1>2. /\ PcbOK(Loading) /\ ~Loading.tail /\ load.page \in Nat /\ Loading.pos \in Nat
        /\ Len(Lines[script]) \in Nat
        /\ Loading.pos = Len(Lines[script]) \/ Loading.pos = 3 * load.page
    BY NextLine DEF Ordered
  <1>3. /\ u = Len(Lines[script]) - Loading.pos
        /\ \A k \in 1 .. u : Unread(Loading)[k] = [script |-> script, line |-> Loading.pos + k, tail |-> FALSE]
    BY <1>2, UnreadPlain
  <1>4. /\ r.n <= u /\ (r.n < 3 => r.n = u)
        /\ Loading.pos = 3 * load.page
    <2>1. r.n <= u /\ (r.n < 3 => r.n = u)
      BY DEF Place
    <2> HIDE DEF u, script
    <2>2. PICK n \in 0 .. 3, pos \in Nat, l \in Nat : n = r.n /\ pos = Loading.pos /\ l = Len(Lines[script])
      BY <1>1, <1>2
    <2>3. n <= l - pos /\ n > 0
      BY <1>3, <2>1, <2>2
    <2>4. pos # l
      BY <2>3
    <2> QED
      BY <1>2, <2>1, <2>2, <2>4
  <1>5. Read(r) = 3 * g .. 3 * g + r.n - 1
    BY <1>1 DEF Read
  <1>6. r.n < 3 => Padding(r) = 3 * g + r.n .. 3 * g + 2
    <2>1. r.n < 3 => EndsWith(r)
      BY <1>4 DEF EndsWith, WholeFrames, PcbOK
    <2> QED
      BY <1>1, <2>1 DEF Padding
  <1>10. PICK n \in Int, x \in Int, l \in Nat, pos \in Nat, c \in Nat :
             /\ n = r.n /\ x = u /\ l = Len(Lines[script]) /\ pos = Loading.pos /\ c = load.page
             /\ n <= x /\ (n < 3 => n = x) /\ x = l - pos /\ pos = 3 * c /\ n >= 0
    <2>1. r.n \in Int /\ r.n >= 0 /\ u \in Int
      BY <1>1, <1>2, <1>3
    <2> HIDE DEF u, script
    <2> QED
      BY <1>2, <1>3, <1>4, <2>1
  <1> HIDE DEF u
  <1> SUFFICES ASSUME NEW j \in 0 .. 2 PROVE m[3 * g + j] = PageLine(script, 3 * load.page + j + 1)
    BY DEF Holds
  <1>7. PICK k \in Mem!Memory : k = 3 * g + j
    BY <1>1
  <1>8. CASE j < r.n
    <2>1. k \in Read(r) /\ k - r.at + 1 = j + 1 /\ j + 1 \in 1 .. x
      <3>1. k \in Read(r) /\ k - r.at + 1 = j + 1
        BY <1>1, <1>5, <1>7, <1>8
      <3>2. j + 1 \in 1 .. x
        BY <1>8, <1>10
      <3> QED
        BY <3>1, <3>2
    <2>2. m[k] = [var |-> script, value |-> Unread(Loading)[k - r.at + 1]]
      BY <2>1 DEF LoadedMem
    <2>3. Unread(Loading)[j + 1] = [script |-> script, line |-> 3 * load.page + j + 1, tail |-> FALSE]
      <3>1. 3 * load.page + j + 1 = Loading.pos + (j + 1)
        BY <1>2, <1>4
      <3> QED
        BY <1>3, <1>10, <2>1, <3>1
    <2>4. 3 * c + j + 1 <= l
      <3>1. j < n /\ n <= x /\ x = l - pos /\ pos = 3 * c
        BY <1>8, <1>10
      <3> QED
        BY ONLY <3>1, j \in 0 .. 2, n \in Int, x \in Int, l \in Nat, pos \in Nat, c \in Nat
    <2> QED
      BY <1>7, <1>10, <2>1, <2>2, <2>3, <2>4 DEF PageLine
  <1>9. CASE ~(j < r.n)
    <2>1. r.n < 3 /\ k \in 3 * g + r.n .. 3 * g + 2 /\ k \notin Read(r)
      BY <1>1, <1>5, <1>7, <1>9
    <2>2. m[k] = [var |-> script, value |-> None]
      BY <1>6, <2>1 DEF LoadedMem
    <2>3. ~(3 * c + j + 1 <= l)
      <3>1. ~(j < n) /\ n <= x /\ (n < 3 => n = x) /\ x = l - pos /\ pos = 3 * c
        BY <1>9, <1>10
      <3> QED
        BY ONLY <3>1, j \in 0 .. 2, n \in Int, x \in Int, l \in Nat, pos \in Nat, c \in Nat
    <2> QED
      BY <1>7, <1>10, <2>2, <2>3 DEF PageLine
  <1> QED
    BY <1>8, <1>9

\* The page is loaded into frame g, or there was nothing left to load.
LoadedInto(r, g) ==
    /\ g \in Frame /\ Place(r, g) /\ mem[3 * g].var = None
    /\ \A h \in Frame : mem[3 * h].var = None => g <= h

\* What is known of the file after a page was loaded.
FileRead(p, n) ==
    /\ ~p.tail /\ p.pos = Loading.pos + n /\ p.script = Loading.script
    /\ p.eof => p.pos = Len(Lines[p.script])
    /\ n > 0 => /\ Loading.pos = 3 * load.page
                /\ p.pos = Len(Lines[p.script]) \/ n = 3
    /\ n = 0 => p.pos = Len(Lines[p.script])

LEMMA FileReadLemma ==
    ASSUME WholeFrames, LoadsNext, NEW r \in Loads, NEW g, LoadedInto(r, g)
    PROVE  FileRead(Loaded(r), r.n) /\ r.n \in 0 .. 3
  <1> DEFINE u == Len(Unread(Loading))
             len == Len(Lines[Loading.script])
  <1>1. /\ PcbOK(Loading) /\ ~Loading.tail /\ load.page \in Nat
        /\ Loading.pos = len \/ Loading.pos = 3 * load.page
        /\ Loading.eof => Loading.pos = len
    BY NextLine DEF Ordered
  <1>2. u = len - Loading.pos
    BY <1>1, UnreadPlain
  <1>3. r.n \in 0 .. 3 /\ r.n <= u /\ (r.n < 3 => r.n = u) /\ ~Loading.eof
    BY DEF LoadedInto, Place
  <1>4. EndsWith(r) \/ Misses(r) => r.n = u
    <2>1. Misses(r) => r.n < 3
      BY DEF Misses, FRAME_SIZE
    <2> QED
      BY <1>3, <2>1 DEF EndsWith
  <1>5. /\ ~Loaded(r).tail /\ Loaded(r).pos = Loading.pos + r.n /\ Loaded(r).script = Loading.script
        /\ Loaded(r).eof = (Loading.eof \/ EndsWith(r) \/ Misses(r))
    <2>1. r.n \in Nat
      BY <1>3
    <2> QED
      BY <2>1, LoadedFields
  <1>6. PICK n \in 0 .. 3, x \in Int, l \in Nat, pos \in Nat :
            n = r.n /\ x = u /\ l = len /\ pos = Loading.pos
    <2>1. len \in Nat /\ Loading.pos \in Nat
      BY NextLine
    <2>2. u \in Int
      BY <1>2, <2>1
    <2> HIDE DEF u, len
    <2> QED
      BY <1>3, <2>1, <2>2
  <1> HIDE DEF u, len
  <1>7. x = l - pos /\ n <= x /\ (n < 3 => n = x)
    BY <1>2, <1>3, <1>6
  <1>8. n = x => pos + n = l
    BY ONLY <1>7, n \in 0 .. 3, x \in Int, l \in Nat, pos \in Nat
  <1>9. n > 0 => pos # l
    BY ONLY <1>7, n \in 0 .. 3, x \in Int, l \in Nat, pos \in Nat
  <1>10. n = 3 \/ n = x
    BY <1>7
  <1>11. n > 0 => /\ Loading.pos = 3 * load.page
                  /\ Loaded(r).pos = len \/ n = 3
    BY <1>1, <1>5, <1>6, <1>8, <1>9, <1>10
  <1>12. n = 0 => Loaded(r).pos = len
    BY <1>5, <1>6, <1>8, <1>10
  <1>13. Loaded(r).eof => Loaded(r).pos = len
    BY <1>3, <1>4, <1>5, <1>6, <1>8
  <1> QED
    BY <1>3, <1>5, <1>6, <1>11, <1>12, <1>13 DEF FileRead, len

\* Pages stay in order.
LEMMA OrderedLoaded ==
    ASSUME WholeFrames, LoadsNext, NEW r \in Loads, NEW g, LoadedInto(r, g)
    PROVE  Ordered(Loaded(r))
  <1>1. FileRead(Loaded(r), r.n) /\ r.n \in 0 .. 3
    BY FileReadLemma
  <1>2. TakenFrame(r) = g /\ g \in Frame /\ g # -1 /\ g \in Nat
    BY FrameLinesLemma, FrameLemma DEF LoadedInto, Place
  <1>3. /\ Ordered(Loading) /\ Loading.pos \in Nat /\ load.page \in Page
        /\ Loading.page_table \in [Page -> Frame \cup {-1}]
        /\ Loading = pcb[load.pid] /\ load.pid \in DOMAIN pcb
    BY NextLine DEF LoadsNext, LoadPre, Loading, PcbOK
  <1>4. PICK p : p = Loaded(r)
    OBVIOUS
  <1>5. PICK t : t = Loading.page_table
    OBVIOUS
  <1>6. PICK c \in Nat : c = load.page
    BY <1>3 DEF Page
  <1>7. PICK n \in 0 .. 3, pos \in Nat : n = r.n /\ pos = Loading.pos
    BY <1>1, <1>3
  <1>8. p.page_table = IF n > 0 THEN [t EXCEPT ![c] = g] ELSE t
    <2>1. r.n \in Nat
      BY <1>1
    <2> QED
      BY <1>2, <1>4, <1>5, <1>6, <1>7, <2>1, LoadedFields
  <1>9. /\ \A i \in Page : t[i] # -1 <=> 3 * i < pos
        /\ \A i, k \in Page : i < k /\ t[k] # -1 => t[i] < t[k]
        /\ pos % 3 = 0 \/ pos = Len(Lines[Loading.script])
    BY <1>3, <1>5, <1>7 DEF Ordered
  <1>10. \A i \in Page : t[i] < g
    BY <1>3, <1>5 DEF LoadsNext, LoadedInto, Layout, Above
  <1>11. /\ ~p.tail /\ p.pos = pos + n /\ p.script = Loading.script
         /\ p.eof => p.pos = Len(Lines[p.script])
         /\ n > 0 => pos = 3 * c /\ (p.pos = Len(Lines[p.script]) \/ n = 3)
         /\ n = 0 => p.pos = Len(Lines[p.script])
    BY <1>1, <1>4, <1>6, <1>7 DEF FileRead
  <1>12. CASE n = 0
    <2>1. p.page_table = t /\ p.pos = pos
      BY <1>8, <1>11, <1>12
    <2> QED
      BY <1>4, <1>9, <1>11, <1>12, <2>1 DEF Ordered
  <1>13. CASE n > 0
    <2>1. pos = 3 * c /\ p.pos = 3 * c + n
      BY <1>11, <1>13
    <2>2. p.pos = Len(Lines[p.script]) \/ p.pos % 3 = 0
      BY <1>11, <1>13, <2>1
    <2>3. p.page_table[c] = g /\ \A i \in Page : i # c => p.page_table[i] = t[i]
      BY <1>3, <1>5, <1>6, <1>8, <1>13
    <2>4. Page \subseteq Nat
      BY FrameKernelAssumption DEF Page
    <2>5. ASSUME NEW i \in Page PROVE p.page_table[i] # -1 <=> 3 * i < p.pos
      <3>1. CASE i = c
        BY <1>2, <1>13, <2>1, <2>3, <3>1
      <3>2. CASE i # c
        <4>1. t[i] # -1 <=> 3 * i < 3 * c
          BY <1>9, <2>1
        <4>2. 3 * i < 3 * c <=> 3 * i < 3 * c + n
          BY <1>13, <2>4, <3>2
        <4> QED
          BY <2>1, <2>3, <3>2, <4>1, <4>2
      <3> QED
        BY <3>1, <3>2
    <2>6. ASSUME NEW i \in Page, NEW k \in Page, i < k, p.page_table[k] # -1
          PROVE  p.page_table[i] < p.page_table[k]
      <3>1. CASE k = c
        BY <1>10, <2>3, <2>4, <2>6, <3>1
      <3>2. CASE k # c
        <4>1. t[k] # -1 /\ p.page_table[k] = t[k]
          BY <2>3, <2>6, <3>2
        <4>2. 3 * k < 3 * c
          BY <1>9, <2>1, <4>1
        <4>3. i # c
          BY <2>4, <2>6, <4>2
        <4> QED
          BY <1>9, <2>3, <2>6, <4>1, <4>3
      <3> QED
        BY <3>1, <3>2
    <2> QED
      BY <1>4, <1>11, <2>2, <2>5, <2>6 DEF Ordered
  <1> QED
    BY <1>7, <1>12, <1>13

\* What loading the next page of a process does.
LoadedNext(r) ==
    /\ Others(r) = pcb
    /\ PcbOK(Loaded(r)) /\ Ordered(Loaded(r))
    /\ Loaded(r).script = Loading.script /\ Loaded(r).PC = Loading.PC
    /\ \A i \in Page \ {load.page} : Loaded(r).page_table[i] = Loading.page_table[i]
    /\ r.n \in Nat
    /\ r.n > 0 => Loaded(r).page_table[load.page] \in Frame
    /\ r.n = 0 => /\ Loaded(r).page_table = Loading.page_table
                  /\ Loading.pos = Len(Lines[Loading.script])
    /\ Layout(LoadedMem(r), With(pcb, load.pid, Loaded(r)))

\* Nothing is read, and a hole stays one.
LEMMA NothingLoaded ==
    ASSUME WholeFrames, LoadsNext, NEW r \in Loads, Loading.eof
    PROVE  r.n = 0 /\ LoadedMem(r) = mem /\ ~EndsWith(r) /\ ~Misses(r)
  <1>1. r.n = 0 /\ ~Evicts /\ ~EndsWith(r) /\ ~Misses(r)
    BY PlaceLemma DEF LoadsNext, Place
  <1>2. Holes # {} \/ Holes = {}
    OBVIOUS
  <1>3. r.at \in Int
    <2>1. r.at = FirstLine
      BY DEF Loads
    <2>2. CASE Holes # {}
      <3>1. PICK g \in Frame : Min(Holes) = 3 * g
        BY <2>2, HoleLemma DEF LoadsNext, LoadPre, MemOK
      <3>2. g \in Nat
        BY FrameLemma
      <3> QED
        BY <2>1, <2>2, <3>1, <3>2 DEF FirstLine
    <2>3. CASE Holes = {}
      BY <1>1, <2>1, <2>3, FrameLemma DEF FirstLine
    <2> QED
      BY <2>2, <2>3
  <1>4. Read(r) = {} /\ Padding(r) = {} /\ Taken(r) = {}
    BY <1>1, <1>3 DEF Read, Padding, Taken
  <1>5. LoadedMem(r) = [k \in Mem!Memory |-> mem[k]]
    BY <1>4 DEF LoadedMem
  <1>6. LoadedMem(r) = mem
    BY <1>5 DEF LoadsNext, LoadPre, MemOK, OnMemory
  <1> QED
    BY <1>1, <1>6

LEMMA LayoutLoaded ==
    ASSUME WholeFrames, LoadsNext, NEW r \in Loads, NEW g, LoadedInto(r, g)
    PROVE  Layout(LoadedMem(r), With(pcb, load.pid, Loaded(r)))
  <1> DEFINE m == LoadedMem(r)
             p == Loaded(r)
             ps == With(pcb, load.pid, p)
  <1>1. /\ Place(r, g) /\ g \in Frame /\ g \in Nat /\ TakenFrame(r) = g
        /\ \A h \in Frame : mem[3 * h].var = None => g <= h
    BY FrameLinesLemma, FrameLemma DEF LoadedInto, Place
  <1>2. r.n \in Nat
    BY <1>1 DEF Place
  <1>3. /\ p.script = Loading.script
        /\ p.page_table = IF r.n > 0 THEN [Loading.page_table EXCEPT ![load.page] = g] ELSE Loading.page_table
    BY <1>1, <1>2, LoadedFields
  <1>4. LoadedTo(m, g, r.n)
    BY <1>1, LoadedMemLemma DEF LoadsNext
  <1>5. r.n > 0 => Holds(m, g, Loading.script, load.page)
    BY <1>1, PageLoaded
  <1>6. Ordered(p)
    BY OrderedLoaded
  <1>7. /\ load.pid \in DOMAIN pcb /\ Loading = pcb[load.pid] /\ load.page \in Page
        /\ Loading.page_table \in [Page -> Frame \cup {-1}]
        /\ \A q \in DOMAIN pcb : PcbOK(pcb[q])
        /\ Layout(mem, pcb)
    BY DEF LoadsNext, LoadPre, Loading, ProcsOK, PcbOK
  <1> HIDE DEF m, p
  <1>8. DOMAIN ps = DOMAIN pcb /\ ps[load.pid] = p /\ \A q \in DOMAIN pcb : q # load.pid => ps[q] = pcb[q]
    BY <1>7 DEF With
  <1> HIDE DEF ps
  <1>9. ASSUME NEW q \in DOMAIN pcb, NEW i \in Page
        PROVE  /\ ps[q].script = pcb[q].script
               /\ \/ ps[q].page_table[i] = pcb[q].page_table[i]
                  \/ q = load.pid /\ i = load.page /\ r.n > 0 /\ ps[q].page_table[i] = g
    <2>1. CASE q = load.pid /\ r.n > 0
      BY <1>3, <1>7, <1>8, <2>1
    <2>2. CASE q = load.pid /\ ~(r.n > 0)
      BY <1>3, <1>7, <1>8, <2>2
    <2>3. CASE q # load.pid
      BY <1>8, <2>3
    <2> QED
      BY <2>1, <2>2, <2>3
  <1>10. ASSUME NEW h \in Frame, h # g, NEW j \in 0 .. 2 PROVE m[3 * h + j] = mem[3 * h + j]
    <2>1. 3 * h + j \in Mem!Memory
      BY FrameLemma
    <2>2. \A k \in 0 .. 2 : 3 * h + j # 3 * g + k
      BY <1>1, <1>10, OneFrame
    <2> QED
      BY <1>4, <2>1, <2>2 DEF LoadedTo
  <1>11. ASSUME NEW q \in DOMAIN pcb, NEW i \in Page PROVE pcb[q].page_table[i] < g
    BY <1>7 DEF Layout, Above, LoadedInto
  <1>12. Stored(m, ps)
    <2> SUFFICES ASSUME NEW q \in DOMAIN pcb, NEW i \in Page, ps[q].page_table[i] # -1
                 PROVE  Holds(m, ps[q].page_table[i], ps[q].script, i)
      BY <1>8 DEF Stored
    <2>1. CASE q = load.pid /\ i = load.page /\ r.n > 0 /\ ps[q].page_table[i] = g
      BY <1>5, <1>7, <1>9, <2>1
    <2>2. CASE ps[q].page_table[i] = pcb[q].page_table[i]
      <3>1. PICK h : h = pcb[q].page_table[i]
        OBVIOUS
      <3>2. h \in Frame /\ h # g
        <4>1. h \in Frame \cup {-1}
          BY <1>7, <3>1 DEF PcbOK
        <4>2. h # -1 /\ h < g
          BY <1>11, <2>2, <3>1
        <4>3. h \in Frame /\ h \in Nat
          BY <4>1, <4>2, FrameLemma
        <4> QED
          BY <1>1, <4>2, <4>3
      <3>3. Holds(mem, h, pcb[q].script, i)
        BY <1>7, <2>2, <3>1 DEF Layout, Stored
      <3>4. Holds(m, h, pcb[q].script, i)
        BY <1>10, <3>2, <3>3 DEF Holds
      <3> QED
        BY <1>9, <2>2, <3>1, <3>4
    <2> QED
      BY <1>9, <2>1, <2>2
  <1>13. Above(m, ps)
    <2> SUFFICES ASSUME NEW h \in Frame, m[3 * h].var = None, NEW q \in DOMAIN pcb, NEW i \in Page
                 PROVE  ps[q].page_table[i] < h
      BY <1>8 DEF Above
    <2>1. h \in Nat /\ 3 * h + 0 = 3 * h
      BY FrameLemma
    <2>2. CASE h = g
      <3>1. r.n = 0
        <4> SUFFICES ASSUME r.n > 0 PROVE FALSE
          BY <1>2
        <4>1. m[3 * g + 0].var # None
          BY <1>4 DEF LoadedTo, FrameOK, LineOK
        <4> QED
          BY <2>1, <2>2, <4>1
      <3> QED
        BY <1>9, <1>11, <2>2, <3>1
    <2>3. CASE h # g
      <3>1. mem[3 * h].var = None
        BY <1>10, <2>1, <2>3
      <3>2. g < h
        BY <1>1, <2>1, <2>3, <3>1
      <3>3. pcb[q].page_table[i] < h
        BY <1>7, <3>1 DEF Layout, Above
      <3> QED
        BY <1>9, <3>2, <3>3
    <2> QED
      BY <2>2, <2>3
  <1>14. \A q \in DOMAIN ps : Ordered(ps[q])
    BY <1>6, <1>7, <1>8 DEF Layout
  <1> QED
    BY <1>12, <1>13, <1>14 DEF Layout, m, ps, p

LEMMA LoadNextLemma ==
    ASSUME WholeFrames, LoadsNext, NEW r \in Loads
    PROVE  LoadedNext(r)
  <1>1. LoadPre /\ LoadPost(r, LoadedMem(r), Others(r), Loaded(r))
    BY LoadLemma DEF LoadsNext
  <1>2. /\ PcbOK(Loaded(r)) /\ Loaded(r).script = Loading.script /\ Loaded(r).PC = Loading.PC
        /\ r.n > 0 => Loaded(r).page_table[load.page] \in Frame
    BY <1>1 DEF LoadPost
  <1>3. /\ PcbOK(Loading) /\ Ordered(Loading) /\ load.page \in Page /\ Loading = pcb[load.pid]
        /\ load.pid \in DOMAIN pcb /\ Loading.page_table \in [Page -> Frame \cup {-1}]
    BY <1>1, NextLine DEF LoadPre, PcbOK, Loading
  <1>4. CASE Loading.eof
    <2>1. r.n = 0 /\ LoadedMem(r) = mem /\ ~EndsWith(r) /\ ~Misses(r)
      BY <1>4, NothingLoaded
    <2>2. /\ Others(r) = pcb
          /\ Loaded(r).script = Loading.script /\ Loaded(r).pos = Loading.pos /\ ~Loaded(r).tail
          /\ Loaded(r).page_table = Loading.page_table
      <3>1. r.n \in Nat /\ Loading.pos \in Nat /\ Loading.pos + r.n = Loading.pos
        BY <2>1, NextLine
      <3>2. /\ Others(r) = pcb /\ Loaded(r).script = Loading.script
            /\ Loaded(r).pos = Loading.pos + r.n /\ ~Loaded(r).tail
            /\ Loaded(r).page_table = IF r.n > 0 THEN [Loading.page_table EXCEPT ![load.page] = TakenFrame(r)]
                                       ELSE Loading.page_table
        BY <3>1, LoadedFields
      <3>3. ~(r.n > 0)
        BY <2>1
      <3> QED
        BY <3>1, <3>2, <3>3
    <2>3. Ordered(Loaded(r)) /\ Loading.pos = Len(Lines[Loading.script])
      BY <1>3, <1>4, <2>2 DEF Ordered
    <2> DEFINE ps == With(pcb, load.pid, Loaded(r))
    <2>4. DOMAIN ps = DOMAIN pcb /\ ps[load.pid] = Loaded(r) /\ \A q \in DOMAIN pcb : q # load.pid => ps[q] = pcb[q]
      BY <1>3 DEF With
    <2>5. ASSUME NEW q \in DOMAIN ps
          PROVE  Ordered(ps[q]) /\ q \in DOMAIN pcb /\ ps[q].script = pcb[q].script
                 /\ ps[q].page_table = pcb[q].page_table
      BY <1>3, <2>2, <2>3, <2>4 DEF LoadsNext, Layout
    <2> HIDE DEF ps
    <2>6. Layout(mem, ps)
      BY <2>5, LayoutKept DEF LoadsNext
    <2> QED
      BY <1>2, <2>1, <2>2, <2>3, <2>6 DEF LoadedNext, ps
  <1>5. CASE ~Loading.eof
    <2>1. PICK g : LoadedInto(r, g)
      BY <1>5, FirstHole DEF LoadedInto
    <2>2. Layout(LoadedMem(r), With(pcb, load.pid, Loaded(r))) /\ Ordered(Loaded(r))
      BY <2>1, LayoutLoaded, OrderedLoaded
    <2>3. FileRead(Loaded(r), r.n) /\ r.n \in Nat
      BY <2>1, FileReadLemma
    <2>4. /\ Others(r) = pcb
          /\ Loaded(r).page_table = IF r.n > 0 THEN [Loading.page_table EXCEPT ![load.page] = TakenFrame(r)]
                                     ELSE Loading.page_table
          /\ Loaded(r).pos = Loading.pos + r.n
      BY <2>3, LoadedFields
    <2>5. \A i \in Page \ {load.page} : Loaded(r).page_table[i] = Loading.page_table[i]
      BY <1>3, <2>4
    <2>6. r.n = 0 => /\ Loaded(r).page_table = Loading.page_table
                     /\ Loading.pos = Len(Lines[Loading.script])
      <3>1. Loading.pos \in Nat
        BY NextLine
      <3> QED
        BY <1>2, <2>3, <2>4, <3>1 DEF FileRead
    <2> QED
      BY <1>2, <2>2, <2>3, <2>4, <2>5, <2>6 DEF LoadedNext
  <1> QED
    BY <1>4, <1>5

\* Two pages that have the program counter are neighbours in the memory, and in
\* the script: how many lines have been executed does not depend on the page.
LEMMA SamePlace ==
    ASSUME WholeFrames, NEW p, PcbOK(p), Ordered(p), NEW i \in Page, NEW d, At(p, i, d),
           NEW c, InPage(p, c)
    PROVE  At(p, c, d)
  <1>1. /\ Page \subseteq Nat /\ c \in Page
        /\ \A k \in Page : p.page_table[k] \in Frame \cup {-1} /\ p.page_table[k] \in Int
        /\ p.PC \in Int /\ p.pos \in Nat /\ p.pos <= Len(Lines[p.script])
        /\ \A g \in Frame : g \in Nat
    <2>1. Page \subseteq Nat
      BY FrameKernelAssumption DEF Page
    <2>2. \A g \in Frame : g \in Nat
      BY FrameLemma
    <2> QED
      BY <2>1, <2>2 DEF PcbOK, InPage
  <1>2. PICK a \in Int, b \in Int, pc \in Int : a = p.page_table[i] /\ b = p.page_table[c] /\ pc = p.PC
    BY <1>1
  <1>3. /\ (a = -1 /\ pc = -3) \/ (a # -1 /\ pc \in 3 * a .. 3 * a + 3)
        /\ (b = -1 /\ pc = -3) \/ (b # -1 /\ pc \in 3 * b .. 3 * b + 3)
        /\ a # -1 => a >= 0
        /\ b # -1 => b >= 0
    BY <1>1, <1>2 DEF At, InPage
  <1>4. CASE a = -1
    <2>1. b = -1
      BY <1>3, <1>4
    <2> QED
      BY <1>2, <1>4, <2>1 DEF At
  <1>5. CASE a # -1
    <2>1. b # -1
      BY <1>3, <1>5
    <2>2. d = 3 * i + pc - 3 * a
      BY <1>2, <1>5 DEF At
    <2>3. ASSUME NEW k \in Page, NEW l \in Page, NEW x \in Int, NEW y \in Int,
                 k < l, x = p.page_table[k], y = p.page_table[l], x # -1, y # -1,
                 pc \in 3 * x .. 3 * x + 3, pc \in 3 * y .. 3 * y + 3
          PROVE  l = k + 1 /\ y = x + 1
      <3>1. x < y
        BY <2>3 DEF Ordered
      <3>2. y = x + 1
        <4>1. 3 * y <= pc /\ pc <= 3 * x + 3
          BY <2>3
        <4> QED
          BY ONLY <3>1, <4>1, x \in Int, y \in Int, pc \in Int
      <3>3. CASE l # k + 1
        <4>1. k + 1 \in Page /\ k < k + 1 /\ k + 1 < l
          <5>1. PICK n \in Nat, u \in Nat, v \in Nat : n = PAGE_TABLE_SIZE /\ u = k /\ v = l
            BY <1>1, FrameKernelAssumption
          <5>2. v <= n - 1 /\ u < v /\ v # u + 1
            BY <2>3, <3>3, <5>1 DEF Page
          <5>3. u + 1 \in 0 .. n - 1 /\ u < u + 1 /\ u + 1 < v
            BY <5>2
          <5> QED
            BY <5>1, <5>3 DEF Page
        <4>2. PICK z \in Int : z = p.page_table[k + 1]
          BY <1>1, <4>1
        <4>3. z < y
          BY <2>3, <4>1, <4>2 DEF Ordered
        <4>4. z # -1
          <5>1. 3 * l < p.pos
            BY <2>3 DEF Ordered
          <5>2. 3 * (k + 1) < p.pos
            <6>1. k \in Nat /\ l \in Nat
              BY <1>1
            <6> QED
              BY <1>1, <4>1, <5>1, <6>1
          <5> QED
            BY <4>1, <4>2, <5>2 DEF Ordered
        <4>5. x < z
          BY <2>3, <4>1, <4>2, <4>4 DEF Ordered
        <4> QED
          BY <3>2, <4>3, <4>5
      <3> QED
        BY <3>2, <3>3
    <2>4. i \in Nat /\ c \in Nat
      BY <1>1
    <2>5. CASE i = c
      BY <2>5
    <2>6. CASE i < c
      <3>1. c = i + 1 /\ b = a + 1
        BY <1>1, <1>2, <1>3, <1>5, <2>1, <2>3, <2>6
      <3>2. d = 3 * c + pc - 3 * b
        BY <2>2, <2>4, <3>1
      <3> QED
        BY <1>2, <2>1, <3>2 DEF At
    <2>7. CASE c < i
      <3>1. i = c + 1 /\ a = b + 1
        BY <1>1, <1>2, <1>3, <1>5, <2>1, <2>3, <2>7
      <3>2. d = 3 * c + pc - 3 * b
        BY <2>2, <2>4, <3>1
      <3> QED
        BY <1>2, <2>1, <3>2 DEF At
    <2> QED
      BY <2>4, <2>5, <2>6, <2>7
  <1> QED
    BY <1>4, <1>5

LEMMA Relocated ==
    ASSUME WholeFrames, NEW p, PcbOK(p), Ordered(p), NEW i \in Page, NEW d, At(p, i, d)
    PROVE  Located(p) /\ At(p, PageOf(p), d)
  <1>1. PICK a \in Int : a = p.page_table[i]
    <2>1. p.page_table[i] \in Frame \cup {-1}
      BY DEF PcbOK
    <2> QED
      BY <2>1, FrameLemma
  <1>2. (a = -1 /\ p.PC = -3) \/ (a # -1 /\ p.PC \in 3 * a .. 3 * a + 3)
    BY <1>1 DEF At, InPage
  <1>3. p.PC = a * 3 \/ (a # -1 /\ p.PC \in a * 3 .. a * 3 + 3)
    BY <1>2
  <1>4. AtPage(p, i)
    BY <1>1, <1>3 DEF AtPage, FRAME_SIZE
  <1>5. Located(p)
    BY <1>4 DEF Located
  <1>6. InPage(p, PageOf(p))
    BY <1>5, LocatedLemma
  <1> QED
    BY <1>5, <1>6, SamePlace

LEMMA InOrderInit ==
    ASSUME WholeFrames, Init
    PROVE  InOrderInv
  <1>1. DOMAIN pcb = {} /\ DOMAIN procs = {} /\ mode = "prompt"
    BY DEF Init
  <1>2. Layout(mem, pcb)
    BY <1>1 DEF Layout, Stored, Above
  <1>3. CountInv
    <2>1. pid_counter = 1 /\ args = <<>> /\ MaxPid \in Nat
      BY FrameKernelAssumption DEF Init
    <2> QED
      BY <1>1, <2>1 DEF CountInv
  <1> QED
    BY <1>1, <1>2, <1>3 DEF InOrderInv, WaitInv, BeginInv, TurnInv

\* Steps that touch no process and no frame.
LEMMA InOrderIdle ==
    ASSUME InOrderInv, Layout(mem', pcb), UNCHANGED <<pcb, procs, queue, pid_counter>>,
           mode' \notin {"init", "lost", "run", "fault"}, pid_counter + Len(args') <= MaxPid + 1
    PROVE  InOrderInv'
  BY DEF InOrderInv, WaitInv, BeginInv, TurnInv, CountInv, Queued, Done

LEMMA InOrderUnchanged ==
    ASSUME InOrderInv, UNCHANGED vars
    PROVE  InOrderInv'
  BY DEF InOrderInv, WaitInv, BeginInv, TurnInv, CountInv, Queued, Done, Loading, Current, vars, store, history

LEMMA InOrderUser ==
    ASSUME WholeFrames, FrameKernelInv, InOrderInv, User
    PROVE  InOrderInv'
  <1>1. /\ MemOK(mem, pcb) /\ OnMemory(mem) /\ ProcsOK(pcb) /\ Layout(mem, pcb)
        /\ pid_counter + Len(args) <= MaxPid + 1
    BY DEF FrameKernelInv, MemOK, InOrderInv, CountInv
  <1>2. ASSUME NEW v \in Var, NEW x \in Val, SetVar(v, x) PROVE InOrderInv'
    <2>1. Layout(mem', pcb)
      BY <1>1, <1>2, SetValueLemma, LayoutSameFrames DEF SetVar
    <2> QED
      BY <1>1, <1>2, <2>1, InOrderIdle DEF SetVar, history
  <1>3. CASE ResetMem
    <2>1. Layout(mem', pcb)
      BY <1>1, <1>3, ResetLemma, LayoutSameFrames DEF ResetMem
    <2> QED
      BY <1>1, <1>3, <2>1, InOrderIdle DEF ResetMem, history
  <1>4. ASSUME NEW n \in 1 .. 3, NEW scripts \in [1 .. n -> Script], Exec(scripts) PROVE InOrderInv'
    BY <1>1, <1>4, InOrderIdle DEF Exec, store, history
  <1>5. CASE Quit
    BY <1>1, <1>5, InOrderIdle DEF Quit, store, history
  <1> QED
    BY <1>2, <1>3, <1>4, <1>5 DEF User

LEMMA InOrderNoSuchFile ==
    ASSUME FrameKernelInv, InOrderInv, NoSuchFile
    PROVE  InOrderInv'
  <1>1. /\ args \in Seq(Script) /\ pid_counter \in Nat /\ MaxPid \in Nat /\ Layout(mem, pcb)
        /\ pid_counter + Len(args) <= MaxPid + 1
    BY FrameKernelAssumption DEF FrameKernelInv, PidsInv, InOrderInv, CountInv
  <1>2. Len(args) \in Nat /\ Len(<<>>) = 0
    BY <1>1
  <1>3. pid_counter + Len(args') <= MaxPid + 1
    BY <1>1, <1>2 DEF NoSuchFile
  <1> QED
    BY <1>1, <1>3, InOrderIdle DEF NoSuchFile, store, history

LEMMA InOrderCrashes ==
    ASSUME InOrderInv, Crashes
    PROVE  InOrderInv'
  BY InOrderIdle DEF Crashes, store, history, InOrderInv, CountInv

LEMMA InOrderReturn ==
    ASSUME FrameKernelInv, InOrderInv, Return
    PROVE  InOrderInv'
  <1>1. /\ Layout(mem', pcb') /\ queue' = queue /\ pcb' = pcb /\ mode' = "prompt" /\ DOMAIN procs' = {}
        /\ pid_counter' + Len(args') <= MaxPid + 1
    BY DEF Return, store, InOrderInv, CountInv
  <1>2. WaitInv'
    <2> SUFFICES ASSUME NEW q \in DOMAIN pcb', Queued(q)' PROVE FALSE
      BY DEF WaitInv
    <2>1. DOMAIN queue' = {}
      BY DEF Return
    <2> QED
      BY <2>1 DEF Queued, Has
  <1> QED
    BY <1>1, <1>2 DEF InOrderInv, BeginInv, TurnInv, CountInv

LEMMA InOrderNextScript ==
    ASSUME WholeFrames, FrameKernelInv, InOrderInv, NextScript
    PROVE  InOrderInv'
  <1>1. /\ mode = "args" /\ args # <<>> /\ args \in Seq(Script)
        /\ Initialize(Head(args)) /\ args' = Tail(args)
        /\ turn = NoTurn
    BY DEF NextScript, FrameKernelInv, StageInv, PidsInv
  <1>2. PICK s \in Script : s = Head(args)
    BY <1>1
  <1>3. PICK c \in Nat \ {0} : c = pid_counter
    BY DEF FrameKernelInv, PidsInv
  <1>4. \A q \in DOMAIN pcb : q # c /\ q \in DOMAIN procs
    BY <1>3 DEF FrameKernelInv, PidsInv, ProcsOK
  <1>5. /\ DOMAIN pcb' = DOMAIN pcb \cup {c} /\ pcb'[c] = NewPCB(s)
        /\ \A q \in DOMAIN pcb : pcb'[q] = pcb[q]
    BY <1>1, <1>2, <1>3, <1>4 DEF Initialize, With
  <1>6. /\ DOMAIN procs' = DOMAIN procs \cup {c} /\ procs'[c] = [script |-> s, done |-> 0]
        /\ \A q \in DOMAIN procs : q # c => procs'[q] = procs[q]
    BY <1>1, <1>2, <1>3 DEF Initialize, With
  <1>7. load' = [pid |-> c, page |-> 0] /\ mode' = "init" /\ pid_counter' = c + 1
         /\ mem' = mem /\ queue' = queue
    BY <1>1, <1>3 DEF Initialize, store
  <1>8. Layout(mem, pcb')
    <2>1. Ordered(NewPCB(s)) /\ \A i \in Page : NewPCB(s).page_table[i] = -1
      <3>1. /\ NewPCB(s).pos = 0 /\ ~NewPCB(s).tail /\ ~NewPCB(s).eof
            /\ \A i \in Page : NewPCB(s).page_table[i] = -1
        BY DEF NewPCB, NoPages
      <3>2. \A i \in Page : ~(3 * i < 0)
        BY FrameKernelAssumption DEF Page
      <3> QED
        BY <3>1, <3>2 DEF Ordered
    <2>2. ASSUME NEW q \in DOMAIN pcb'
          PROVE  /\ Ordered(pcb'[q])
                 /\ \/ \A i \in Page : pcb'[q].page_table[i] = -1
                    \/ /\ q \in DOMAIN pcb /\ pcb'[q].script = pcb[q].script
                       /\ pcb'[q].page_table = pcb[q].page_table
      BY <1>5, <2>1 DEF InOrderInv, Layout
    <2> QED
      BY <2>2, LayoutKept DEF InOrderInv
  <1>9. WaitInv'
    <2> SUFFICES ASSUME NEW q \in DOMAIN pcb', Queued(q)' PROVE \E i \in Page : At(pcb'[q], i, procs'[q].done)
      BY DEF WaitInv, Done
    <2>1. Queued(q) /\ q \in DOMAIN pcb
      BY <1>7 DEF Queued, Has, FrameKernelInv, PidsInv
    <2> QED
      BY <1>4, <1>5, <1>6, <2>1 DEF InOrderInv, WaitInv, Done
  <1>10. BeginInv'
    <2>1. Done(load.pid)' = 0 /\ load'.page = 0 /\ Loading'.pos = 0
      BY <1>5, <1>6, <1>7 DEF Done, Loading, NewPCB
    <2> QED
      BY <2>1 DEF BeginInv
  <1>11. CountInv'
    <2>1. ASSUME NEW q \in DOMAIN procs'
          PROVE  q \in Nat /\ q < c + 1 /\ procs'[q].done <= Len(Lines[procs'[q].script])
      <3>1. CASE q = c
        BY <1>2, <1>3, <1>6, <3>1, FrameKernelAssumption
      <3>2. CASE q # c
        <4>1. q \in Nat /\ q < c /\ procs[q].done <= Len(Lines[procs[q].script]) /\ procs'[q] = procs[q]
          BY <1>3, <1>6, <3>2 DEF InOrderInv, CountInv, Done
        <4> QED
          BY <1>3, <4>1
      <3> QED
        BY <3>1, <3>2
    <2>2. c + 1 + Len(Tail(args)) <= MaxPid + 1
      <3>1. c + Len(args) <= MaxPid + 1 /\ MaxPid \in Nat
        BY <1>3, FrameKernelAssumption DEF InOrderInv, CountInv
      <3>2. PICK n \in Nat, l \in Int : n = Len(args) /\ l = Len(Tail(args)) /\ l = n - 1
        BY <1>1
      <3>3. c + n <= MaxPid + 1
        BY <3>1, <3>2
      <3>4. c + 1 + l <= MaxPid + 1
        <4>1. l = n - 1 /\ MaxPid \in Nat
          BY <3>1, <3>2
        <4> QED
          BY ONLY <3>3, <4>1, c \in Nat \ {0}, n \in Nat, l \in Int
      <3> QED
        BY <3>2, <3>4
    <2> QED
      BY <1>1, <1>7, <2>1, <2>2 DEF CountInv, Done
  <1>12. TurnInv'
    BY <1>7 DEF TurnInv
  <1> QED
    BY <1>7, <1>8, <1>9, <1>10, <1>11, <1>12 DEF InOrderInv

\* The processes but the one that loads, or runs, are as before.
OthersKept(pid) ==
    /\ DOMAIN pcb' = DOMAIN pcb
    /\ \A q \in DOMAIN pcb : q # pid => pcb'[q] = pcb[q]

\* Those who wait have their places.
LEMMA WaitKept ==
    ASSUME WaitInv, NEW pid, OthersKept(pid), \A q \in DOMAIN pcb : q # pid => procs'[q] = procs[q],
           \A q \in DOMAIN pcb : Has(queue', q) => Queued(q) \/ q = pid,
           Has(queue', pid) => \E i \in Page : At(pcb'[pid], i, procs'[pid].done)
    PROVE  WaitInv'
  <1> SUFFICES ASSUME NEW q \in DOMAIN pcb, Has(queue', q)
               PROVE  \E i \in Page : At(pcb'[q], i, procs'[q].done)
    BY DEF WaitInv, OthersKept, Queued, Done
  <1>1. CASE q = pid
    BY <1>1
  <1>2. CASE q # pid
    BY <1>2 DEF OthersKept, WaitInv, Done
  <1> QED
    BY <1>1, <1>2

LEMMA CountKept ==
    ASSUME CountInv, UNCHANGED <<procs, pid_counter, args>>
    PROVE  CountInv'
  BY DEF CountInv, Done

LEMMA InOrderLoadFirst ==
    ASSUME WholeFrames, FrameKernelInv, NothingTaken, InOrderInv, LoadFirst
    PROVE  InOrderInv'
  <1>1. LoadPre /\ mode = "init" /\ load.page = 0 /\ load.pid # 0 /\ turn = NoTurn
    BY LoadPreLemma DEF LoadFirst, FrameKernelInv, StageInv
  <1>2. PICK r \in Loads : /\ mem' = LoadedMem(r)
                           /\ pcb' = With(Others(r), load.pid, Loaded(r))
    BY DEF LoadFirst
  <1>3. Loading.pos = 0 /\ Done(load.pid) = 0 /\ load.pid \in DOMAIN pcb /\ ~Queued(load.pid)
    BY <1>1 DEF InOrderInv, BeginInv, LoadPre
  <1>4. 0 \in Page /\ 1 \in Page /\ \A i \in Page : Loading.page_table[i] = -1
    <2>1. Ordered(Loading)
      BY <1>3 DEF InOrderInv, Layout, Loading
    <2>2. \A i \in Page : ~(3 * i < 0)
      BY FrameKernelAssumption DEF Page
    <2>3. 0 \in Page /\ 1 \in Page
      BY FrameKernelAssumption DEF Page
    <2> QED
      BY <1>3, <2>1, <2>2, <2>3 DEF Ordered
  <1>5. LoadsNext
    BY <1>1, <1>4 DEF LoadsNext, InOrderInv, NothingTaken
  <1>6. LoadedNext(r)
    BY <1>5, LoadNextLemma
  <1>7. pcb' = With(pcb, load.pid, Loaded(r))
    BY <1>2, <1>6 DEF LoadedNext
  <1>8. /\ load' = [pid |-> load.pid, page |-> 1]
        /\ UNCHANGED <<queue, pid_counter, mode, args, turn, procs>>
    BY DEF LoadFirst, FrameKernelInv, StageInv, history
  <1>9. OthersKept(load.pid) /\ pcb'[load.pid] = Loaded(r)
    BY <1>3, <1>7 DEF With, OthersKept
  <1>10. WaitInv'
    BY <1>3, <1>8, <1>9, WaitKept DEF Queued, InOrderInv
  <1>11. BeginInv'
    <2>1. Loading' = Loaded(r) /\ load'.page = 1 /\ Done(load.pid)' = 0
      BY <1>3, <1>8, <1>9 DEF Loading, Done
    <2>2. Loaded(r).page_table[1] = -1
      BY <1>1, <1>4, <1>6 DEF LoadedNext
    <2>3. Loaded(r).page_table[0] # -1 \/ Len(Lines[Loaded(r).script]) = 0
      <3>1. CASE r.n > 0
        <4>1. Loaded(r).page_table[0] \in Frame
          BY <1>1, <1>6, <3>1 DEF LoadedNext
        <4>2. -1 \notin Frame
          BY FrameLemma
        <4> QED
          BY <4>1, <4>2
      <3>2. CASE r.n = 0
        BY <1>3, <1>6, <3>2 DEF LoadedNext
      <3> QED
        BY <1>6, <3>1, <3>2 DEF LoadedNext
    <2> QED
      BY <2>1, <2>2, <2>3 DEF BeginInv
  <1>12. TurnInv' /\ CountInv'
    BY <1>1, <1>8, CountKept DEF TurnInv, InOrderInv
  <1>13. Layout(mem', pcb')
    BY <1>2, <1>6, <1>7 DEF LoadedNext
  <1> QED
    BY <1>10, <1>11, <1>12, <1>13 DEF InOrderInv

LEMMA InOrderLoadSecond ==
    ASSUME WholeFrames, FrameKernelInv, NothingTaken, InOrderInv, LoadSecond
    PROVE  InOrderInv'
  <1>1. LoadPre /\ mode = "init" /\ load.page = 1 /\ load.pid # 0 /\ turn = NoTurn
    BY LoadPreLemma DEF LoadSecond, FrameKernelInv, StageInv
  <1>2. PICK r \in Loads : /\ mem' = LoadedMem(r)
                           /\ pcb' = With(Others(r), load.pid, makePCB_withPageTable(Loaded(r)))
    BY DEF LoadSecond
  <1>3. /\ Loading.page_table[1] = -1
        /\ Loading.page_table[0] # -1 \/ Len(Lines[Loading.script]) = 0
        /\ Done(load.pid) = 0 /\ load.pid \in DOMAIN pcb /\ ~Queued(load.pid)
    BY <1>1 DEF InOrderInv, BeginInv, LoadPre
  <1>4. 0 \in Page /\ load.page - 1 = 0 /\ PcbOK(Loading)
    BY <1>1, FrameKernelAssumption DEF Page, LoadPre, ProcsOK, Loading
  <1>5. LoadsNext
    <2>1. Loading.page_table[0] # -1 \/ Loading.pos = Len(Lines[Loading.script])
      BY <1>3, <1>4 DEF PcbOK
    <2> QED
      BY <1>1, <1>3, <1>4, <2>1 DEF LoadsNext, InOrderInv, NothingTaken
  <1>6. LoadedNext(r)
    BY <1>5, LoadNextLemma
  <1> DEFINE l == Loaded(r)
             g == l.page_table[0]
             pc == g * FRAME_SIZE
             p == makePCB_withPageTable(l)
  <1>7. /\ Others(r) = pcb /\ PcbOK(l) /\ Ordered(l) /\ l.script = Loading.script
        /\ g = Loading.page_table[0]
        /\ Layout(LoadedMem(r), With(pcb, load.pid, l))
    BY <1>1, <1>4, <1>6 DEF LoadedNext
  <1>8. p = [l EXCEPT !.PC = pc]
    BY DEF makePCB_withPageTable
  <1>9. g \in Frame \cup {-1} /\ g \in Int /\ pc \in Int /\ pc = 3 * g
    <2>1. g \in Frame \cup {-1}
      BY <1>4, <1>7 DEF PcbOK
    <2>2. PICK h \in Frame \cup {-1} : h = g
      BY <2>1
    <2>3. h \in Int
      BY FrameLemma
    <2> QED
      BY <2>2, <2>3 DEF FRAME_SIZE
  <1> HIDE DEF pc, g, l, p
  <1>10. PcbOK(p) /\ Ordered(p) /\ p.script = l.script /\ p.page_table = l.page_table /\ p.PC = pc
    BY <1>7, <1>8, <1>9, MovedLemma, OrderedMoved
  <1>11. /\ load' = NoLoad /\ queue' = Append(queue, load.pid) /\ mode' \in {"schedule", "args"}
         /\ UNCHANGED <<pid_counter, args, turn, procs>>
    BY DEF LoadSecond, history
  <1>12. pcb' = With(pcb, load.pid, p)
    BY <1>2, <1>7 DEF p, l
  <1>13. OthersKept(load.pid) /\ pcb'[load.pid] = p
    BY <1>3, <1>12 DEF With, OthersKept
  <1>14. Layout(mem', pcb')
    <2> DEFINE old == With(pcb, load.pid, l)
    <2>1. DOMAIN old = DOMAIN pcb /\ old[load.pid] = l /\ \A q \in DOMAIN pcb : q # load.pid => old[q] = pcb[q]
      BY <1>3 DEF With
    <2>2. Layout(mem', old)
      BY <1>2, <1>7
    <2> HIDE DEF old
    <2>3. ASSUME NEW q \in DOMAIN pcb'
          PROVE  /\ Ordered(pcb'[q]) /\ q \in DOMAIN old /\ pcb'[q].script = old[q].script
                 /\ pcb'[q].page_table = old[q].page_table
      BY <1>10, <1>13, <2>1, <2>2 DEF OthersKept, Layout
    <2> QED
      BY <2>2, <2>3, LayoutKept
  <1>15. At(p, 0, 0)
    <2>1. CASE g = -1
      <3>1. p.page_table[0] = -1 /\ p.PC = -3
        BY <1>9, <1>10, <2>1 DEF g
      <3>2. Len(Lines[p.script]) = 0
        BY <1>3, <1>7, <1>10, <2>1
      <3> QED
        BY <1>4, <3>1, <3>2 DEF At, InPage
    <2>2. CASE g # -1
      <3>1. p.page_table[0] = g /\ p.PC = 3 * g
        BY <1>9, <1>10, <2>2 DEF g
      <3> QED
        BY <1>4, <1>9, <2>2, <3>1 DEF At, InPage
    <2> QED
      BY <2>1, <2>2
  <1>16. WaitInv'
    <2>1. \A q \in DOMAIN pcb : Has(queue', q) => Queued(q) \/ q = load.pid
      BY <1>1, <1>11, AppendLemma DEF LoadPre, Queued, FrameKernelInv, PidsInv
    <2>2. \E i \in Page : At(pcb'[load.pid], i, procs'[load.pid].done)
      BY <1>3, <1>4, <1>11, <1>13, <1>15 DEF Done
    <2> QED
      BY <1>11, <1>13, <2>1, <2>2, WaitKept DEF InOrderInv
  <1>17. BeginInv' /\ TurnInv' /\ CountInv'
    BY <1>11, CountKept DEF BeginInv, TurnInv, InOrderInv
  <1> QED
    BY <1>14, <1>16, <1>17 DEF InOrderInv

LEMMA InOrderDispatch ==
    ASSUME WholeFrames, FrameKernelInv, InOrderInv, Dispatch
    PROVE  InOrderInv'
  <1>1. queue # <<>> /\ queue \in Seq(DOMAIN pcb) /\ Once(queue)
    BY DEF Dispatch, FrameKernelInv, PidsInv
  <1>2. PICK pid \in DOMAIN pcb :
            /\ pid = Head(queue)
            /\ Tail(queue) \in Seq(DOMAIN pcb) /\ ~Has(Tail(queue), pid)
            /\ \A y : Has(queue, y) <=> Has(Tail(queue), y) \/ y = pid
    BY <1>1, TailLemma
  <1>3. PcbOK(pcb[pid]) /\ Ordered(pcb[pid]) /\ Layout(mem, pcb)
    BY DEF FrameKernelInv, ProcsOK, InOrderInv, Layout
  <1>4. PICK i \in Page : At(pcb[pid], i, Done(pid))
    BY <1>2 DEF InOrderInv, WaitInv, Queued
  <1>5. Located(pcb[pid]) /\ At(pcb[pid], PageOf(pcb[pid]), Done(pid))
    BY <1>3, <1>4, Relocated
  <1>6. /\ turn' = [pid |-> pid, page |-> PageOf(pcb[pid]), left |-> Quanta]
        /\ pcb' = With(pcb, pid, pcb[pid]) /\ mode' = "run"
    BY <1>2, <1>5 DEF Dispatch, Search
  <1>7. mem' = mem /\ queue' = Tail(queue) /\ UNCHANGED <<pid_counter, args, procs>>
    BY DEF Dispatch, store, history
  <1>8. DOMAIN pcb' = DOMAIN pcb /\ \A q \in DOMAIN pcb : pcb'[q] = pcb[q]
    BY <1>6 DEF With
  <1>9. Layout(mem', pcb')
    <2>1. ASSUME NEW q \in DOMAIN pcb'
          PROVE  /\ Ordered(pcb'[q]) /\ q \in DOMAIN pcb /\ pcb'[q].script = pcb[q].script
                 /\ pcb'[q].page_table = pcb[q].page_table
      BY <1>3, <1>8 DEF Layout
    <2> QED
      BY <1>3, <1>7, <2>1, LayoutKept
  <1>10. WaitInv'
    <2>1. OthersKept(pid) /\ ~Has(queue', pid)
      BY <1>2, <1>7, <1>8 DEF OthersKept
    <2>2. \A q \in DOMAIN pcb : Has(queue', q) => Queued(q)
      BY <1>2, <1>7 DEF Queued
    <2> QED
      BY <1>7, <2>1, <2>2, WaitKept DEF InOrderInv
  <1>11. TurnInv'
    <2>1. Current' = pcb[pid] /\ Done(turn.pid)' = Done(pid) /\ turn'.page = PageOf(pcb[pid])
      BY <1>6, <1>7, <1>8 DEF Current, Done
    <2> QED
      BY <1>5, <1>6, <2>1 DEF TurnInv
  <1>12. BeginInv' /\ CountInv'
    BY <1>6, <1>7, CountKept DEF BeginInv, InOrderInv
  <1> QED
    BY <1>9, <1>10, <1>11, <1>12 DEF InOrderInv

\* A process that has left its page is behind the page's last line.
LEMMA LeftPage ==
    ASSUME WholeFrames, FrameKernelInv, InOrderInv, mode = "run", PageDone
    PROVE  /\ Current.page_table[turn.page] # -1
           /\ Current.PC = 3 * Current.page_table[turn.page] + 3
           /\ Done(turn.pid) = 3 * turn.page + 3
  <1>1. /\ PcbOK(Current) /\ turn.page \in Page /\ At(Current, turn.page, Done(turn.pid))
    BY RunningLemma DEF InOrderInv, TurnInv
  <1>2. PICK g \in Frame \cup {-1}, pc \in Int, c \in Nat :
            g = Current.page_table[turn.page] /\ pc = Current.PC /\ c = turn.page
    BY <1>1, FrameKernelAssumption DEF PcbOK, Page
  <1>3. g \in Int /\ (g # -1 => g \in Nat)
    BY FrameLemma
  <1>4. (g = -1 /\ pc = -3) \/ (g # -1 /\ pc \in 3 * g .. 3 * g + 3)
    BY <1>1, <1>2 DEF At, InPage
  <1>5. pc % 3 = 0 /\ pc # g * 3
    BY <1>2 DEF PageDone, FRAME_SIZE
  <1>6. g # -1 /\ pc = 3 * g + 3
    BY <1>3, <1>4, <1>5
  <1>7. Done(turn.pid) = 3 * c + pc - 3 * g
    BY <1>1, <1>2, <1>6 DEF At
  <1>8. Done(turn.pid) = 3 * c + 3
    BY <1>3, <1>6, <1>7
  <1> QED
    BY <1>2, <1>6, <1>8

\* The lines of a page that begins are counted from the page's first.
LEMMA StartOfPage ==
    ASSUME WholeFrames, NEW p, NEW i \in Page, p.page_table[i] \in Frame,
           p.PC = p.page_table[i] * FRAME_SIZE
    PROVE  At(p, i, 3 * i)
  <1>1. InPage(p, i)
    BY StartLemma
  <1>2. PICK g \in Nat : g = p.page_table[i]
    BY FrameLemma
  <1>3. i \in Nat
    BY FrameKernelAssumption DEF Page
  <1>4. 3 * i = 3 * i + g * 3 - 3 * g
    BY <1>3
  <1> QED
    BY <1>1, <1>2, <1>4 DEF At, FRAME_SIZE

LEMMA InOrderNextPage ==
    ASSUME WholeFrames, FrameKernelInv, InOrderInv, NextPage
    PROVE  InOrderInv'
  <1>1. /\ turn.pid \in DOMAIN pcb /\ turn.page \in Page /\ mode = "run" /\ PageDone
        /\ turn = [pid |-> turn.pid, page |-> turn.page, left |-> turn.left]
        /\ PcbOK(Current) /\ Current = pcb[turn.pid] /\ ~Queued(turn.pid)
    BY RunningLemma DEF NextPage, Current
  <1>2. PICK i : i = turn.page + 1
    OBVIOUS
  <1>3. i \in Page /\ Current.page_table[i] \in Frame
    <2>1. NextEntry \in Frame
      BY DEF NextPage
    <2>2. THRESHOLD \notin Frame
      <3> SUFFICES ASSUME THRESHOLD \in Frame PROVE FALSE
        OBVIOUS
      <3>1. 3 * THRESHOLD + 2 < THRESHOLD /\ THRESHOLD \in Nat
        BY FrameLemma
      <3> QED
        BY <3>1
    <2> QED
      BY <1>2, <2>1, <2>2 DEF NextEntry
  <1>4. PICK pc \in Int : pc = Current.page_table[i] * FRAME_SIZE
    BY <1>3, FrameLemma DEF FRAME_SIZE
  <1>5. PICK p : p = [Current EXCEPT !.PC = pc]
    OBVIOUS
  <1>6. pcb' = [pcb EXCEPT ![turn.pid] = p]
    BY <1>1, <1>2, <1>4, <1>5 DEF NextPage, Moved
  <1>7. Layout(mem, pcb) /\ Ordered(Current)
    BY <1>1 DEF InOrderInv, Layout
  <1>8. p.script = Current.script /\ p.page_table = Current.page_table /\ p.PC = pc /\ Ordered(p)
    BY <1>1, <1>5, <1>7, MovedLemma, OrderedMoved
  <1>9. OthersKept(turn.pid) /\ pcb'[turn.pid] = p
    BY <1>1, <1>6 DEF OthersKept
  <1>10. /\ turn' = [pid |-> turn.pid, page |-> i, left |-> turn.left]
         /\ UNCHANGED <<mem, queue, pid_counter, mode, args, load, procs>>
    BY <1>1, <1>2 DEF NextPage, store, history
  <1>11. Layout(mem', pcb')
    <2>1. ASSUME NEW q \in DOMAIN pcb'
          PROVE  /\ Ordered(pcb'[q]) /\ q \in DOMAIN pcb /\ pcb'[q].script = pcb[q].script
                 /\ pcb'[q].page_table = pcb[q].page_table
      BY <1>1, <1>7, <1>8, <1>9 DEF Layout, OthersKept
    <2> QED
      BY <1>7, <1>10, <2>1, LayoutKept
  <1>12. TurnInv'
    <2>1. Done(turn.pid) = 3 * turn.page + 3
      BY <1>1, LeftPage
    <2>2. Done(turn.pid) = 3 * i
      BY <1>1, <1>2, <2>1, FrameKernelAssumption DEF Page
    <2>3. At(p, i, 3 * i)
      BY <1>3, <1>4, <1>8, StartOfPage
    <2>4. Current' = p /\ Done(turn.pid)' = Done(turn.pid) /\ turn'.page = i
      BY <1>9, <1>10 DEF Current, Done
    <2> QED
      BY <1>1, <1>10, <2>2, <2>3, <2>4 DEF TurnInv
  <1>13. WaitInv'
    BY <1>1, <1>9, <1>10, WaitKept DEF Queued, InOrderInv
  <1>14. BeginInv' /\ CountInv'
    BY <1>1, <1>10, CountKept DEF BeginInv, InOrderInv
  <1> QED
    BY <1>11, <1>12, <1>13, <1>14 DEF InOrderInv

LEMMA InOrderPageFault ==
    ASSUME WholeFrames, FrameKernelInv, InOrderInv, PageFault
    PROVE  InOrderInv'
  <1>1. /\ mode = "run" /\ PageDone /\ NextEntry = -1
        /\ queue' = Rotated(queue) /\ load' = [pid |-> turn.pid, page |-> turn.page + 1] /\ mode' = "fault"
        /\ UNCHANGED <<mem, pcb, pid_counter, args, turn, procs>>
    BY DEF PageFault, store, history
  <1>2. Current.page_table[turn.page + 1] = -1
    <2>1. THRESHOLD # -1
      BY FrameLemma
    <2> QED
      BY <1>1, <2>1 DEF NextEntry
  <1>3. \A y : Has(queue', y) <=> Queued(y)
    BY <1>1, RotatedLemma DEF FrameKernelInv, PidsInv, Queued
  <1>4. WaitInv'
    BY <1>1, <1>3 DEF InOrderInv, WaitInv, Queued, Done
  <1>5. Current.page_table[turn.page] # -1 /\ Current.PC = 3 * Current.page_table[turn.page] + 3
    BY <1>1, LeftPage
  <1>6. TurnInv'
    <2>1. Current' = Current /\ Done(turn.pid)' = Done(turn.pid) /\ turn' = turn
          /\ load'.page = turn.page + 1
      BY <1>1 DEF Current, Done
    <2>2. At(Current, turn.page, Done(turn.pid))
      BY <1>1 DEF InOrderInv, TurnInv
    <2> QED
      BY <1>1, <1>2, <1>5, <2>1, <2>2 DEF TurnInv
  <1> QED
    BY <1>1, <1>4, <1>6, CountKept DEF InOrderInv, BeginInv

\* The page that is missing is the next of the script.
LEMMA FaultLoadsNext ==
    ASSUME WholeFrames, FrameKernelInv, NothingTaken, InOrderInv, mode = "fault"
    PROVE  /\ LoadsNext /\ Loading = Current /\ load.pid = turn.pid /\ turn.pid \in DOMAIN pcb
           /\ load.page \in Page /\ turn.page \in Page /\ load.page = turn.page + 1
           /\ Done(turn.pid) = 3 * load.page
  <1>1. /\ LoadPre /\ load.pid = turn.pid /\ load.page \in Page /\ turn.page \in Page
        /\ turn.pid \in DOMAIN pcb
    BY LoadPreLemma, RunningLemma DEF FrameKernelInv, StageInv
  <1>2. /\ load.page = turn.page + 1
        /\ Current.page_table[load.page] = -1
        /\ Current.page_table[turn.page] # -1
        /\ Current.PC = 3 * Current.page_table[turn.page] + 3
        /\ At(Current, turn.page, Done(turn.pid))
    BY DEF InOrderInv, TurnInv
  <1>3. Loading = Current
    BY <1>1 DEF Loading, Current
  <1>4. PICK c \in Nat : c = turn.page
    BY <1>1, FrameKernelAssumption DEF Page
  <1>5. load.page - 1 = turn.page
    BY <1>2, <1>4
  <1>6. LoadsNext
    BY <1>1, <1>2, <1>3, <1>5 DEF LoadsNext, InOrderInv, NothingTaken
  <1>7. PICK g \in Int : g = Current.page_table[turn.page]
    <2>1. PcbOK(Current)
      BY <1>1 DEF FrameKernelInv, ProcsOK, Current
    <2>2. Current.page_table[turn.page] \in Frame \cup {-1}
      BY <1>1, <2>1 DEF PcbOK
    <2>3. PICK g \in Frame \cup {-1} : g = Current.page_table[turn.page]
      BY <2>2
    <2> QED
      BY <2>3, FrameLemma
  <1>8. Done(turn.pid) = 3 * c + (3 * g + 3) - 3 * g
    BY <1>2, <1>4, <1>7 DEF At
  <1>9. Done(turn.pid) = 3 * (c + 1)
    BY <1>8
  <1> QED
    BY <1>1, <1>2, <1>3, <1>4, <1>6, <1>9

LEMMA InOrderLoadFault ==
    ASSUME WholeFrames, FrameKernelInv, NothingTaken, InOrderInv, LoadFault
    PROVE  InOrderInv'
  <1>1. /\ LoadsNext /\ Loading = Current /\ load.pid = turn.pid /\ turn.pid \in DOMAIN pcb
        /\ load.page \in Page /\ Done(turn.pid) = 3 * load.page /\ mode = "fault"
        /\ ~Queued(turn.pid)
        /\ turn = [pid |-> turn.pid, page |-> turn.page, left |-> turn.left]
    BY FaultLoadsNext, RunningLemma DEF LoadFault
  <1>2. PICK r \in Loads : /\ r.n > 0 /\ mem' = LoadedMem(r)
                           /\ pcb' = With(Others(r), load.pid, Moved(Loaded(r), load.page))
    BY DEF LoadFault
  <1>3. LoadedNext(r)
    BY <1>1, LoadNextLemma
  <1> DEFINE l == Loaded(r)
             p == Moved(l, load.page)
  <1>4. /\ Others(r) = pcb /\ PcbOK(l) /\ Ordered(l) /\ l.page_table[load.page] \in Frame
        /\ Layout(LoadedMem(r), With(pcb, load.pid, l))
    BY <1>2, <1>3 DEF LoadedNext
  <1>5. PICK pc \in Int : pc = l.page_table[load.page] * FRAME_SIZE
    <2>1. PICK g \in Frame : g = l.page_table[load.page]
      BY <1>4
    <2> QED
      BY <2>1, FrameLemma DEF FRAME_SIZE
  <1>6. p = [l EXCEPT !.PC = pc]
    BY <1>5 DEF Moved
  <1> HIDE DEF l, p
  <1>7. PcbOK(p) /\ Ordered(p) /\ p.script = l.script /\ p.page_table = l.page_table /\ p.PC = pc
    BY <1>4, <1>6, MovedLemma, OrderedMoved
  <1>8. pcb' = With(pcb, turn.pid, p)
    BY <1>1, <1>2, <1>4 DEF p, l
  <1>9. OthersKept(turn.pid) /\ pcb'[turn.pid] = p
    BY <1>1, <1>8 DEF With, OthersKept
  <1>10. /\ turn' = [pid |-> turn.pid, page |-> load.page, left |-> turn.left] /\ mode' = "run"
         /\ UNCHANGED <<queue, pid_counter, args, procs>>
    BY <1>1 DEF LoadFault, history
  <1>11. Layout(mem', pcb')
    <2> DEFINE old == With(pcb, load.pid, l)
    <2>1. DOMAIN old = DOMAIN pcb /\ old[turn.pid] = l /\ \A q \in DOMAIN pcb : q # turn.pid => old[q] = pcb[q]
      BY <1>1 DEF With
    <2>2. Layout(mem', old)
      BY <1>2, <1>4
    <2> HIDE DEF old
    <2>3. ASSUME NEW q \in DOMAIN pcb'
          PROVE  /\ Ordered(pcb'[q]) /\ q \in DOMAIN old /\ pcb'[q].script = old[q].script
                 /\ pcb'[q].page_table = old[q].page_table
      BY <1>7, <1>9, <2>1, <2>2 DEF OthersKept, Layout
    <2> QED
      BY <2>2, <2>3, LayoutKept
  <1>12. TurnInv'
    <2>1. At(p, load.page, 3 * load.page)
      BY <1>1, <1>4, <1>5, <1>7, StartOfPage
    <2>2. Current' = p /\ Done(turn.pid)' = 3 * load.page /\ turn'.page = load.page
      BY <1>1, <1>9, <1>10 DEF Current, Done
    <2> QED
      BY <1>10, <2>1, <2>2 DEF TurnInv
  <1>13. WaitInv'
    BY <1>1, <1>9, <1>10, WaitKept DEF Queued, InOrderInv
  <1>14. BeginInv' /\ CountInv'
    BY <1>10, CountKept DEF BeginInv, InOrderInv
  <1> QED
    BY <1>11, <1>12, <1>13, <1>14 DEF InOrderInv

\* A process goes.
LEMMA InOrderTerminate ==
    ASSUME WholeFrames, FrameKernelInv, InOrderInv, mode \in {"run", "fault"},
           Terminate(pcb), Layout(mem', pcb)
    PROVE  InOrderInv'
  <1>1. /\ mode' = "schedule" /\ pcb' = [q \in DOMAIN pcb \ {turn.pid} |-> pcb[q]]
        /\ UNCHANGED <<queue, pid_counter, args, procs>>
    BY DEF Terminate, Without, history
  <1>2. DOMAIN pcb' \subseteq DOMAIN pcb /\ \A q \in DOMAIN pcb' : pcb'[q] = pcb[q]
    BY <1>1
  <1>3. Layout(mem', pcb')
    <2>1. ASSUME NEW q \in DOMAIN pcb'
          PROVE  /\ Ordered(pcb'[q]) /\ q \in DOMAIN pcb /\ pcb'[q].script = pcb[q].script
                 /\ pcb'[q].page_table = pcb[q].page_table
      BY <1>2 DEF Layout
    <2> QED
      BY <2>1, LayoutKept
  <1>4. WaitInv'
    BY <1>1, <1>2 DEF InOrderInv, WaitInv, Queued, Done
  <1> QED
    BY <1>1, <1>3, <1>4, CountKept DEF InOrderInv, BeginInv, TurnInv

LEMMA InOrderEnds ==
    ASSUME WholeFrames, FrameKernelInv, InOrderInv, Ends
    PROVE  InOrderInv'
  BY InOrderTerminate DEF Ends, store, InOrderInv

LEMMA InOrderLoadFails ==
    ASSUME WholeFrames, FrameKernelInv, NothingTaken, InOrderInv, LoadFails
    PROVE  InOrderInv'
  <1>1. LoadsNext /\ load.pid \in DOMAIN pcb /\ Loading = pcb[load.pid] /\ mode \in {"run", "fault"}
    BY FaultLoadsNext DEF LoadFails, Loading
  <1>2. PICK r \in Loads : r.n = 0 /\ mem' = LoadedMem(r) /\ Terminate(Others(r))
    BY DEF LoadFails
  <1>3. LoadedNext(r)
    BY <1>1, LoadNextLemma
  <1>4. /\ Terminate(pcb) /\ Loaded(r).page_table = Loading.page_table
        /\ Loaded(r).script = Loading.script
        /\ Layout(mem', With(pcb, load.pid, Loaded(r)))
    BY <1>2, <1>3 DEF LoadedNext
  <1>5. Layout(mem', pcb)
    <2> DEFINE old == With(pcb, load.pid, Loaded(r))
    <2>1. DOMAIN old = DOMAIN pcb /\ old[load.pid] = Loaded(r) /\ \A q \in DOMAIN pcb : q # load.pid => old[q] = pcb[q]
      BY <1>1 DEF With
    <2>2. Layout(mem', old)
      BY <1>4
    <2> HIDE DEF old
    <2>3. ASSUME NEW q \in DOMAIN pcb
          PROVE  /\ Ordered(pcb[q]) /\ q \in DOMAIN old /\ pcb[q].script = old[q].script
                 /\ pcb[q].page_table = old[q].page_table
      BY <1>1, <1>4, <2>1 DEF InOrderInv, Layout
    <2> QED
      BY <2>2, <2>3, LayoutKept
  <1> QED
    BY <1>1, <1>4, <1>5, InOrderTerminate

\* The program counter is on the next line of the script, or behind the last.
LEMMA NextLineThere ==
    ASSUME WholeFrames, FrameKernelInv, InOrderInv, mode = "run", ~PageDone, Current.PC >= 0
    PROVE  /\ mem[Current.PC] = PageLine(Current.script, Done(turn.pid) + 1)
           /\ Current.page_table[turn.page] # -1
           /\ Done(turn.pid) \in Int
  <1>1. /\ turn.pid \in DOMAIN pcb /\ PcbOK(Current) /\ turn.page \in Page /\ Current = pcb[turn.pid]
        /\ At(Current, turn.page, Done(turn.pid))
    BY RunningLemma DEF InOrderInv, TurnInv, Current
  <1>2. PICK g \in Frame \cup {-1}, pc \in Int, c \in Nat :
            g = Current.page_table[turn.page] /\ pc = Current.PC /\ c = turn.page
    <2>1. Current.page_table[turn.page] \in Frame \cup {-1} /\ Current.PC \in Int
      BY <1>1 DEF PcbOK
    <2>2. turn.page \in Nat
      BY <1>1, FrameKernelAssumption DEF Page
    <2> QED
      BY <2>1, <2>2
  <1>3. (g = -1 /\ pc = -3) \/ (g # -1 /\ pc \in 3 * g .. 3 * g + 3)
    BY <1>1, <1>2 DEF At, InPage
  <1>4. g # -1 /\ g \in Frame /\ g \in Nat
    BY <1>2, <1>3, FrameLemma
  <1>5. pc % 3 # 0 \/ pc = g * 3
    BY <1>2 DEF PageDone, FRAME_SIZE
  <1>6. PICK j \in 0 .. 2 : pc = 3 * g + j
    <2>1. pc \in 3 * g .. 3 * g + 3
      BY <1>3, <1>4
    <2>2. pc # 3 * g + 3
      BY <1>4, <1>5
    <2>3. pc - 3 * g \in 0 .. 2 /\ pc = 3 * g + (pc - 3 * g)
      BY <1>4, <2>1, <2>2
    <2> QED
      BY <2>3
  <1>7. Holds(mem, g, Current.script, c)
    BY <1>1, <1>2, <1>4 DEF InOrderInv, Layout, Stored
  <1>8. mem[pc] = PageLine(Current.script, 3 * c + j + 1)
    BY <1>6, <1>7 DEF Holds
  <1>9. Done(turn.pid) = 3 * c + pc - 3 * g
    BY <1>1, <1>2, <1>4 DEF At
  <1>10. Done(turn.pid) + 1 = 3 * c + j + 1 /\ Done(turn.pid) \in Int
    BY <1>4, <1>6, <1>9
  <1> QED
    BY <1>2, <1>4, <1>8, <1>10

\* What is executed is the next line of the script.
LEMMA NextLineRuns ==
    ASSUME WholeFrames, FrameKernelInv, InOrderInv, Executable
    PROVE  /\ Line = [script |-> Current.script, line |-> Done(turn.pid) + 1, tail |-> FALSE]
           /\ Done(turn.pid) + 1 <= Len(Lines[Current.script])
           /\ turn.pid \in DOMAIN procs /\ procs[turn.pid].script = Current.script
           /\ procs[turn.pid] = [script |-> Current.script, done |-> Done(turn.pid)]
           /\ Done(turn.pid) \in Nat
  <1>1. mem[Current.PC] = PageLine(Current.script, Done(turn.pid) + 1)
    BY NextLineThere DEF Executable
  <1>2. mem[Current.PC].value # None
    BY DEF Executable
  <1>3. turn.pid \in DOMAIN pcb /\ Current = pcb[turn.pid]
    BY RunningLemma DEF Executable, Current
  <1>4. /\ turn.pid \in DOMAIN procs /\ procs[turn.pid].script = Current.script
        /\ procs[turn.pid] \in [script : Script, done : Nat]
    BY <1>3 DEF FrameKernelInv, PidsInv
  <1>5. Done(turn.pid) + 1 <= Len(Lines[Current.script])
    BY <1>1, <1>2 DEF PageLine
  <1>6. Line = [script |-> Current.script, line |-> Done(turn.pid) + 1, tail |-> FALSE]
    BY <1>1, <1>5 DEF PageLine, Line
  <1>7. procs[turn.pid] = [script |-> Current.script, done |-> Done(turn.pid)] /\ Done(turn.pid) \in Nat
    BY <1>4 DEF Done
  <1> QED
    BY <1>4, <1>5, <1>6, <1>7

\* One line more has been executed.
OneMore == /\ DOMAIN procs' = DOMAIN procs
           /\ procs'[turn.pid] = [script |-> Current.script, done |-> Done(turn.pid) + 1]
           /\ \A q \in DOMAIN procs : q # turn.pid => procs'[q] = procs[q]

LEMMA OneMoreLemma ==
    ASSUME WholeFrames, FrameKernelInv, InOrderInv, Executable, Recorded
    PROVE  OneMore /\ last' = [pid |-> turn.pid, script |-> Current.script, line |-> Done(turn.pid) + 1]
  <1>1. /\ Line = [script |-> Current.script, line |-> Done(turn.pid) + 1, tail |-> FALSE]
        /\ turn.pid \in DOMAIN procs
        /\ procs[turn.pid] = [script |-> Current.script, done |-> Done(turn.pid)]
    BY NextLineRuns
  <1>2. procs' = [procs EXCEPT ![turn.pid].done = @ + 1] /\ Line.script = Current.script
        /\ Line.line = Done(turn.pid) + 1
        /\ last' = [pid |-> turn.pid, script |-> Line.script, line |-> Line.line]
    BY <1>1 DEF Recorded
  <1>3. PICK t \in DOMAIN procs : t = turn.pid
    BY <1>1
  <1>4. PICK d, s : d = Done(turn.pid) /\ s = Current.script
    OBVIOUS
  <1>5. procs[t] = [script |-> s, done |-> d]
    BY <1>1, <1>3, <1>4
  <1>6. procs' = [procs EXCEPT ![t] = [procs[t] EXCEPT !.done = procs[t].done + 1]]
    BY <1>2, <1>3
  <1>7. [procs[t] EXCEPT !.done = procs[t].done + 1] = [script |-> s, done |-> d + 1]
    BY <1>5
  <1>8. procs' = [procs EXCEPT ![t] = [script |-> s, done |-> d + 1]]
    BY <1>6, <1>7
  <1>9. OneMore
    BY <1>3, <1>4, <1>8 DEF OneMore
  <1> QED
    BY <1>2, <1>9

\* What executing a line does to the places of the processes.
Advanced ==
    /\ OthersKept(turn.pid)
    /\ Layout(mem, pcb')
    /\ At(pcb'[turn.pid], turn.page, Done(turn.pid) + 1)
    /\ ProcsOK(pcb')

LEMMA AdvancedLemma ==
    ASSUME WholeFrames, FrameKernelInv, InOrderInv, Executable, pcb' = [pcb EXCEPT ![turn.pid].PC = @ + 1]
    PROVE  Advanced
  <1>1. turn.pid \in DOMAIN pcb /\ PcbOK(Current) /\ Current = pcb[turn.pid] /\ turn.page \in Page
    BY RunningLemma DEF Executable, Current
  <1>2. PICK t \in DOMAIN pcb : t = turn.pid
    BY <1>1
  <1>3. PICK pc \in Int : pc = Current.PC
    BY <1>1 DEF PcbOK
  <1>4. PICK p : p = [Current EXCEPT !.PC = pc + 1]
    OBVIOUS
  <1>5. pcb' = [pcb EXCEPT ![t] = p]
    BY <1>1, <1>2, <1>3, <1>4
  <1>6. OthersKept(turn.pid) /\ pcb'[turn.pid] = p
    BY <1>2, <1>5 DEF OthersKept
  <1>7. Layout(mem, pcb) /\ Ordered(Current)
    BY <1>1 DEF InOrderInv, Layout
  <1>8. pc + 1 \in Int /\ p.script = Current.script /\ p.page_table = Current.page_table /\ p.PC = pc + 1
        /\ Ordered(p)
    <2>1. PICK n \in Int : n = pc + 1
      OBVIOUS
    <2>2. p = [Current EXCEPT !.PC = n]
      BY <1>4, <2>1
    <2> QED
      BY <1>1, <1>7, <2>1, <2>2, MovedLemma, OrderedMoved
  <1>9. Layout(mem, pcb')
    <2>1. ASSUME NEW q \in DOMAIN pcb'
          PROVE  /\ Ordered(pcb'[q]) /\ q \in DOMAIN pcb /\ pcb'[q].script = pcb[q].script
                 /\ pcb'[q].page_table = pcb[q].page_table
      BY <1>1, <1>6, <1>7, <1>8 DEF Layout, OthersKept
    <2>2. PICK new : new = pcb'
      OBVIOUS
    <2>3. ASSUME NEW q \in DOMAIN new
          PROVE  /\ Ordered(new[q]) /\ q \in DOMAIN pcb /\ new[q].script = pcb[q].script
                 /\ new[q].page_table = pcb[q].page_table
      BY <2>1, <2>2
    <2>4. Layout(mem, new)
      BY ONLY WholeFrames, <1>7, <2>3, LayoutKept
    <2> QED
      BY <2>2, <2>4
  <1>10. Counted(Current.PC + 1) /\ InPage(pcb'[turn.pid], turn.page)
    BY CountLemma
  <1>11. At(p, turn.page, Done(turn.pid) + 1)
    <2>1. Current.page_table[turn.page] # -1
      BY NextLineThere DEF Executable
    <2>2. PICK g \in Int, c \in Nat : g = Current.page_table[turn.page] /\ c = turn.page
      <3>1. Current.page_table[turn.page] \in Frame
        BY <1>1, <2>1 DEF PcbOK
      <3>2. PICK g \in Frame : g = Current.page_table[turn.page]
        BY <3>1
      <3>3. g \in Int
        BY FrameLemma
      <3> QED
        BY <1>1, <3>2, <3>3, FrameKernelAssumption DEF Page
    <2>3. At(Current, turn.page, Done(turn.pid))
      BY DEF Executable, InOrderInv, TurnInv
    <2>4. Done(turn.pid) = 3 * c + pc - 3 * g
      BY <1>3, <2>1, <2>2, <2>3 DEF At
    <2>5. Done(turn.pid) + 1 = 3 * c + (pc + 1) - 3 * g
      BY <2>4
    <2>6. p.page_table[turn.page] = g /\ p.page_table[turn.page] # -1
      BY <1>8, <2>1, <2>2
    <2> QED
      BY <1>6, <1>8, <1>10, <2>2, <2>5, <2>6 DEF At
  <1> QED
    BY <1>6, <1>9, <1>10, <1>11 DEF Advanced, Counted

LEMMA CountMore ==
    ASSUME WholeFrames, FrameKernelInv, InOrderInv, Executable, OneMore,
           UNCHANGED <<pid_counter, args>>
    PROVE  CountInv'
  <1>1. Done(turn.pid) + 1 <= Len(Lines[Current.script])
    BY NextLineRuns
  <1>2. ASSUME NEW q \in DOMAIN procs
        PROVE  q \in Nat /\ q < pid_counter /\ procs'[q].done <= Len(Lines[procs'[q].script])
    <2>1. CASE q = turn.pid
      BY <1>1, <2>1 DEF OneMore, InOrderInv, CountInv
    <2>2. CASE q # turn.pid
      BY <2>2 DEF OneMore, InOrderInv, CountInv, Done
    <2> QED
      BY <2>1, <2>2
  <1> QED
    BY <1>2 DEF OneMore, InOrderInv, CountInv, Done

LEMMA InOrderRunLine ==
    ASSUME WholeFrames, FrameKernelInv, InOrderInv, RunLine
    PROVE  InOrderInv'
  <1>1. /\ Executable /\ turn.pid \in DOMAIN pcb /\ turn.page \in Page
        /\ turn = [pid |-> turn.pid, page |-> turn.page, left |-> turn.left]
        /\ ~Queued(turn.pid)
    BY RunningLemma DEF RunLine, Executable
  <1>2. Recorded /\ EndTurn(queue) /\ mem' = Effect(mem, Command) /\ UNCHANGED <<pid_counter, args, load>>
    BY DEF RunLine
  <1>3. Advanced
    BY <1>1, AdvancedLemma DEF RunLine
  <1>4. OneMore
    BY <1>1, <1>2, OneMoreLemma
  <1>5. Layout(mem', pcb')
    <2>1. OnMemory(mem)
      BY DEF FrameKernelInv, MemOK
    <2>2. SameFrames(mem, mem')
      BY <1>2, <2>1, EffectLemma
    <2> QED
      BY <1>3, <2>2, LayoutSameFrames DEF Advanced
  <1>6. CountInv'
    BY <1>1, <1>2, <1>4, CountMore
  <1>7. turn.pid \in DOMAIN procs /\ \A q \in DOMAIN pcb : q \in DOMAIN procs
    BY <1>1 DEF FrameKernelInv, PidsInv
  <1>8. /\ \A q \in DOMAIN pcb : q # turn.pid => procs'[q] = procs[q]
        /\ procs'[turn.pid].done = Done(turn.pid) + 1
    BY <1>4, <1>7 DEF OneMore
  <1>9. At(pcb'[turn.pid], turn.page, procs'[turn.pid].done) /\ OthersKept(turn.pid)
    BY <1>3, <1>8 DEF Advanced
  <1>10. CASE turn.left > 1
    <2>1. turn' = [pid |-> turn.pid, page |-> turn.page, left |-> turn.left - 1]
          /\ mode' = "run" /\ queue' = queue
      BY <1>1, <1>2, <1>10 DEF EndTurn
    <2>2. WaitInv'
      BY <1>1, <1>8, <1>9, <2>1, WaitKept DEF Queued, InOrderInv
    <2>3. TurnInv'
      BY <1>9, <2>1 DEF TurnInv, Current, Done
    <2> QED
      BY <1>5, <1>6, <2>1, <2>2, <2>3 DEF InOrderInv, BeginInv
  <1>11. CASE ~(turn.left > 1)
    <2>1. mode' = "schedule" /\ queue' = Append(queue, turn.pid)
      BY <1>2, <1>11 DEF EndTurn
    <2>2. \A y : Has(queue', y) <=> Has(queue, y) \/ y = turn.pid
      BY <1>1, <2>1, AppendLemma DEF FrameKernelInv, PidsInv, Queued
    <2>3. WaitInv'
      BY <1>1, <1>8, <1>9, <2>2, WaitKept DEF Queued, InOrderInv
    <2> QED
      BY <1>5, <1>6, <2>1, <2>3 DEF InOrderInv, BeginInv, TurnInv
  <1> QED
    BY <1>10, <1>11

LEMMA InOrderQuitLine ==
    ASSUME WholeFrames, FrameKernelInv, InOrderInv, RunOrQuitLine
    PROVE  InOrderInv'
  <1>1. Executable /\ turn.pid \in DOMAIN pcb /\ ~Queued(turn.pid)
    BY RunningLemma DEF RunOrQuitLine, Executable
  <1>2. mode' = "exited"
    BY <1>1, CommandLemma DEF RunOrQuitLine
  <1>3. Recorded /\ UNCHANGED <<mem, queue, pid_counter, args, load, turn>>
    BY DEF RunOrQuitLine, store
  <1>4. Advanced
    BY <1>1, AdvancedLemma DEF RunOrQuitLine
  <1>5. OneMore
    BY <1>1, <1>3, OneMoreLemma
  <1>6. CountInv'
    BY <1>1, <1>3, <1>5, CountMore
  <1>7. \A q \in DOMAIN pcb : q \in DOMAIN procs
    BY DEF FrameKernelInv, PidsInv
  <1>8. WaitInv'
    <2>1. OthersKept(turn.pid) /\ \A q \in DOMAIN pcb : q # turn.pid => procs'[q] = procs[q]
      BY <1>4, <1>5, <1>7 DEF Advanced, OneMore
    <2> QED
      BY <1>1, <1>3, <2>1, WaitKept DEF Queued, InOrderInv
  <1> QED
    BY <1>2, <1>3, <1>4, <1>6, <1>8 DEF InOrderInv, BeginInv, TurnInv, Advanced

LEMMA InOrderNext ==
    ASSUME WholeFrames, FrameKernelInv, NothingTaken, InOrderInv, [Next]_vars
    PROVE  InOrderInv'
  <1>1. CASE UNCHANGED vars
    BY <1>1, InOrderUnchanged
  <1>2. CASE User
    BY <1>2, InOrderUser
  <1>3. CASE NextScript
    BY <1>3, InOrderNextScript
  <1>4. CASE NoSuchFile
    BY <1>4, InOrderNoSuchFile
  <1>5. CASE LoadFirst
    BY <1>5, InOrderLoadFirst
  <1>6. CASE LoadSecond
    BY <1>6, InOrderLoadSecond
  <1>7. CASE Dispatch
    BY <1>7, InOrderDispatch
  <1>8. CASE LoadLost
    BY <1>8 DEF LoadLost, InOrderInv, TurnInv
  <1>9. CASE Return
    BY <1>9, InOrderReturn
  <1>10. CASE NextPage
    BY <1>10, InOrderNextPage
  <1>11. CASE PageFault
    BY <1>11, InOrderPageFault
  <1>12. CASE LoadFault
    BY <1>12, InOrderLoadFault
  <1>13. CASE LoadFails
    BY <1>13, InOrderLoadFails
  <1>14. CASE Ends
    BY <1>14, InOrderEnds
  <1>15. CASE Crashes
    BY <1>15, InOrderCrashes
  <1>16. CASE RunLine
    BY <1>16, InOrderRunLine
  <1>17. CASE RunOrQuitLine
    BY <1>17, InOrderQuitLine
  <1> QED
    BY <1>1, <1>2, <1>3, <1>4, <1>5, <1>6, <1>7, <1>8, <1>9, <1>10, <1>11, <1>12, <1>13, <1>14, <1>15,
       <1>16, <1>17, NotNested DEF Next, Kernel

LEMMA InOrderPages ==
    ASSUME WholeFrames, InOrderInv
    PROVE  PagesInPlace
  <1> SUFFICES ASSUME NEW e \in Entry, NEW j \in 0 .. 2
               PROVE  LET p == pcb[e[1]]
                          n == FRAME_SIZE * e[2] + j + 1
                      IN mem[FRAME_SIZE * FrameOf(e) + j] = PageLine(p.script, n)
    BY DEF PagesInPlace, PageLine
  <1>1. PICK q \in DOMAIN pcb, i \in Page : e = <<q, i>> /\ pcb[q].page_table[i] # -1
    BY DEF Entry
  <1>2. Holds(mem, pcb[q].page_table[i], pcb[q].script, i)
    BY <1>1 DEF InOrderInv, Layout, Stored
  <1>3. mem[3 * pcb[q].page_table[i] + j] = PageLine(pcb[q].script, 3 * i + j + 1)
    BY <1>2 DEF Holds
  <1> QED
    BY <1>1, <1>3 DEF FrameOf, FRAME_SIZE

--------------------------------------------------------------------------------
(***************************************************************************)
(* While no frame is taken, the kernel runs scripts as ScriptRunner does.  *)
(***************************************************************************)

\* A process goes when its script is at an end.
LEMMA AtTheEnd ==
    ASSUME WholeFrames, ScriptsFit, FrameKernelInv, NothingTaken, InOrderInv, Ends \/ LoadFails
    PROVE  turn.pid \in DOMAIN procs /\ Done(turn.pid) = Len(Lines[procs[turn.pid].script])
  <1>1. /\ turn.pid \in DOMAIN pcb /\ PcbOK(Current) /\ turn.page \in Page /\ Current = pcb[turn.pid]
    BY RunningLemma DEF Ends, LoadFails, Current
  <1>2. /\ turn.pid \in DOMAIN procs /\ procs[turn.pid].script = Current.script
        /\ procs[turn.pid] \in [script : Script, done : Nat]
        /\ Done(turn.pid) <= Len(Lines[procs[turn.pid].script])
    BY <1>1 DEF FrameKernelInv, PidsInv, InOrderInv, CountInv
  <1>3. PICK l \in Nat, d \in Nat, s \in Script :
            /\ s = Current.script /\ l = Len(Lines[s]) /\ d = Done(turn.pid) /\ d <= l
            /\ l <= 3 * PAGE_TABLE_SIZE
    BY <1>2, FrameKernelAssumption DEF Done, ScriptsFit
  <1> SUFFICES d >= l
    BY <1>2, <1>3
  <1>4. CASE Ends /\ PageDone
    <2>1. NextEntry \notin Frame \cup {-1} /\ mode = "run"
      BY <1>4 DEF Ends
    <2>2. turn.page + 1 \notin Page
      BY <1>1, <2>1 DEF NextEntry, PcbOK
    <2>3. PICK c \in Nat, n \in Nat : c = turn.page /\ n = PAGE_TABLE_SIZE
      BY <1>1, FrameKernelAssumption DEF Page
    <2>4. c + 1 >= n
      BY <2>2, <2>3 DEF Page
    <2>5. d = 3 * c + 3
      BY <1>3, <1>4, <2>1, <2>3, LeftPage
    <2> QED
      BY <1>3, <2>3, <2>4, <2>5
  <1>5. CASE Ends /\ ~PageDone
    <2>1. mode = "run" /\ Current.PC >= 0 /\ mem[Current.PC].value = None
      BY <1>5 DEF Ends
    <2>2. PageLine(s, d + 1).value = None
      BY <1>3, <1>5, <2>1, NextLineThere
    <2>3. ~(d + 1 <= l)
      <3> SUFFICES ASSUME d + 1 <= l PROVE FALSE
        OBVIOUS
      <3>1. [script |-> s, line |-> d + 1, tail |-> FALSE] = None
        BY <1>3, <2>2 DEF PageLine
      <3>2. d + 1 \in 1 .. Len(Lines[s])
        BY <1>3
      <3> QED
        BY <3>1, <3>2 DEF ScriptsFit
    <2> QED
      BY <2>3
  <1>6. CASE LoadFails
    <2>1. mode = "fault"
      BY <1>6 DEF LoadFails
    <2>2. LoadsNext /\ Loading = Current /\ load.page \in Page /\ d = 3 * load.page
      BY <1>3, <2>1, FaultLoadsNext
    <2>3. PICK r \in Loads : r.n = 0
      BY <1>6 DEF LoadFails
    <2>4. LoadedNext(r)
      BY <2>2, LoadNextLemma
    <2>5. Loading.pos = l
      BY <1>3, <2>2, <2>3, <2>4 DEF LoadedNext
    <2>6. Ordered(Loading) /\ Loading.page_table[load.page] = -1
      BY <2>2, NextLine DEF LoadsNext
    <2>7. ~(3 * load.page < l)
      BY <2>2, <2>5, <2>6 DEF Ordered
    <2> QED
      BY <2>2, <2>7
  <1> QED
    BY <1>4, <1>5, <1>6

LEMMA FinishedKept ==
    ASSUME FinishedInv,
           \A q \in DOMAIN procs' \ DOMAIN pcb' : q \in DOMAIN procs \ DOMAIN pcb /\ procs'[q] = procs[q]
    PROVE  FinishedInv'
  BY DEF FinishedInv, Done

LEMMA FinishedNext ==
    ASSUME WholeFrames, ScriptsFit, FrameKernelInv, NothingTaken, InOrderInv, FinishedInv, [Next]_vars
    PROVE  FinishedInv'
  <1>1. CASE DOMAIN pcb' = DOMAIN pcb /\ procs' = procs
    BY <1>1, FinishedKept
  <1>2. CASE UNCHANGED vars \/ User \/ NoSuchFile \/ NextPage \/ PageFault \/ Crashes
    <2>1. DOMAIN pcb' = DOMAIN pcb /\ procs' = procs
      BY <1>2 DEF vars, history, User, SetVar, ResetMem, Exec, Quit, NoSuchFile, NextPage, PageFault, Crashes
    <2> QED
      BY <1>1, <2>1
  <1>3. CASE NextScript
    <2>1. procs' = With(procs, pid_counter, [script |-> Head(args), done |-> 0])
          /\ pcb' = With(pcb, pid_counter, NewPCB(Head(args)))
      BY <1>3 DEF NextScript, Initialize
    <2>2. DOMAIN procs' = DOMAIN procs \cup {pid_counter} /\ DOMAIN pcb' = DOMAIN pcb \cup {pid_counter}
          /\ \A q \in DOMAIN procs : q # pid_counter => procs'[q] = procs[q]
      BY <2>1 DEF With
    <2> QED
      BY <2>2, FinishedKept
  <1>4. CASE LoadFirst \/ LoadSecond \/ LoadFault
    <2>1. LoadPre /\ load.pid \in DOMAIN pcb
      BY <1>4, LoadPreLemma DEF LoadFirst, LoadSecond, LoadFault, LoadPre
    <2>2. PICK r \in Loads : \E p : pcb' = With(Others(r), load.pid, p)
      BY <1>4 DEF LoadFirst, LoadSecond, LoadFault
    <2>3. DOMAIN Others(r) = DOMAIN pcb
      BY <2>1, LoadLemma DEF LoadPost
    <2>4. DOMAIN pcb' = DOMAIN pcb
      BY <2>1, <2>2, <2>3 DEF With
    <2>5. procs' = procs
      BY <1>4 DEF LoadFirst, LoadSecond, LoadFault, history
    <2> QED
      BY <1>1, <2>4, <2>5
  <1>5. CASE Dispatch
    <2>1. procs' = procs /\ queue # <<>> /\ queue \in Seq(DOMAIN pcb)
      BY <1>5 DEF Dispatch, history, FrameKernelInv, PidsInv
    <2>2. Head(queue) \in DOMAIN pcb
      BY <2>1
    <2>3. \E p : pcb' = With(pcb, Head(queue), p)
      BY <1>5 DEF Dispatch, Search
    <2>4. DOMAIN pcb' = DOMAIN pcb
      BY <2>2, <2>3 DEF With
    <2> QED
      BY <1>1, <2>1, <2>4
  <1>6. CASE LoadLost
    BY <1>6 DEF LoadLost, InOrderInv, TurnInv
  <1>7. CASE Return
    BY <1>7 DEF Return, FinishedInv
  <1>8. CASE LoadFails \/ Ends
    <2>1. Done(turn.pid) = Len(Lines[procs[turn.pid].script])
      BY <1>8, AtTheEnd
    <2>2. \E r \in Loads : Terminate(pcb) \/ (Terminate(Others(r)) /\ LoadPre)
      <3>1. \E r : r \in Loads
        BY DEF Loads
      <3> QED
        BY <1>8, <3>1, LoadPreLemma DEF LoadFails, Ends
    <2>3. PICK others : /\ Terminate(others)
                        /\ others = pcb \/ (\E r \in Loads : others = Others(r) /\ LoadPre)
      BY <2>2
    <2>4. DOMAIN others = DOMAIN pcb
      BY <2>3, LoadLemma DEF LoadPost
    <2>5. procs' = procs /\ DOMAIN pcb' = DOMAIN pcb \ {turn.pid}
      BY <2>3, <2>4 DEF Terminate, Without, history
    <2> QED
      BY <2>1, <2>5 DEF FinishedInv, Done
  <1>9. CASE RunLine \/ RunOrQuitLine
    <2>1. Executable /\ Recorded /\ pcb' = [pcb EXCEPT ![turn.pid].PC = @ + 1] /\ turn.pid \in DOMAIN pcb
      BY <1>9, RunningLemma DEF RunLine, RunOrQuitLine, Executable
    <2>2. OneMore
      BY <2>1, OneMoreLemma
    <2>3. DOMAIN pcb' = DOMAIN pcb
      BY <2>1
    <2> QED
      BY <2>1, <2>2, <2>3, FinishedKept DEF OneMore
  <1> QED
    BY <1>2, <1>3, <1>4, <1>5, <1>6, <1>7, <1>8, <1>9, NotNested DEF Next, Kernel

\* Every step is one of ScriptRunner or leaves what it shows alone.
LEMMA RunnerNext ==
    ASSUME WholeFrames, FrameKernelInv, InOrderInv, FinishedInv, [Next]_vars
    PROVE  [Runner!Next]_(Runner!vars)
  <1>1. CASE procs' = procs /\ last' = last
    BY <1>1 DEF Runner!vars
  <1>2. CASE NextScript
    <2>1. /\ args # <<>> /\ args \in Seq(Script) /\ pid_counter \in Nat \ {0}
          /\ procs' = With(procs, pid_counter, [script |-> Head(args), done |-> 0]) /\ last' = last
      BY <1>2 DEF NextScript, Initialize, FrameKernelInv, StageInv, PidsInv
    <2>2. PICK c \in Nat, s \in Script : c = pid_counter /\ s = Head(args)
      BY <2>1
    <2>3. c \notin DOMAIN procs
      BY <2>2 DEF InOrderInv, CountInv
    <2>4. c \in 1 .. 2 * MaxPid
      <3>1. PICK n \in Nat : n = Len(args) /\ n > 0
        BY <2>1
      <3>2. PICK m \in Nat : m = MaxPid
        BY FrameKernelAssumption
      <3>3. c + n <= m + 1 /\ c > 0 /\ n > 0
        BY <2>1, <2>2, <3>1, <3>2 DEF InOrderInv, CountInv
      <3>4. c \in 1 .. 2 * m
        BY ONLY <3>3, c \in Nat, n \in Nat, m \in Nat
      <3> QED
        BY <3>2, <3>4
    <2>5. procs' = [q \in DOMAIN procs \cup {c} |-> IF q = c THEN [script |-> s, done |-> 0] ELSE procs[q]]
      BY <2>1, <2>2 DEF With
    <2>6. Runner!Start(c, s)
      BY <2>1, <2>3, <2>5 DEF Runner!Start
    <2> QED
      BY <2>4, <2>6 DEF Runner!Next
  <1>3. CASE Return
    <2>1. procs' = <<>> /\ last' = last /\ DOMAIN queue = {} /\ turn.pid = 0 /\ load.pid = 0
      BY <1>3 DEF Return, FrameKernelInv, StageInv, NoTurn, NoLoad
    <2>2. DOMAIN pcb = {}
      BY <2>1 DEF FrameKernelInv, PidsInv, ProcsOK, Queued, Has
    <2>3. \A q \in DOMAIN procs : procs[q].done = Len(Lines[procs[q].script])
      BY <2>2 DEF FinishedInv, Done
    <2>4. Runner!Return
      BY <2>1, <2>3 DEF Runner!Return
    <2> QED
      BY <2>4 DEF Runner!Next
  <1>4. CASE RunLine \/ RunOrQuitLine
    <2>1. Executable /\ Recorded
      BY <1>4 DEF RunLine, RunOrQuitLine
    <2>2. /\ Done(turn.pid) + 1 <= Len(Lines[Current.script])
          /\ turn.pid \in DOMAIN procs /\ procs[turn.pid].script = Current.script
      BY <2>1, NextLineRuns
    <2>3. last' = [pid |-> turn.pid, script |-> Current.script, line |-> Done(turn.pid) + 1]
      BY <2>1, OneMoreLemma
    <2>4. procs' = [procs EXCEPT ![turn.pid].done = procs[turn.pid].done + 1]
      BY <2>1, <2>2 DEF Recorded
    <2>5. Runner!RunLine(turn.pid)
      BY <2>2, <2>3, <2>4 DEF Runner!RunLine, Done
    <2> QED
      BY <2>2, <2>5 DEF Runner!Next
  <1>5. CASE ~NextScript /\ ~Return /\ ~RunLine /\ ~RunOrQuitLine
    <2>1. procs' = procs /\ last' = last
      BY <1>5, NotNested DEF Next, Kernel, User, SetVar, ResetMem, Quit, Exec, NoSuchFile,
            LoadFirst, LoadSecond, Dispatch, LoadLost, NextPage, PageFault,
            LoadFault, LoadFails, Ends, Terminate, Crashes, history, vars
    <2> QED
      BY <1>1, <2>1
  <1> QED
    BY <1>2, <1>3, <1>4, <1>5

--------------------------------------------------------------------------------
(***************************************************************************)
(* Theorems.                                                               *)
(***************************************************************************)

\* What a process executes is a line of a frame it has, frames have one owner,
\* and every process waits, runs or loads: the invariant behind the other two,
\* of process_initialize, execute_process and load_page_into_frame_store.
THEOREM FrameKernelInvariant ==
    ASSUME WholeFrames
    PROVE  Spec => []FrameKernelInv
  <1>1. Init => FrameKernelInv
    BY InitInv
  <1>2. FrameKernelInv /\ [Next]_vars => FrameKernelInv'
    BY NextInv
  <1> QED
    BY <1>1, <1>2, PTL DEF Spec

\* No two pages ever have one frame: the frame that load_page_into_frame_store
\* takes leaves the page table of whoever had it.
THEOREM FrameKernelOwners ==
    ASSUME WholeFrames
    PROVE  Spec => []FramesDistinct
  <1>1. ASSUME FrameKernelInv PROVE FramesDistinct
    <2> SUFFICES ASSUME NEW d \in Entry, NEW e \in Entry, FrameOf(d) = FrameOf(e)
                 PROVE  d = e
      BY DEF FramesDistinct
    <2>1. PICK q \in DOMAIN pcb, i \in Page : d = <<q, i>> /\ pcb[q].page_table[i] # -1
      BY DEF Entry
    <2>2. PICK r \in DOMAIN pcb, k \in Page : e = <<r, k>>
      BY DEF Entry
    <2>3. pcb[q].page_table[i] = pcb[r].page_table[k]
      BY <2>1, <2>2 DEF FrameOf
    <2>4. q = r /\ i = k
      BY <1>1, <2>1, <2>3 DEF FrameKernelInv, MemOK, OneOwner
    <2> QED
      BY <2>1, <2>2, <2>4
  <1> QED
    BY <1>1, FrameKernelInvariant, PTL

\* Every line that execute_process hands to the interpreter is one of the script
\* the process was made from, however often its pages were taken and loaded anew.
THEOREM FrameKernelOwnLines ==
    ASSUME WholeFrames
    PROVE  Spec => OwnLinesOnly
  <1>1. ASSUME FrameKernelInv, Next
        PROVE  last' # last => last'.script = procs[last'.pid].script
    <2>1. CASE RunLine
      BY <1>1, <2>1, RecordedLemma DEF RunLine
    <2>2. CASE RunOrQuitLine
      BY <1>1, <2>2, RecordedLemma DEF RunOrQuitLine
    <2>3. CASE ~RunLine /\ ~RunOrQuitLine
      <3>1. last' = last
        BY <1>1, <2>3 DEF Next, Kernel, User, SetVar, ResetMem, Quit, Exec, NextScript, Initialize, NoSuchFile,
              LoadFirst, LoadSecond, LoadSecondNested, Dispatch, LoadLost, Return, NextPage, PageFault,
              LoadFault, LoadFails, Ends, Terminate, Crashes, NestedRun, NestedNoSuchFile, history
      <3> QED
        BY <3>1
    <2> QED
      BY <2>1, <2>2, <2>3
  <1> QED
    BY <1>1, FrameKernelInvariant, PTL DEF Spec, OwnLinesOnly

\* Pages are in place and lines in order as long as every page finds a hole.
LEMMA InOrder ==
    ASSUME WholeFrames
    PROVE  Spec /\ []NothingTaken => []InOrderInv
  <1>1. Init => InOrderInv
    BY InOrderInit
  <1>2. FrameKernelInv /\ NothingTaken /\ InOrderInv /\ [Next]_vars => InOrderInv'
    BY InOrderNext
  <1> QED
    BY <1>1, <1>2, FrameKernelInvariant, PTL DEF Spec

\* As long as every page finds a hole, load_page_into_frame_store puts page i of
\* a process where its page table says, with lines 3i + 1 on of its script.
THEOREM FrameKernelPages ==
    ASSUME WholeFrames
    PROVE  Spec /\ []NothingTaken => []PagesInPlace
  <1>1. InOrderInv => PagesInPlace
    BY InOrderPages
  <1> QED
    BY <1>1, InOrder, PTL

\* As long as every page finds a hole and the scripts fit into the page tables,
\* execute_process executes the lines of every script in order and once, and run
\* and exec return when all are done.
THEOREM FrameKernelImplementsScriptRunner ==
    ASSUME WholeFrames, ScriptsFit
    PROVE  Spec /\ []NothingTaken => ImplementsScriptRunner
  <1>1. Init => FinishedInv /\ Runner!Init
    BY DEF Init, FinishedInv, Runner!Init, NoLine, Runner!NoLine
  <1>2. FrameKernelInv /\ NothingTaken /\ InOrderInv /\ FinishedInv /\ [Next]_vars => FinishedInv'
    BY FinishedNext
  <1>3. FrameKernelInv /\ InOrderInv /\ FinishedInv /\ [Next]_vars => [Runner!Next]_(Runner!vars)
    BY RunnerNext
  <1> QED
    BY <1>1, <1>2, <1>3, FrameKernelInvariant, InOrder, PTL DEF Spec, ImplementsScriptRunner, Runner!Spec

================================================================================
