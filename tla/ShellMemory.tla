------------------------------ MODULE ShellMemory ------------------------------
(***************************************************************************)
(* The memory of the shell (a3/shellmemory.c): one array whose first       *)
(* FRAME_STORE_SIZE lines hold pages of scripts, three lines a frame, and  *)
(* whose other lines hold the variables of the user.  A line is free when  *)
(* its key is the word "none".  The operators take the array and return    *)
(* what the function of the code leaves behind.                            *)
(***************************************************************************)
EXTENDS Integers, Sequences

CONSTANTS
    FRAME_STORE_SIZE,   \* lines reserved for frames
    VAR_STORE_SIZE,     \* lines reserved for variables
    None                \* the word "none", as a key and as a value

ASSUME MemoryAssumption ==
    /\ FRAME_STORE_SIZE \in Nat
    /\ VAR_STORE_SIZE \in Nat

FrameZone == 0 .. FRAME_STORE_SIZE - 1

VarZone == FRAME_STORE_SIZE .. FRAME_STORE_SIZE + VAR_STORE_SIZE - 1

Memory == FrameZone \cup VarZone

FreeLine == [var |-> None, value |-> None]

\* The three lines of the frame that starts at i.
FrameLines(i) == i .. i + 2

MemInit == [p \in Memory |-> FreeLine]

\* Lines outside the array are not modelled: see FreeingClearsAtMostTwo in PagedKernel.
MemFree(mem, lines) == [p \in Memory |-> IF p \in lines THEN FreeLine ELSE mem[p]]

--------------------------------------------------------------------------------
(***************************************************************************)
(* Frames.                                                                 *)
(***************************************************************************)

\* A slip to compare with: the scan runs past the border.
FreeFramesPastBorder(mem) ==
    {i \in FrameZone : FrameLines(i) \subseteq Memory
                       /\ \A p \in FrameLines(i) : mem[p].var = None}

\* The places where frame_alloc finds three free lines in a row.
FreeFrames(mem) == {i \in FrameZone : /\ FrameLines(i) \subseteq FrameZone
                                      /\ \A p \in FrameLines(i) : mem[p].var = None}

\* frame_alloc takes the first of them, if there is one.
FirstFrame(mem) == LET free == FreeFrames(mem)
                   IN CHOOSE i \in free : \A k \in free : i <= k

\* frame_alloc writes the pid into the three keys and leaves the values as they
\* were; mem_set_value_at then stores the sequence of lines that could be read.
FrameLoad(mem, i, lines, pid) ==
    LET Loaded(line, k) == [var |-> pid, value |-> IF k <= Len(lines) THEN lines[k] ELSE line.value]
    IN [mem EXCEPT ![i] = Loaded(@, 1), ![i + 1] = Loaded(@, 2), ![i + 2] = Loaded(@, 3)]

--------------------------------------------------------------------------------
(***************************************************************************)
(* Variables.                                                              *)
(***************************************************************************)

LinesOf(mem, v) == {p \in VarZone : mem[p].var = v}

First(lines) == CHOOSE p \in lines : \A q \in lines : p <= q

\* mem_set_value: overwrite the first line with this key, else take the first
\* free line, else do nothing.
MemSetValue(mem, v, x) ==
    IF LinesOf(mem, v) # {}
    THEN [mem EXCEPT ![First(LinesOf(mem, v))].value = x]
    ELSE IF LinesOf(mem, None) # {}
         THEN [mem EXCEPT ![First(LinesOf(mem, None))] = [var |-> v, value |-> x]]
         ELSE mem

ResetVarZone(mem) == MemFree(mem, VarZone)

================================================================================
