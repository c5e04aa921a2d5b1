----------------------------- MODULE MCPagedKernel -----------------------------
(***************************************************************************)
(* Instances of PagedKernel.  The scripts are named after their lengths;   *)
(* rm3 ends in a command that returns 1, and gone is missing.              *)
(***************************************************************************)
EXTENDS PagedKernel, TLC

CONSTANTS x, y, v1, v2

Cmd(op) == [op |-> op, var |-> x, val |-> v1]

Plain(n) == [k \in 1 .. n |-> Cmd("echo")]

WithAt(seq, k, c) == [seq EXCEPT ![k] = c]

SetX == [op |-> "set", var |-> x, val |-> v2]

\* Scripts as the assignment's tests have them: no newline after the last line.
MCScript == {"p1", "p3", "p5", "p6", "p7", "p13", "rm3", "gone"}

MCLines == [s \in MCScript |->
               CASE s = "p3"  -> Plain(3)
                 [] s = "p5"  -> WithAt(Plain(5), 4, SetX)
                 [] s = "p6"  -> WithAt(Plain(6), 2, Cmd("resetmem"))
                 [] s = "p7"  -> WithAt(Plain(7), 3, Cmd("quit"))
                 [] s = "p13" -> WithAt(Plain(13), 11, SetX)
                 [] s = "rm3" -> WithAt(Plain(3), 3, Cmd("rm"))
                 [] OTHER     -> Plain(1)]

MCGone == {"gone"}
MCNone == {}
MCVar == {x, y}
MCVal == {v1}

================================================================================
