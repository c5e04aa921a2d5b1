----------------------------- MODULE MCFrameKernel -----------------------------
(***************************************************************************)
(* Instances of FrameKernel.  The scripts are named after their lengths    *)
(* and their peculiarity.                                                  *)
(***************************************************************************)
EXTENDS FrameKernel, TLC

CONSTANTS x, v1, v2

Cmd(op) == [op |-> op, var |-> x, val |-> v2]

Plain(n) == [k \in 1 .. n |-> Cmd("echo")]

WithAt(seq, k, c) == [seq EXCEPT ![k] = c]

RunOf(s) == [op |-> "run", var |-> x, val |-> s]

MCLines ==
    "p1" :> Plain(1) @@ "p3" :> Plain(3) @@ "p4" :> WithAt(Plain(4), 3, Cmd("set"))
    @@ "p6" :> Plain(6) @@ "p8" :> WithAt(Plain(8), 7, Cmd("resetmem"))
    @@ "p12" :> Plain(12)
    @@ "nest" :> WithAt(Plain(4), 2, RunOf("p4")) @@ "nestgone" :> WithAt(Plain(2), 1, RunOf("gone"))
    @@ "quit" :> WithAt(Plain(2), 2, Cmd("quit")) @@ "empty" :> <<>> @@ "gone" :> <<>>

MCGone == {"gone"}
MCNone == {}
MCRoomy == {"p1", "p3", "p4", "p6", "p8", "nest", "nestgone", "quit", "gone"}
MCTight == {"p1", "p4", "p6", "p12", "quit", "empty", "gone"}
MCVar == {x}
MCVal == {v1}

================================================================================
