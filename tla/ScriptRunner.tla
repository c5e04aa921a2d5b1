------------------------------ MODULE ScriptRunner -----------------------------
(***************************************************************************)
(* What run and exec promise to the user of the shell (the help text of    *)
(* a3/interpreter.c): the scripts are executed, each line once and in the  *)
(* order of the file, in some interleaving, and the prompt comes back when *)
(* all of them have reached their end.  There is no memory here and there  *)
(* are no pages.                                                           *)
(***************************************************************************)
EXTENDS Naturals, Sequences

CONSTANTS
    Pid,        \* the process identifiers
    Script,     \* the scripts
    Lines       \* the lines of each of them

VARIABLES
    procs,      \* for each process its script and the number of lines done
    last        \* the line executed last and the process that executed it

vars == <<procs, last>>

NoLine == [pid |-> 0, script |-> "none", line |-> 0]

Init == procs = <<>> /\ last = NoLine

Start(pid, s) ==
    /\ pid \notin DOMAIN procs
    /\ procs' = [q \in DOMAIN procs \cup {pid} |->
                    IF q = pid THEN [script |-> s, done |-> 0] ELSE procs[q]]
    /\ UNCHANGED last

RunLine(pid) ==
    LET s == procs[pid].script
        k == procs[pid].done + 1
    IN /\ k <= Len(Lines[s])
       /\ procs' = [procs EXCEPT ![pid].done = k]
       /\ last' = [pid |-> pid, script |-> s, line |-> k]

\* The prompt comes back.
Return == /\ \A pid \in DOMAIN procs : procs[pid].done = Len(Lines[procs[pid].script])
          /\ procs' = <<>>
          /\ UNCHANGED last

Next == \/ \E pid \in Pid, s \in Script : Start(pid, s)
        \/ \E pid \in DOMAIN procs : RunLine(pid)
        \/ Return

Spec == Init /\ [][Next]_vars

================================================================================
