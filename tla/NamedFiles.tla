------------------------------- MODULE NamedFiles ------------------------------
(***************************************************************************)
(* What the file commands of the shell promise, command by command: files  *)
(* have a name and a length, and of each command its user knows what it    *)
(* was asked and how it ended.                                             *)
(***************************************************************************)
EXTENDS Naturals

CONSTANTS Name, Size

VARIABLES
    files,      \* the length of each file there is
    outcome     \* the last command that was to change a file, and its result

vars == <<files, outcome>>

Set(n, length) == files' = [m \in DOMAIN files \cup {n} |-> IF m = n THEN length ELSE files[m]]

Kept(names) == files' = [m \in names |-> files[m]]

Init == /\ files = <<>>
        /\ outcome = [result |-> "unchanged"]

\* A command that was not asked to change a file, or that says it failed.
NoChange(result) == /\ outcome' = [result |-> result]
                    /\ UNCHANGED files

Create(n, size) ==
    /\ outcome' = [command |-> "create", name |-> n, size |-> size, result |-> "done"]
    /\ n \notin DOMAIN files
    /\ Set(n, size)

\* The copy of a file is one byte longer; one that fails half-way is as long.
CopyIn(n, size, result) ==
    /\ outcome' = [command |-> "copy_in", name |-> n, size |-> size, result |-> result]
    /\ n \notin DOMAIN files
    /\ Set(n, IF result = "done" THEN size + 1 ELSE size)

\* A write reaches from its offset on, and never makes a file shorter.
Write(n, size) ==
    /\ n \in DOMAIN files \cap DOMAIN files'
    /\ \E offset \in 0 .. files'[n] :
          /\ outcome' = [command |-> "write", name |-> n, size |-> size,
                         offset |-> offset, result |-> "done"]
          /\ Set(n, IF offset + size > files[n] THEN offset + size ELSE files[n])

Remove(n) == /\ outcome' = [command |-> "rm", name |-> n, result |-> "done"]
             /\ n \in DOMAIN files
             /\ Kept(DOMAIN files \ {n})

\* Where there is an empty file, that one and any others may be lost.
Crash(n) == /\ outcome' = [result |-> "crashed"]
            /\ files[n] = 0
            /\ \E names \in SUBSET (DOMAIN files \ {n}) : Kept(names)

Next == /\ outcome # [result |-> "crashed"]
        /\ \/ NoChange("unchanged") \/ NoChange("failed")
           \/ \E n \in Name, size \in Size :
                 \/ Create(n, size)
                 \/ CopyIn(n, size, "done") \/ CopyIn(n, size, "half")
                 \/ Write(n, size)
           \/ \E n \in Name : Remove(n)
           \/ \E n \in DOMAIN files : Crash(n)

Spec == Init /\ [][Next]_vars

================================================================================
