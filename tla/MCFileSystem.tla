------------------------------ MODULE MCFileSystem -----------------------------
(***************************************************************************)
(* Instances of FileSystem: one to three direct blocks and two pointers in *)
(* a block, so that a file of a few bytes reaches the doubly indirect one. *)
(***************************************************************************)
EXTENDS FileSystem, TLC

CONSTANTS a, b, none

MCTwo == {a, b}

MCFive == {5}
MCEmptyOrThree == {0, 3}

\* Names are only compared with each other.
MCSymmetry == Permutations(Name)

\* What the commands of Spec depend on.  They never read a sector that is not marked
\* or the name in an entry that is not in use, and the outcome of the last one
\* matters only when it is a crash.  (TLC checks an action property of every step,
\* whether or not the view of the state it leads to is new.)
MCView == <<[fs EXCEPT !.at = [s \in fs.map |-> fs.at[s]]],
            [k \in DOMAIN dir |-> IF dir[k].in_use THEN dir[k] ELSE NoEntry],
            open, table, lost, Running>>

================================================================================
