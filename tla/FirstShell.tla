------------------------------- MODULE FirstShell ------------------------------
(***************************************************************************)
(* The shell of the first assignment (a1/shell.c, interpreter.c,           *)
(* shellmemory.c): commands over variables, conditionals on one line, and  *)
(* scripts that may run scripts.  There are no processes: run reads its    *)
(* file line by line and calls the parser for each of them, and so does a  *)
(* conditional for the command it chooses, so that interpreter calls       *)
(* itself through parseInput.                                              *)
(*                                                                         *)
(* A line is the sequence of its words.  ';' ends a word and not a command *)
(* here, so a line is one command.  A value is a sequence of words too.    *)
(* Empty scripts and lines that end in else, for which the code uses       *)
(* memory nobody has written, are left out.                                *)
(***************************************************************************)
EXTENDS Integers, Sequences, FiniteSets, SequencesExt

CONSTANTS
    Typed,          \* the lines that users type
    Chains,         \* the chains of conditionals among them
    Script,         \* the lines of each script there is
    Trailing,       \* the scripts with a newline behind their last line
    Dollar,         \* the variable a word names, for the words that begin with '$'
    MemSize,        \* entries of shellmemory
    MAX_ARGS_SIZE,  \* words of a command
    FopenMax        \* files the process can have open

ASSUME FirstShellAssumption ==
    /\ {MemSize, MAX_ARGS_SIZE, FopenMax} \subseteq Nat
    /\ \A s \in DOMAIN Script : Script[s] # <<>>
    /\ \A line \in Typed : line # <<>> => line[Len(line)] # "else"

VARIABLES
    shellmemory,    \* the entries: variable and value
    stack,          \* the scripts that run, the last one called at the end
    words,          \* the command the interpreter works on
    asked,          \* history: the line that command came from
    mode,           \* "prompt", "busy", "script" (between two lines) or "exited"
    written         \* history: the value last given to each variable

vars == <<shellmemory, stack, words, asked, mode, written>>

Nothing == <<>>

Free == [var |-> "none", value |-> <<"none">>]

Init == /\ shellmemory = [i \in 1 .. MemSize |-> Free]
        /\ stack = <<>>
        /\ words = <<>>
        /\ asked = <<>>
        /\ mode = "prompt"
        /\ written = <<>>

--------------------------------------------------------------------------------
(***************************************************************************)
(* shellmemory.c.                                                          *)
(***************************************************************************)

EntriesOf(m, v) == {i \in DOMAIN m : m[i].var = v}

First(entries) == CHOOSE i \in entries : \A j \in entries : i <= j

\* A slip to compare with: the first free entry is taken at once.
mem_set_valueAtOnce(m, v, x) ==
    IF EntriesOf(m, "none") = {} THEN m
    ELSE [m EXCEPT ![First(EntriesOf(m, "none"))] = [var |-> v, value |-> x]]

\* An entry of the variable is overwritten, else the first free one is taken, else
\* nothing happens.  The name of a free entry, none, is a variable like others.
mem_set_value(m, v, x) ==
    IF EntriesOf(m, v) # {} THEN [m EXCEPT ![First(EntriesOf(m, v))].value = x]
    ELSE IF EntriesOf(m, "none") # {}
         THEN [m EXCEPT ![First(EntriesOf(m, "none"))] = [var |-> v, value |-> x]]
    ELSE m

\* Nothing stands for the answer that the variable does not exist.
mem_get_value(m, v) ==
    IF EntriesOf(m, v) = {} THEN Nothing ELSE m[First(EntriesOf(m, v))].value

--------------------------------------------------------------------------------
(***************************************************************************)
(* Conditionals.                                                           *)
(***************************************************************************)

ValueOf(m, word) == IF word \in DOMAIN Dollar THEN mem_get_value(m, Dollar[word]) ELSE <<word>>

Holds(m, left, op, right) ==
    IF op = "==" THEN ValueOf(m, left) = ValueOf(m, right)
    ELSE ValueOf(m, left) # ValueOf(m, right)

\* The first of these words from a place on, or the place behind the last word.
Find(line, from, ends) ==
    LET found == {i \in from .. Len(line) : line[i] \in ends}
    IN IF found = {} THEN Len(line) + 1 ELSE CHOOSE i \in found : \A j \in found : i <= j

\* Where the first command ends, and the second one when there is an else.
EndOfFirst(line) == Find(line, 7, {"else", "fi"})

\* A slip to compare with: the first word of the second command is searched too.
EndOfSecondEarly(line) == Find(line, EndOfFirst(line) + 1, {"fi", "if"})

EndOfSecond(line) == Find(line, EndOfFirst(line) + 2, {"fi"})

HasElse(line) == EndOfFirst(line) <= Len(line) /\ line[EndOfFirst(line)] = "else"

\* The checks of a conditional.  That the second command ends in fi is not one.
WellFormed(line) == /\ Len(line) >= 6
                    /\ line[3] \in {"==", "!="}
                    /\ line[5] = "then"
                    /\ line[6] \notin {"else", "fi"}
                    /\ EndOfFirst(line) <= Len(line)

FirstCommand(line) == SubSeq(line, 6, EndOfFirst(line) - 1)

SecondCommand(line) ==
    IF HasElse(line) THEN SubSeq(line, EndOfFirst(line) + 1, EndOfSecond(line) - 1) ELSE <<>>

\* The search compares a word before it checks that there is one.
ReadsPastEnd(line) == /\ Len(line) >= 6
                      /\ line[3] \in {"==", "!="}
                      /\ line[5] = "then"
                      /\ line[6] \notin {"else", "fi"}
                      /\ \/ EndOfFirst(line) > Len(line)
                         \/ HasElse(line) /\ EndOfSecond(line) > Len(line)

--------------------------------------------------------------------------------
(***************************************************************************)
(* Commands.                                                               *)
(***************************************************************************)

\* How many words a command has, for the ones that change nothing but what is on
\* the screen or in the file system of the host.
PlainUsage == [help |-> 1, print |-> 2, echo |-> 2, my_ls |-> 1, my_mkdir |-> 2,
               my_touch |-> 2, my_cd |-> 2, my_cat |-> 2]

Accepted(line) == Len(line) >= 1 /\ Len(line) <= MAX_ARGS_SIZE

IsSet(line) == Accepted(line) /\ line[1] = "set" /\ Len(line) \in 3 .. 7

IsRun(line) == Accepted(line) /\ line[1] = "run" /\ Len(line) = 2

IsQuit(line) == Accepted(line) /\ line[1] = "quit" /\ Len(line) = 1

IsIf(line) == Accepted(line) /\ line[1] = "if"

IsPlain(line) == /\ Accepted(line)
                 /\ line[1] \in DOMAIN PlainUsage
                 /\ Len(line) = PlainUsage[line[1]]

\* Everything else is answered with an error, and so is a conditional that is not
\* well formed.
IsWrong(line) == /\ ~IsSet(line) /\ ~IsRun(line) /\ ~IsQuit(line) /\ ~IsPlain(line)
                 /\ IsIf(line) => ~WellFormed(line)

\* After a command the shell is back at the prompt or in the script.
Returned == /\ mode' = IF stack' = <<>> THEN "prompt" ELSE "script"
            /\ words' = <<>>

Type(line) == /\ mode = "prompt"
              /\ mode' = "busy"
              /\ words' = line
              /\ asked' = line
              /\ UNCHANGED <<shellmemory, stack, written>>

\* help, print, echo, my_ls and the like, or an error.
Plain == /\ mode = "busy"
         /\ IsPlain(words) \/ IsWrong(words)
         /\ UNCHANGED <<shellmemory, stack, asked, written>>
         /\ Returned

Set == /\ mode = "busy"
       /\ IsSet(words)
       /\ LET value == SubSeq(words, 3, Len(words))
          IN /\ shellmemory' = mem_set_value(shellmemory, words[2], value)
             /\ written' = [v \in DOMAIN written \cup {words[2]} |->
                               IF v = words[2] THEN value ELSE written[v]]
       /\ UNCHANGED <<stack, asked>>
       /\ Returned

Quit == /\ mode = "busy"
        /\ IsQuit(words)
        /\ mode' = "exited"
        /\ UNCHANGED <<shellmemory, stack, words, asked, written>>

\* The command of a conditional goes through the parser again.  There is nothing
\* to do when it is empty.
Chosen(m, line) ==
    IF Holds(m, line[2], line[3], line[4]) THEN FirstCommand(line) ELSE SecondCommand(line)

If == /\ mode = "busy"
      /\ IsIf(words)
      /\ WellFormed(words)
      /\ words' = Chosen(shellmemory, words)
      /\ UNCHANGED <<shellmemory, stack, asked, mode, written>>

\* Comparing a word that was never set is undefined: the search goes on to its
\* bounds check, as the other actions have it, or the process crashes.
Crash == /\ mode = "busy"
         /\ IsIf(words)
         /\ ReadsPastEnd(words)
         /\ mode' = "exited"
         /\ UNCHANGED <<shellmemory, stack, words, asked, written>>

\* run opens the file.  There is no other end to a script that runs itself than
\* that no more files can be opened.
Run == /\ mode = "busy"
       /\ IsRun(words)
       /\ stack' = IF words[2] \in DOMAIN Script /\ Len(stack) < FopenMax
                   THEN Append(stack, [script |-> words[2], line |-> 1])
                   ELSE stack
       /\ UNCHANGED <<shellmemory, asked, written>>
       /\ Returned

\* The lines fgets delivers: behind a trailing newline comes an empty one.
LinesRead(s) == IF s \in Trailing THEN Append(Script[s], <<>>) ELSE Script[s]

Top == stack[Len(stack)]

\* A slip to compare with: the script is read from its beginning again.
NextLineAgain(frame) == frame

NextLine(frame) == [frame EXCEPT !.line = @ + 1]

ScriptLine == /\ mode = "script"
              /\ Top.line <= Len(LinesRead(Top.script))
              /\ words' = LinesRead(Top.script)[Top.line]
              /\ asked' = words'
              /\ stack' = [stack EXCEPT ![Len(stack)] = NextLine(@)]
              /\ mode' = "busy"
              /\ UNCHANGED <<shellmemory, written>>

ScriptEnd == /\ mode = "script"
             /\ Top.line > Len(LinesRead(Top.script))
             /\ stack' = Front(stack)
             /\ UNCHANGED <<shellmemory, asked, written>>
             /\ Returned

Shell == Plain \/ Set \/ Quit \/ If \/ Crash \/ Run \/ ScriptLine \/ ScriptEnd

Next == Shell \/ \E line \in Typed : Type(line)

Spec == Init /\ [][Next]_vars

\* Once a line is typed the shell keeps executing: it waits for nothing.
FairSpec == Spec /\ WF_vars(Shell)

--------------------------------------------------------------------------------
(***************************************************************************)
(* Properties.                                                             *)
(***************************************************************************)

\* The variables are what was last given to them, in a script or at the prompt; a
\* variable is forgotten only when all entries belonged to others.  That free
\* entries are marked with a name users may write to does no harm to the others.
LastValueCounts ==
    \A v \in DOMAIN written \ {"none"} :
        \/ mem_get_value(shellmemory, v) = written[v]
        \/ /\ EntriesOf(shellmemory, v) = {}
           /\ EntriesOf(shellmemory, "none") = {}

\* A chain of conditionals: each arm a condition and a command, the next arm behind
\* the else of the one before, and perhaps a last else.
Flat(chain) ==
    FlattenSeq([k \in DOMAIN chain.arms |->
                   <<"if", chain.arms[k].left, chain.arms[k].op, chain.arms[k].right, "then">>
                   \o chain.arms[k].command
                   \o (IF k < Len(chain.arms) \/ chain.last # <<>> THEN <<"else">> ELSE <<>>)])
    \o chain.last \o [k \in DOMAIN chain.arms |-> "fi"]

\* The command of the first arm whose condition holds, else the last one.
Meaning(m, chain) ==
    LET holding == {k \in DOMAIN chain.arms :
                       Holds(m, chain.arms[k].left, chain.arms[k].op, chain.arms[k].right)}
    IN IF holding = {} THEN chain.last ELSE chain.arms[First(holding)].command

\* The interpreter turns to a command that is no conditional.
Executes == mode = "busy" /\ mode' # "busy" /\ ~Crash

\* Whatever chain of conditionals is asked for, the command it runs is the one the
\* conditions choose, or none: the search for else and fi, which takes the first fi
\* for its own, never mixes up the arms.  It is always run when there is only one
\* arm or a last else.
RunsChosenArm ==
    [][\A chain \in Chains :
          Executes /\ Accepted(asked) /\ asked = Flat(chain) =>
             \/ words = Meaning(shellmemory, chain)
             \/ /\ IsWrong(words)
                /\ Len(chain.arms) > 1 /\ chain.last = <<>>]_vars

\* Every line returns to the prompt or ends the shell, also one that runs a script
\* that runs itself.
LineReturns == (mode \in {"busy", "script"}) ~> (mode \in {"prompt", "exited"})

================================================================================
