------------------------------- MODULE CommandLine -----------------------------
(***************************************************************************)
(* The command line of the shell (a3/shell.c, interpreter.c, cpu.c): a     *)
(* typed line is cut into sections at each ';' and interpreted section by  *)
(* section; a section that runs scripts copies them into the backing store *)
(* and has their lines cut and interpreted the same way before it returns. *)
(*                                                                         *)
(* parseInput cuts with strtok, which keeps its place in one static        *)
(* variable.  The lines of a script move it, and the parseInput of the     *)
(* prompt goes on from where they left it.                                 *)
(*                                                                         *)
(* In which order the lines of several scripts run is the kernel's matter; *)
(* here any script may run its next line (module ScriptRunner).  A name is *)
(* a stem and the number of letters 'a' behind it: copies are told apart   *)
(* by such letters.                                                        *)
(***************************************************************************)
EXTENDS Integers, Sequences, SequencesExt, FiniteSets

CONSTANTS
    Line,           \* the lines that users type: sequences of sections
    Text,           \* the lines of each script there is
    MaxCount        \* bound: no more scripts are copied.  In the code the buffers
                    \* for the command overflow when about 60 have been

\* A section of a line: the command, and the scripts it names.
Section(op, scripts) == [op |-> op, scripts |-> scripts]

Name == [stem : STRING, as : Nat]

AnySection == [op : {"none", "plain", "file", "bad", "exec", "quit"}, scripts : Seq(Name)]

\* exec, or run with one script.
Exec(scripts) == Section("exec", scripts)

\* exec without a script is an error.  The kernel takes an empty script for one of
\* one line and never finishes it (module PagedKernel).  A script that runs scripts
\* frees its own process; what follows is undefined.
ASSUME CommandLineAssumption ==
    /\ MaxCount \in Nat
    /\ Line \subseteq Seq(AnySection)
    /\ \A line \in Line : line # <<>> /\ \A i \in DOMAIN line : line[i] # Exec(<<>>)
    /\ DOMAIN Text \subseteq Name
    /\ \A n \in DOMAIN Text : Text[n] \in Seq(Seq(AnySection)) /\ Text[n] # <<>>
    /\ \A n \in DOMAIN Text : \A k \in DOMAIN Text[n] : \A i \in DOMAIN Text[n][k] :
          Text[n][k][i].op # "exec"

VARIABLES
    mode,               \* what the shell is doing
    typed,              \* the sections of the line that was typed last
    token,              \* the section of the prompt's parseInput
    cursor,             \* strtok: what is left of the string it was given last
    jobs,               \* the scripts that run
    store,              \* the directory backing_store: whether it is there, its files
    new_name_count,     \* the number of letters the next copy gets
    fsopen,             \* filesys_done has not been called
    ran,                \* history: the sections interpreted since a line was typed
    quits               \* history: how many quits scripts have executed since then

vars == <<mode, typed, token, cursor, jobs, store, new_name_count, fsopen, ran, quits>>

NoSection == Section("none", <<>>)

EmptyStore == [there |-> TRUE, files |-> <<>>]

NoStore == [there |-> FALSE, files |-> <<>>]

\* main: the directory is made anew and the file system is opened.
Init == /\ mode = "prompt"
        /\ typed = <<>>
        /\ token = NoSection
        /\ cursor = <<>>
        /\ jobs = <<>>
        /\ store = EmptyStore
        /\ new_name_count = 1
        /\ fsopen = TRUE
        /\ ran = <<>>
        /\ quits = 0

--------------------------------------------------------------------------------
(***************************************************************************)
(* Cutting a line.                                                         *)
(***************************************************************************)

\* strtok(NULL, ";") leaves its place behind the section it returns.
Skipped(rest) == IF rest = <<>> THEN <<>> ELSE Tail(rest)

\* What the interpreter returns for a section that runs no scripts.
Ret(section) == CASE section.op = "quit" -> -1
                  [] section.op = "bad" -> 2
                  [] OTHER -> 0

\* A slip to compare with: an error ends the line.
StopsAtError(ret) == ret # 0

Stops(ret) == ret = -1

\* The sections of a script's line that are interpreted, up to a quit, and where
\* strtok stands then: one section has been taken since and is dropped.
Interpreted(line) ==
    LET stopping == {i \in DOMAIN line : Stops(Ret(line[i]))}
    IN IF stopping = {} THEN line
       ELSE SubSeq(line, 1, CHOOSE i \in stopping : \A j \in stopping : i <= j)

Leftover(line) == SubSeq(line, Len(Interpreted(line)) + 2, Len(line))

\* The prompt's parseInput asks for its next section, or returns to main.
Moved == /\ mode' = IF cursor = <<>> THEN "prompt" ELSE "parse"
         /\ token' = IF cursor = <<>> THEN NoSection ELSE Head(cursor)
         /\ cursor' = Skipped(cursor)

\* How many scripts a line names.
ScriptsNamed(line) == FoldLeft(LAMBDA n, section : n + Len(section.scripts), 0, line)

\* A line is typed.  strtok skips empty sections, so there are none.
Type(line) == /\ mode = "prompt"
              /\ new_name_count + ScriptsNamed(line) <= MaxCount + 1
              /\ mode' = "parse"
              /\ typed' = line
              /\ token' = Head(line)
              /\ cursor' = Tail(line)
              /\ ran' = <<>>
              /\ quits' = 0
              /\ UNCHANGED <<jobs, store, new_name_count, fsopen>>

\* Commands of the file system and quit use what filesys_done frees.  Using it
\* after that is undefined: the command works, or the process crashes.
UsesFiles(section) == section.op \in {"file", "quit"}

--------------------------------------------------------------------------------
(***************************************************************************)
(* Sections of the typed line.                                             *)
(***************************************************************************)

\* Any command but run and exec.  quit makes parseInput return -1, at which main
\* exits; no other value ends the line.
Interpret ==
    /\ mode = "parse"
    /\ token.op # "exec"
    /\ ran' = Append(ran, token)
    /\ store' = IF token.op = "quit" THEN NoStore ELSE store
    /\ fsopen' = (fsopen /\ token.op # "quit")
    /\ IF Stops(Ret(token))
       THEN /\ mode' = IF Ret(token) = -1 THEN "exited" ELSE "prompt"
            /\ token' = NoSection
            /\ cursor' = Skipped(cursor)
       ELSE Moved
    /\ UNCHANGED <<typed, jobs, new_name_count, quits>>

\* A slip to compare with: one letter behind the stem, whatever the count.
CopyNameStem(name, count) == [name EXCEPT !.as = 1]

CopyName(name, count) == [name EXCEPT !.as = @ + count]

\* The names of the copies, counting on from count.
CopyNames(scripts, count) ==
    [k \in DOMAIN scripts |-> CopyName(scripts[k], count + k - 1)]

\* cp, one script after the other: a later copy replaces one of the same name, and
\* a script that is not there is not copied.
Copies(scripts, count) ==
    LET names == CopyNames(scripts, count)
        copied == {k \in DOMAIN scripts : scripts[k] \in DOMAIN Text}
    IN [c \in {names[k] : k \in copied} |->
           Text[scripts[CHOOSE k \in copied :
                           names[k] = c /\ \A l \in copied : names[l] = c => l <= k]]]

TooMany(scripts) == Len(scripts) > 3

\* run and exec up to the first line: the copies are made, then each is opened.
\* exec refuses more than three scripts; PCB_init exits when a copy is missing.
ExecCommand ==
    LET names == CopyNames(token.scripts, new_name_count)
        files == Copies(token.scripts, new_name_count)
    IN /\ mode = "parse"
       /\ token.op = "exec"
       /\ new_name_count' = new_name_count + Len(token.scripts)
       /\ store' = [store EXCEPT !.files = files]
       /\ ran' = Append(ran, token)
       /\ IF TooMany(token.scripts) THEN mode' = "exec" /\ UNCHANGED jobs
          ELSE IF {names[k] : k \in DOMAIN names} \subseteq DOMAIN files
          THEN /\ mode' = "exec"
               /\ jobs' = [k \in DOMAIN names |->
                              [script |-> token.scripts[k], text |-> files[names[k]], line |-> 1]]
          ELSE mode' = "exited" /\ UNCHANGED jobs
       /\ UNCHANGED <<typed, token, cursor, fsopen, quits>>

--------------------------------------------------------------------------------
(***************************************************************************)
(* Lines of scripts.                                                       *)
(***************************************************************************)

Done(job) == job.line > Len(job.text)

\* A slip to compare with: the line is not counted as run.
AdvancedNot(job) == job

Advanced(job) == [job EXCEPT !.line = @ + 1]

\* cpu_run: a line goes through parseInput.  A quit in it closes the file system
\* and removes the backing store, and ends the line, not the script.
RunLine(k) ==
    LET line == jobs[k].text[jobs[k].line]
        quit == \E i \in DOMAIN Interpreted(line) : Interpreted(line)[i].op = "quit"
    IN /\ mode = "exec"
       /\ k \in DOMAIN jobs
       /\ ~Done(jobs[k])
       /\ jobs' = [jobs EXCEPT ![k] = Advanced(@)]
       /\ cursor' = Leftover(line)
       /\ store' = IF quit THEN NoStore ELSE store
       /\ fsopen' = (fsopen /\ ~quit)
       /\ quits' = quits + (IF quit THEN 1 ELSE 0)
       /\ UNCHANGED <<mode, typed, token, new_name_count, ran>>

\* The same line, or a section of the prompt, finds the file system closed.
Crash == /\ ~fsopen
         /\ \/ mode = "parse" /\ UsesFiles(token)
            \/ /\ mode = "exec"
               /\ \E k \in DOMAIN jobs :
                     /\ ~Done(jobs[k])
                     /\ \E i \in DOMAIN Interpreted(jobs[k].text[jobs[k].line]) :
                           UsesFiles(jobs[k].text[jobs[k].line][i])
         /\ mode' = "exited"
         /\ UNCHANGED <<typed, token, cursor, jobs, store, new_name_count, fsopen, ran, quits>>

\* A slip to compare with: the directory is removed and not made again.
RenewedNot(dir) == NoStore

\* rm -rf backing_store, mkdir backing_store.
Renewed(dir) == EmptyStore

\* run or exec returns to the parseInput of the prompt.
ExecEnds == /\ mode = "exec"
            /\ \A k \in DOMAIN jobs : Done(jobs[k])
            /\ jobs' = <<>>
            /\ store' = Renewed(store)
            /\ Moved
            /\ UNCHANGED <<typed, new_name_count, fsopen, ran, quits>>

Shell == \/ Interpret \/ ExecCommand \/ Crash \/ ExecEnds
         \/ \E k \in 1 .. 3 : RunLine(k)

Next == Shell \/ \E line \in Line : Type(line)

Spec == Init /\ [][Next]_vars

\* Once a line is typed the shell keeps executing: it waits for nothing.
FairSpec == Spec /\ WF_vars(Shell)

--------------------------------------------------------------------------------
(***************************************************************************)
(* Properties.                                                             *)
(***************************************************************************)

RunsScripts(section) == section.op = "exec" /\ Len(section.scripts) <= 3

\* The sections up to the first that runs scripts.
UpToScripts(line) ==
    LET running == {i \in DOMAIN line : RunsScripts(line[i])}
    IN IF running = {} THEN line
       ELSE SubSeq(line, 1, CHOOSE i \in running : \A j \in running : i <= j)

\* When the prompt is back, only sections of the typed line have been interpreted,
\* each once and in the order typed, whatever errors they met, unless a script quit;
\* and none up to the first that runs scripts is missing.
SectionsInOrder ==
    mode = "prompt" => /\ IsPrefix(UpToScripts(typed), ran)
                       /\ quits = 0 => IsPrefix(ran, typed)

\* Each script that exec runs is the one it was called with.  The exception are
\* names that differ only in letters 'a' at the end, by as many as the scripts
\* stand apart: their copies have the same name, and the last of them runs.
OwnScripts ==
    \A k \in DOMAIN jobs :
        \/ jobs[k].script \in DOMAIN Text /\ jobs[k].text = Text[jobs[k].script]
        \/ \E l \in DOMAIN jobs \ {k} :
              /\ jobs[l].script.stem = jobs[k].script.stem
              /\ jobs[l].script.as - jobs[k].script.as = k - l
              /\ jobs[k].text = Text[jobs[l].script]

\* Whenever the prompt is up, also after a script has quit, the backing store is
\* there and empty: the next exec can copy, and finds no file of an earlier one.
StoreReady == mode = "prompt" => store = EmptyStore

\* The shell comes back to the prompt, or ends.
PromptReturns == (mode \in {"parse", "exec"}) ~> (mode \in {"prompt", "exited"})

--------------------------------------------------------------------------------
(***************************************************************************)
(* What a comment says and the code does not do.                           *)
(***************************************************************************)

\* parseInput goes on "until the cursor reaches the end of the string": when the
\* prompt is back, every section of the typed line has been interpreted.  The lines
\* of a script move the cursor, and the sections behind it are forgotten.
EverySectionInterpreted == mode = "prompt" => ran = typed

================================================================================
