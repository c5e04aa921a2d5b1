--------------------------- MODULE CommandLineProofs ---------------------------
(***************************************************************************)
(* Proofs about CommandLine for all lines and all scripts: how much of a   *)
(* line is interpreted although scripts move the place of strtok, that     *)
(* scripts are run under their own names, and that the backing store is    *)
(* ready whenever the prompt is up.                                        *)
(***************************************************************************)
EXTENDS CommandLine, WellFoundedInduction, SequenceTheorems, TLAPS

\* A set of natural numbers that is not empty has a least element.
LEMMA LeastElement ==
    ASSUME NEW S \in SUBSET Nat, S # {}
    PROVE  \E i \in S : \A j \in S : i <= j
  <1>1. IsWellFoundedOn(OpToRel(<, Nat), Nat)
    BY NatLessThanWellFounded
  <1>2. PICK i \in S : \A j \in S : ~(<<j, i>> \in OpToRel(<, Nat))
    BY <1>1, WFMin
  <1>3. \A j \in S : ~(j < i)
    <2> SUFFICES ASSUME NEW j \in S, j < i PROVE FALSE
      OBVIOUS
    <2>1. <<j, i>> \in OpToRel(<, Nat)
      BY DEF OpToRel
    <2> QED
      BY <1>2, <2>1
  <1> QED
    BY <1>3

\* It has a greatest element when it is bounded.
LEMMA GreatestElement ==
    ASSUME NEW S \in SUBSET Nat, S # {}, NEW n \in Nat, \A i \in S : i <= n
    PROVE  \E i \in S : \A j \in S : j <= i
  <1> DEFINE T == {n - i : i \in S}
  <1>1. T \in SUBSET Nat /\ T # {}
    <2>1. \A i \in S : n - i \in Nat
      OBVIOUS
    <2>2. PICK i \in S : TRUE
      OBVIOUS
    <2>3. n - i \in T
      OBVIOUS
    <2> QED
      BY <2>1, <2>3
  <1>2. PICK k \in T : \A l \in T : k <= l
    BY <1>1, LeastElement
  <1>3. PICK i \in S : k = n - i
    OBVIOUS
  <1>4. \A j \in S : n - i <= n - j
    BY <1>2, <1>3
  <1> QED
    BY <1>4

--------------------------------------------------------------------------------

Job == [script : Name, text : Seq(Seq(AnySection)) \ {<<>>}, line : Nat \ {0}]

TypeInv == /\ mode \in {"prompt", "parse", "exec", "exited"}
           /\ typed \in Line \cup {<<>>}
           /\ token \in AnySection
           /\ cursor \in Seq(AnySection)
           /\ jobs \in Seq(Job)
           /\ new_name_count \in Nat
           /\ ran \in Seq(AnySection)
           /\ quits \in Nat

\* The backing store is in order before and after run and exec.
StoreInv == mode \in {"prompt", "parse"} => store = EmptyStore

\* Before a section runs scripts, what has been interpreted is the beginning of
\* the typed line.
Plainly(n) == /\ n <= Len(typed)
              /\ Len(ran) = n
              /\ \A i \in 1 .. n : ran[i] = typed[i] /\ ~RunsScripts(typed[i])

\* The cursor stands behind section n of the typed line.
CursorBehind(n) == cursor = SubSeq(typed, n + 1, Len(typed))

\* What holds at the prompt is more than SectionsInOrder says: unless a script quit,
\* the line was interpreted exactly up to the first section that runs scripts.
SectionsUpToScripts ==
    /\ IsPrefix(UpToScripts(typed), ran)
    /\ quits = 0 => ran = UpToScripts(typed)

\* What is interpreted and what is to come: before the first section that runs
\* scripts, while it runs them, and once one of them has quit.  A script that does
\* not quit leaves nothing to come.
SectionsInv ==
    /\ mode \in {"prompt", "parse"} => jobs = <<>>
    /\ mode = "prompt" => SectionsUpToScripts
    /\ mode = "parse" /\ quits = 0 => /\ Len(ran) < Len(typed)
                                      /\ token = typed[Len(ran) + 1]
                                      /\ Plainly(Len(ran))
                                      /\ CursorBehind(Len(ran) + 1)
    /\ mode = "exec" /\ quits = 0 =>
          \/ jobs = <<>> /\ Plainly(Len(ran)) /\ CursorBehind(Len(ran))
          \/ /\ jobs # <<>>
             /\ ran = UpToScripts(typed)
             /\ (\E k \in DOMAIN jobs : jobs[k].line > 1) => cursor = <<>>
    /\ mode \in {"parse", "exec"} /\ quits # 0 => IsPrefix(UpToScripts(typed), ran)

IInv == TypeInv /\ StoreInv /\ SectionsInv /\ OwnScripts

--------------------------------------------------------------------------------
(***************************************************************************)
(* Sequences of sections.                                                  *)
(***************************************************************************)

LEMMA TypedLemma ==
    ASSUME TypeInv
    PROVE  /\ typed \in Seq(AnySection)
           /\ \A i \in DOMAIN typed : typed[i] \in AnySection /\ typed[i] # Exec(<<>>)
  <1>1. typed \in Seq(AnySection)
    <2>1. <<>> \in Seq(AnySection) /\ Line \subseteq Seq(AnySection)
      BY CommandLineAssumption
    <2> QED
      BY <2>1 DEF TypeInv
  <1>2. \A i \in DOMAIN typed : typed[i] # Exec(<<>>)
    <2>1. CASE typed = <<>>
      BY <2>1
    <2>2. CASE typed \in Line
      BY <2>2, CommandLineAssumption
    <2> QED
      BY <2>1, <2>2 DEF TypeInv
  <1> QED
    BY <1>1, <1>2

\* Nothing else stops a line than quit.
LEMMA StopsLemma ==
    ASSUME NEW section
    PROVE  Stops(Ret(section)) <=> section.op = "quit"
  BY DEF Stops, Ret

\* The prompt's parseInput takes the next section from behind section n.
LEMMA NextSectionLemma ==
    ASSUME TypeInv, NEW n \in 0 .. Len(typed), CursorBehind(n)
    PROVE  /\ cursor = <<>> <=> n = Len(typed)
           /\ cursor # <<>> => /\ Head(cursor) = typed[n + 1]
                               /\ Skipped(cursor) = SubSeq(typed, n + 2, Len(typed))
  <1>1. typed \in Seq(AnySection)
    BY TypedLemma
  <1>2. CASE n = Len(typed)
    BY <1>1, <1>2, SubSeqEmpty DEF CursorBehind
  <1>3. CASE n < Len(typed)
    <2>1. n + 1 \in 1 .. Len(typed) /\ Len(typed) \in n + 1 .. Len(typed)
      BY <1>1, <1>3
    <2>2. Head(cursor) = typed[n + 1] /\ Tail(cursor) = SubSeq(typed, n + 2, Len(typed))
      BY <1>1, <2>1, HeadTailOfSubSeq DEF CursorBehind
    <2>3. \A i \in n + 1 .. Len(typed) : typed[i] \in AnySection
      BY <1>1
    <2>4. Len(cursor) = Len(typed) - (n + 1) + 1
      BY <1>1, <1>3, <2>3, SubSeqProperties DEF CursorBehind
    <2>5. cursor # <<>>
      BY <1>1, <1>3, <2>4
    <2> QED
      BY <1>1, <1>3, <2>2, <2>5 DEF Skipped
  <1> QED
    BY <1>1, <1>2, <1>3

\* A line none of whose sections runs scripts has been interpreted to its end.
LEMMA PlainlyLemma ==
    ASSUME NEW line \in Seq(AnySection), NEW done \in Seq(AnySection), Len(done) = Len(line),
           \A i \in 1 .. Len(line) : done[i] = line[i] /\ ~RunsScripts(line[i])
    PROVE  done = UpToScripts(line)
  <1>1. {i \in DOMAIN line : RunsScripts(line[i])} = {}
    OBVIOUS
  <1>2. UpToScripts(line) = line
    BY <1>1 DEF UpToScripts
  <1>3. done = line
    BY SeqEqual
  <1> QED
    BY <1>2, <1>3

\* When all sections before one are plain and it runs scripts, it is the first.
LEMMA FirstRunLemma ==
    ASSUME TypeInv, Plainly(Len(ran)), Len(ran) < Len(typed),
           RunsScripts(typed[Len(ran) + 1])
    PROVE  Append(ran, typed[Len(ran) + 1]) = UpToScripts(typed)
  <1> DEFINE n == Len(ran) + 1
             running == {i \in DOMAIN typed : RunsScripts(typed[i])}
  <1>1. typed \in Seq(AnySection) /\ ran \in Seq(AnySection)
    BY TypedLemma DEF TypeInv
  <1>2. n \in running /\ \A j \in running : n <= j
    BY <1>1 DEF Plainly
  <1>3. \A i \in running : (\A j \in running : i <= j) => i = n
    <2> SUFFICES ASSUME NEW i \in running, \A j \in running : i <= j PROVE i = n
      OBVIOUS
    <2>1. i <= n /\ n <= i
      BY <1>2
    <2> QED
      BY <1>1, <2>1
  <1>4. (CHOOSE i \in running : \A j \in running : i <= j) = n
    BY <1>2, <1>3
  <1>5. UpToScripts(typed) = SubSeq(typed, 1, n)
    BY <1>2, <1>4 DEF UpToScripts
  <1> DEFINE s == SubSeq(typed, 1, n)
             t == Append(ran, typed[n])
  <1>6. n \in Nat /\ n <= Len(typed) /\ typed[n] \in AnySection
    BY <1>1
  <1>7. s \in Seq(AnySection) /\ Len(s) = n /\ \A i \in 1 .. n : s[i] = typed[i]
    BY <1>1, <1>6
  <1>8. t \in Seq(AnySection) /\ Len(t) = n /\ \A i \in 1 .. n : t[i] = typed[i]
    BY <1>1, <1>6, AppendProperties DEF Plainly
  <1>9. s = t
    <2> HIDE DEF s, t
    <2> QED
      BY <1>6, <1>7, <1>8, SeqEqual
  <1> QED
    BY <1>5, <1>9

\* What has been interpreted once stays.
LEMMA PrefixLemma ==
    ASSUME TypeInv, NEW section \in AnySection,
           IsPrefix(UpToScripts(typed), ran)
    PROVE  IsPrefix(UpToScripts(typed), Append(ran, section))
  <1> DEFINE u == UpToScripts(typed)
  <1>1. ran \in Seq(AnySection) /\ Append(ran, section) \in Seq(AnySection)
    BY DEF TypeInv
  <1>2. Len(u) <= Len(ran) /\ SubSeq(u, 1, Len(u)) = SubSeq(ran, 1, Len(u))
    BY DEF IsPrefix
  <1> QED
    BY <1>1, <1>2 DEF IsPrefix

--------------------------------------------------------------------------------
(***************************************************************************)
(* The copies in the backing store.                                        *)
(***************************************************************************)

LEMMA CopyNameLemma ==
    ASSUME NEW m \in Name, NEW i \in Nat
    PROVE  /\ CopyName(m, i).stem = m.stem
           /\ CopyName(m, i).as = m.as + i
           /\ m.as \in Nat
  BY DEF CopyName, Name

\* Two copies have the same name when their scripts have the same stem and differ
\* in letters by as many as they stand apart.
LEMMA SameCopyLemma ==
    ASSUME NEW scripts \in Seq(Name), NEW count \in Nat,
           NEW k \in 1 .. Len(scripts), NEW l \in 1 .. Len(scripts),
           CopyNames(scripts, count)[k] = CopyNames(scripts, count)[l]
    PROVE  scripts[l].stem = scripts[k].stem /\ scripts[l].as - scripts[k].as = k - l
  <1> DEFINE i == count + k - 1
             j == count + l - 1
  <1>1. i \in Nat /\ j \in Nat /\ i - j = k - l
    OBVIOUS
  <1>2. CopyName(scripts[k], i) = CopyName(scripts[l], j)
    BY DEF CopyNames
  <1> HIDE DEF i, j
  <1>3. /\ scripts[l].stem = scripts[k].stem
        /\ scripts[l].as + j = scripts[k].as + i
        /\ scripts[l].as \in Nat /\ scripts[k].as \in Nat
    <2>1. scripts[k] \in Name /\ scripts[l] \in Name
      OBVIOUS
    <2>2. /\ CopyName(scripts[k], i).stem = scripts[k].stem
          /\ CopyName(scripts[k], i).as = scripts[k].as + i
          /\ scripts[k].as \in Nat
      BY <1>1, <2>1, CopyNameLemma
    <2>3. /\ CopyName(scripts[l], j).stem = scripts[l].stem
          /\ CopyName(scripts[l], j).as = scripts[l].as + j
          /\ scripts[l].as \in Nat
      BY <1>1, <2>1, CopyNameLemma
    <2> QED
      BY <1>2, <2>2, <2>3
  <1>4. scripts[l].as - scripts[k].as = i - j
    BY <1>1, <1>3
  <1> QED
    BY <1>1, <1>3, <1>4

\* The copy a process opens is that of its own script or of one whose copy has the
\* same name.
LEMMA CopiesLemma ==
    ASSUME NEW scripts \in Seq(Name), NEW count \in Nat, NEW k \in DOMAIN scripts,
           CopyNames(scripts, count)[k] \in DOMAIN Copies(scripts, count)
    PROVE  \E l \in DOMAIN scripts :
              /\ scripts[l] \in DOMAIN Text
              /\ scripts[l].stem = scripts[k].stem
              /\ scripts[l].as - scripts[k].as = k - l
              /\ Copies(scripts, count)[CopyNames(scripts, count)[k]] = Text[scripts[l]]
  <1> DEFINE names == CopyNames(scripts, count)
             copied == {j \in DOMAIN scripts : scripts[j] \in DOMAIN Text}
             same == {j \in copied : names[j] = names[k]}
             Last_(c, j) == j \in copied /\ names[j] = c /\ \A i \in copied : names[i] = c => i <= j
  <1>1. Len(scripts) \in Nat /\ DOMAIN scripts = 1 .. Len(scripts)
    OBVIOUS
  <1>2. names[k] \in {names[j] : j \in copied}
    BY DEF Copies
  <1>3. same # {} /\ same \in SUBSET Nat /\ \A j \in same : j <= Len(scripts)
    BY <1>1, <1>2
  <1>4. PICK l \in same : \A j \in same : j <= l
    BY <1>1, <1>3, GreatestElement
  <1>5. Last_(names[k], l)
    BY <1>4
  <1>6. \A j \in copied : Last_(names[k], j) => j = l
    <2> SUFFICES ASSUME NEW j \in copied, Last_(names[k], j) PROVE j = l
      OBVIOUS
    <2>1. j <= l /\ l <= j
      BY <1>5
    <2> QED
      BY <1>1, <2>1
  <1>7. (CHOOSE j \in copied : names[j] = names[k] /\ \A i \in copied : names[i] = names[k] => i <= j)
           = l
    BY <1>5, <1>6
  <1>8. Copies(scripts, count)[names[k]] = Text[scripts[l]]
    BY <1>2, <1>7 DEF Copies
  <1>9. scripts[l].stem = scripts[k].stem /\ scripts[l].as - scripts[k].as = k - l
    BY <1>1, <1>5, SameCopyLemma
  <1> QED
    BY <1>8, <1>9

--------------------------------------------------------------------------------
(***************************************************************************)
(* The steps.                                                              *)
(***************************************************************************)

LEMMA NoSectionLemma == NoSection \in AnySection
  <1>1. <<>> \in Seq(Name)
    OBVIOUS
  <1> QED
    BY <1>1 DEF NoSection, Section, AnySection

LEMMA InitIInv == Init => IInv
  <1> SUFFICES ASSUME Init PROVE IInv
    OBVIOUS
  <1>1. TypeInv
    BY NoSectionLemma DEF Init, TypeInv
  <1>2. SectionsUpToScripts
    <2>1. ran = UpToScripts(typed)
      BY DEF Init, UpToScripts
    <2> QED
      BY <2>1 DEF SectionsUpToScripts, IsPrefix, Init
  <1> QED
    BY <1>1, <1>2 DEF Init, IInv, StoreInv, SectionsInv, OwnScripts

LEMMA TypeStep ==
    ASSUME IInv, NEW line \in Line, Type(line)
    PROVE  IInv'
  <1>1. line \in Seq(AnySection) /\ line # <<>>
    BY CommandLineAssumption
  <1>2. TypeInv'
    BY <1>1, HeadTailProperties DEF Type, IInv, TypeInv
  <1>3. StoreInv' /\ OwnScripts'
    BY DEF Type, IInv, StoreInv, OwnScripts
  <1>4. SectionsInv'
    BY <1>1, TailIsSubSeq DEF Type, IInv, SectionsInv, Plainly, CursorBehind
  <1> QED
    BY <1>2, <1>3, <1>4 DEF IInv

\* parseInput moves on in a line of which only plain sections were interpreted, or
\* a script having quit.
LEMMA MovedLemma ==
    ASSUME TypeInv, TypeInv', Moved, UNCHANGED <<typed, quits>>, jobs' = <<>>,
           \/ quits = 0 /\ Plainly(Len(ran))' /\ CursorBehind(Len(ran'))
           \/ quits = 0 /\ cursor = <<>> /\ ran' = UpToScripts(typed)
           \/ quits # 0 /\ IsPrefix(UpToScripts(typed), ran')
    PROVE  SectionsInv'
  <1>1. typed \in Seq(AnySection) /\ ran' \in Seq(AnySection) /\ quits \in Nat
    BY TypedLemma DEF TypeInv
  <1>2. ran' = UpToScripts(typed) => IsPrefix(UpToScripts(typed), ran')
    BY <1>1 DEF IsPrefix
  <1>3. mode' = IF cursor = <<>> THEN "prompt" ELSE "parse"
    BY DEF Moved
  <1>4. CASE quits = 0 /\ cursor = <<>> /\ ran' = UpToScripts(typed)
    BY <1>2, <1>3, <1>4 DEF SectionsInv, SectionsUpToScripts, UpToScripts
  <1>5. CASE quits # 0 /\ IsPrefix(UpToScripts(typed), ran')
    BY <1>3, <1>5 DEF SectionsInv, SectionsUpToScripts, UpToScripts
  <1>6. CASE quits = 0 /\ Plainly(Len(ran))' /\ CursorBehind(Len(ran'))
    <2> DEFINE n == Len(ran')
    <2>1. n \in 0 .. Len(typed)
      BY <1>1, <1>6 DEF Plainly
    <2>2. CASE cursor = <<>>
      <3>1. n = Len(typed)
        BY <1>6, <2>1, <2>2, NextSectionLemma
      <3>2. \A i \in 1 .. Len(typed) : ran'[i] = typed[i] /\ ~RunsScripts(typed[i])
        BY <1>6, <3>1 DEF Plainly, RunsScripts
      <3>3. ran' = UpToScripts(typed)
        BY <1>1, <3>1, <3>2, PlainlyLemma
      <3> QED
        BY <1>4, <1>6, <2>2, <3>3
    <2>3. CASE cursor # <<>>
      <3>1. n < Len(typed) /\ token' = typed[n + 1] /\ cursor' = SubSeq(typed, n + 2, Len(typed))
        BY <1>1, <1>6, <2>1, <2>3, NextSectionLemma DEF Moved
      <3>2. CursorBehind(Len(ran) + 1)'
        BY <1>1, <3>1 DEF CursorBehind
      <3> QED
        BY <1>1, <1>3, <1>6, <2>3, <3>1, <3>2 DEF SectionsInv
    <2> QED
      BY <2>2, <2>3
  <1> QED
    BY <1>4, <1>5, <1>6

\* Types after parseInput has moved on.
LEMMA MovedTypes ==
    ASSUME TypeInv, Moved
    PROVE  /\ mode' \in {"prompt", "parse"}
           /\ token' \in AnySection
           /\ cursor' \in Seq(AnySection)
  <1>1. cursor # <<>> => Head(cursor) \in AnySection /\ Tail(cursor) \in Seq(AnySection)
    BY HeadTailProperties DEF TypeInv
  <1> QED
    BY <1>1, NoSectionLemma DEF Moved, Skipped, TypeInv

LEMMA InterpretStep ==
    ASSUME IInv, Interpret
    PROVE  IInv'
  <1>1. TypeInv /\ StoreInv /\ SectionsInv /\ OwnScripts
    BY DEF IInv
  <1>2. ran' \in Seq(AnySection) /\ Len(ran') = Len(ran) + 1
    BY <1>1 DEF TypeInv, Interpret
  <1>3. OwnScripts'
    BY <1>1 DEF Interpret, OwnScripts
  <1>4. CASE token.op = "quit"
    <2>1. mode' = "exited" /\ token' = NoSection /\ cursor' = Skipped(cursor)
      BY <1>4, StopsLemma DEF Interpret, Ret
    <2>2. cursor' \in Seq(AnySection)
      BY <1>1, <2>1, HeadTailProperties DEF TypeInv, Skipped
    <2>3. TypeInv'
      BY <1>1, <1>2, <2>1, <2>2, NoSectionLemma DEF TypeInv, Interpret
    <2> QED
      BY <1>3, <2>1, <2>3 DEF IInv, StoreInv, SectionsInv
  <1>5. CASE token.op # "quit"
    <2>1. Moved /\ store' = store
      BY <1>5, StopsLemma DEF Interpret
    <2>2. TypeInv'
      BY <1>1, <1>2, <2>1, MovedTypes DEF TypeInv, Interpret
    <2>3. StoreInv'
      BY <1>1, <2>1 DEF StoreInv, Interpret
    <2>4. jobs' = <<>> /\ UNCHANGED <<typed, quits>>
      BY <1>1 DEF Interpret, SectionsInv
    <2>5. quits = 0 => Plainly(Len(ran))' /\ CursorBehind(Len(ran'))
      <3> SUFFICES ASSUME quits = 0
                   PROVE  Plainly(Len(ran))' /\ CursorBehind(Len(ran'))
        OBVIOUS
      <3>1. /\ Len(ran) < Len(typed)
            /\ token = typed[Len(ran) + 1]
            /\ Plainly(Len(ran))
            /\ CursorBehind(Len(ran) + 1)
        BY <1>1 DEF Interpret, SectionsInv
      <3>2. ~RunsScripts(token)
        BY DEF Interpret, RunsScripts
      <3>3. \A i \in 1 .. Len(ran') : ran'[i] = typed[i] /\ ~RunsScripts(typed[i])
        BY <1>1, <1>2, <3>1, <3>2, AppendProperties DEF TypeInv, Plainly, Interpret
      <3>4. Plainly(Len(ran))'
        BY <1>1, <1>2, <2>4, <3>1, <3>3, TypedLemma DEF Plainly, TypeInv, RunsScripts
      <3> QED
        BY <1>2, <3>1, <3>4
    <2>6. quits # 0 => IsPrefix(UpToScripts(typed), ran')
      BY <1>1, PrefixLemma DEF Interpret, SectionsInv, TypeInv
    <2>7. SectionsInv'
      BY <1>1, <2>1, <2>2, <2>4, <2>5, <2>6, MovedLemma
    <2> QED
      BY <1>3, <2>2, <2>3, <2>7 DEF IInv
  <1> QED
    BY <1>4, <1>5

LEMMA ExecCommandStep ==
    ASSUME IInv, ExecCommand
    PROVE  IInv'
  <1> DEFINE names == CopyNames(token.scripts, new_name_count)
             files == Copies(token.scripts, new_name_count)
             opened == [k \in DOMAIN names |->
                           [script |-> token.scripts[k], text |-> files[names[k]], line |-> 1]]
  <1>1. TypeInv /\ StoreInv /\ SectionsInv /\ OwnScripts /\ mode = "parse" /\ jobs = <<>>
    BY DEF IInv, SectionsInv, ExecCommand
  <1>2. token.scripts \in Seq(Name) /\ token \in AnySection
    BY <1>1 DEF TypeInv, AnySection
  <1>3. ran' \in Seq(AnySection) /\ Len(ran') = Len(ran) + 1 /\ ran' = Append(ran, token)
    BY <1>1 DEF TypeInv, ExecCommand
  <1>4. \/ TooMany(token.scripts) /\ mode' = "exec" /\ jobs' = <<>>
        \/ mode' = "exited" /\ jobs' = <<>>
        \/ /\ ~TooMany(token.scripts)
           /\ {names[k] : k \in DOMAIN names} \subseteq DOMAIN files
           /\ mode' = "exec" /\ jobs' = opened
    BY <1>1 DEF ExecCommand
  <1>5. DOMAIN names = 1 .. Len(token.scripts) /\ DOMAIN token.scripts = 1 .. Len(token.scripts)
    BY <1>2 DEF CopyNames
  <1>6. ASSUME {names[k] : k \in DOMAIN names} \subseteq DOMAIN files, NEW k \in DOMAIN names
        PROVE  \E l \in DOMAIN names :
                  /\ token.scripts[l] \in DOMAIN Text
                  /\ token.scripts[l].stem = token.scripts[k].stem
                  /\ token.scripts[l].as - token.scripts[k].as = k - l
                  /\ files[names[k]] = Text[token.scripts[l]]
    <2>1. names[k] \in DOMAIN files /\ k \in DOMAIN token.scripts /\ new_name_count \in Nat
      BY <1>1, <1>5, <1>6 DEF TypeInv
    <2>2. CopyNames(token.scripts, new_name_count)[k] \in DOMAIN Copies(token.scripts, new_name_count)
      BY <2>1
    <2> HIDE DEF names, files
    <2>3. \E l \in DOMAIN token.scripts :
              /\ token.scripts[l] \in DOMAIN Text
              /\ token.scripts[l].stem = token.scripts[k].stem
              /\ token.scripts[l].as - token.scripts[k].as = k - l
              /\ Copies(token.scripts, new_name_count)[CopyNames(token.scripts, new_name_count)[k]]
                    = Text[token.scripts[l]]
      BY <1>2, <2>1, <2>2, CopiesLemma
    <2> QED
      BY <1>5, <2>3 DEF names, files
  <1> HIDE DEF names, files
  <1>7. ASSUME {names[k] : k \in DOMAIN names} \subseteq DOMAIN files
        PROVE  opened \in Seq(Job)
    <2>1. \A k \in DOMAIN names : files[names[k]] \in Seq(Seq(AnySection)) \ {<<>>}
      BY <1>6, <1>7, CommandLineAssumption
    <2>2. \A k \in DOMAIN names : token.scripts[k] \in Name
      BY <1>2, <1>5
    <2>3. \A k \in DOMAIN names : opened[k] \in Job
      BY <2>1, <2>2 DEF Job
    <2>4. Len(token.scripts) \in Nat /\ opened = [k \in 1 .. Len(token.scripts) |-> opened[k]]
      BY <1>2, <1>5
    <2> HIDE DEF opened
    <2>5. \A k \in 1 .. Len(token.scripts) : opened[k] \in Job
      BY <1>5, <2>3
    <2>6. [k \in 1 .. Len(token.scripts) |-> opened[k]] \in Seq(Job)
      BY <2>4, <2>5, IsASeq
    <2> QED
      BY <2>4, <2>6
  <1>8. TypeInv'
    <2>1. jobs' \in Seq(Job)
      <3>1. <<>> \in Seq(Job)
        OBVIOUS
      <3> HIDE DEF opened
      <3> QED
        BY <1>4, <1>7, <3>1
    <2>2. new_name_count' \in Nat
      BY <1>1, <1>2 DEF TypeInv, ExecCommand
    <2> QED
      BY <1>1, <1>3, <1>4, <2>1, <2>2 DEF TypeInv, ExecCommand
  <1>9. OwnScripts'
    <2>1. CASE jobs' = <<>>
      BY <2>1 DEF OwnScripts
    <2>2. CASE jobs' = opened /\ {names[k] : k \in DOMAIN names} \subseteq DOMAIN files
      <3> SUFFICES ASSUME NEW k \in DOMAIN jobs'
                   PROVE  \/ /\ jobs'[k].script \in DOMAIN Text
                             /\ jobs'[k].text = Text[jobs'[k].script]
                          \/ \E l \in DOMAIN jobs' \ {k} :
                                /\ jobs'[l].script.stem = jobs'[k].script.stem
                                /\ jobs'[l].script.as - jobs'[k].script.as = k - l
                                /\ jobs'[k].text = Text[jobs'[l].script]
        BY DEF OwnScripts
      <3>1. DOMAIN jobs' = DOMAIN names
        BY <2>2
      <3>2. PICK l \in DOMAIN names :
                  /\ token.scripts[l] \in DOMAIN Text
                  /\ token.scripts[l].stem = token.scripts[k].stem
                  /\ token.scripts[l].as - token.scripts[k].as = k - l
                  /\ files[names[k]] = Text[token.scripts[l]]
        BY <1>6, <2>2, <3>1
      <3>3. /\ jobs'[l].script = token.scripts[l]
            /\ jobs'[k].script = token.scripts[k]
            /\ jobs'[k].text = files[names[k]]
        BY <2>2, <3>1
      <3>4. CASE l = k
        BY <3>2, <3>3, <3>4
      <3>5. CASE l # k
        BY <3>1, <3>2, <3>3, <3>5
      <3> QED
        BY <3>4, <3>5
    <2> QED
      BY <1>4, <2>1, <2>2
  <1>10. SectionsInv'
    <2>1. typed' = typed /\ cursor' = cursor /\ quits' = quits /\ token.op = "exec"
      BY DEF ExecCommand
    <2>2. CASE quits = 0 /\ mode' = "exec"
      <3>1. /\ Len(ran) < Len(typed)
            /\ token = typed[Len(ran) + 1]
            /\ Plainly(Len(ran))
            /\ CursorBehind(Len(ran) + 1)
        BY <1>1, <2>2 DEF SectionsInv
      <3>2. CASE TooMany(token.scripts) /\ jobs' = <<>>
        <4>1. ~RunsScripts(token)
          BY <1>2, <3>2 DEF TooMany, RunsScripts
        <4>2. \A i \in 1 .. Len(ran') : ran'[i] = typed[i] /\ ~RunsScripts(typed[i])
          BY <1>1, <1>2, <1>3, <3>1, <4>1, AppendProperties DEF TypeInv, Plainly
        <4>3. Plainly(Len(ran))'
          BY <1>1, <1>3, <2>1, <3>1, <4>2, TypedLemma DEF Plainly, TypeInv, RunsScripts
        <4>4. CursorBehind(Len(ran))'
          BY <1>3, <2>1, <3>1 DEF CursorBehind
        <4> QED
          BY <2>1, <2>2, <3>2, <4>3, <4>4 DEF SectionsInv
      <3>3. CASE ~TooMany(token.scripts) /\ jobs' = opened
        <4>1. RunsScripts(token)
          BY <1>2, <2>1, <3>3 DEF TooMany, RunsScripts
        <4>2. ran' = UpToScripts(typed)
          BY <1>1, <1>3, <3>1, <4>1, FirstRunLemma
        <4>3. Len(token.scripts) # 0
          <5>1. token # Exec(<<>>)
            BY <1>1, <3>1, TypedLemma DEF TypeInv
          <5>2. token = [op |-> token.op, scripts |-> token.scripts]
            BY <1>2 DEF AnySection
          <5> QED
            BY <1>2, <2>1, <5>1, <5>2 DEF Exec, Section
        <4>4. jobs' # <<>> /\ \A k \in DOMAIN jobs' : jobs'[k].line = 1
          BY <1>2, <1>5, <3>3, <4>3
        <4>5. ran' = UpToScripts(typed)'
          BY <2>1, <4>2 DEF UpToScripts, RunsScripts
        <4> QED
          BY <2>1, <2>2, <4>4, <4>5 DEF SectionsInv
      <3> QED
        BY <1>4, <2>2, <3>2, <3>3
    <2>3. CASE quits # 0 /\ mode' = "exec"
      <3>1. IsPrefix(UpToScripts(typed), ran')
        BY <1>1, <1>2, <1>3, <2>3, PrefixLemma DEF SectionsInv
      <3> QED
        BY <2>1, <2>3, <3>1 DEF SectionsInv, UpToScripts, RunsScripts
    <2>4. CASE mode' = "exited"
      BY <2>4 DEF SectionsInv
    <2> QED
      BY <1>4, <2>2, <2>3, <2>4
  <1>11. StoreInv'
    BY <1>4 DEF StoreInv
  <1> QED
    BY <1>8, <1>9, <1>10, <1>11 DEF IInv

\* A line without a quit is interpreted to its end, and strtok has nothing left.
LEMMA LeftoverLemma ==
    ASSUME NEW line \in Seq(AnySection)
    PROVE  /\ Leftover(line) \in Seq(AnySection)
           /\ ~(\E i \in DOMAIN Interpreted(line) : Interpreted(line)[i].op = "quit")
                 => Leftover(line) = <<>>
  <1> DEFINE stopping == {i \in DOMAIN line : Stops(Ret(line[i]))}
             first == CHOOSE i \in stopping : \A j \in stopping : i <= j
  <1>1. stopping \in SUBSET Nat
    OBVIOUS
  <1>2. CASE stopping = {}
    <2>1. Interpreted(line) = line
      BY <1>2 DEF Interpreted
    <2>2. Leftover(line) = <<>>
      BY <2>1, SubSeqEmpty DEF Leftover
    <2> QED
      BY <2>2
  <1>3. CASE stopping # {}
    <2>1. first \in stopping
      BY <1>1, <1>3, LeastElement
    <2>2. Interpreted(line) = SubSeq(line, 1, first)
      BY <1>3 DEF Interpreted
    <2> HIDE DEF first
    <2>3. first \in 1 .. Len(line) /\ line[first].op = "quit"
      BY <2>1, StopsLemma
    <2>4. /\ Len(Interpreted(line)) = first
          /\ first \in DOMAIN Interpreted(line)
          /\ Interpreted(line)[first] = line[first]
      BY <2>2, <2>3
    <2>5. \A i \in first + 2 .. Len(line) : line[i] \in AnySection
      BY <2>3
    <2>6. Leftover(line) \in Seq(AnySection)
      BY <2>3, <2>4, <2>5, SubSeqProperties DEF Leftover
    <2> QED
      BY <2>3, <2>4, <2>6
  <1> QED
    BY <1>2, <1>3

LEMMA AdvancedLemma ==
    ASSUME NEW job \in Job
    PROVE  /\ Advanced(job) \in Job
           /\ Advanced(job).script = job.script
           /\ Advanced(job).text = job.text
           /\ Advanced(job).line > 1
  <1>1. job.line \in Nat \ {0}
    BY DEF Job
  <1>2. job.line + 1 \in Nat \ {0} /\ job.line + 1 > 1
    BY <1>1
  <1>3. \A n \in Nat \ {0} : [job EXCEPT !.line = n] \in Job
    BY DEF Job
  <1> QED
    BY <1>2, <1>3 DEF Advanced, Job

LEMMA RunLineStep ==
    ASSUME IInv, NEW k \in 1 .. 3, RunLine(k)
    PROVE  IInv'
  <1> DEFINE line == jobs[k].text[jobs[k].line]
             quit == \E i \in DOMAIN Interpreted(line) : Interpreted(line)[i].op = "quit"
  <1>1. TypeInv /\ SectionsInv /\ OwnScripts /\ mode = "exec"
    BY DEF IInv, RunLine
  <1>2. k \in DOMAIN jobs /\ jobs[k] \in Job /\ k \in 1 .. Len(jobs)
    BY <1>1 DEF RunLine, TypeInv
  <1>3. line \in Seq(AnySection)
    <2>1. /\ jobs[k].text \in Seq(Seq(AnySection))
          /\ jobs[k].line \in Nat \ {0}
      BY <1>2 DEF Job
    <2>2. jobs[k].line <= Len(jobs[k].text)
      BY <2>1 DEF RunLine, Done
    <2> QED
      BY <2>1, <2>2
  <1>4. /\ mode' = mode /\ typed' = typed /\ token' = token /\ ran' = ran
        /\ new_name_count' = new_name_count
        /\ cursor' = Leftover(line)
        /\ quits' = quits + (IF quit THEN 1 ELSE 0)
        /\ jobs' = [jobs EXCEPT ![k] = Advanced(@)]
    BY DEF RunLine
  <1>5. /\ Advanced(jobs[k]) \in Job
        /\ Advanced(jobs[k]).script = jobs[k].script
        /\ Advanced(jobs[k]).text = jobs[k].text
        /\ Advanced(jobs[k]).line > 1
    BY <1>2, AdvancedLemma
  <1>6. /\ cursor' \in Seq(AnySection)
        /\ ~quit => cursor' = <<>>
    BY <1>3, <1>4, LeftoverLemma
  <1> HIDE DEF line, quit
  <1>7. /\ jobs' \in Seq(Job)
        /\ DOMAIN jobs' = DOMAIN jobs
        /\ jobs'[k] = Advanced(jobs[k])
        /\ \A l \in DOMAIN jobs : l # k => jobs'[l] = jobs[l]
    BY <1>1, <1>2, <1>4, <1>5, ExceptSeq DEF TypeInv
  <1>8. TypeInv'
    BY <1>1, <1>4, <1>6, <1>7 DEF TypeInv
  <1>9. OwnScripts'
    <2>1. \A l \in DOMAIN jobs : jobs'[l].script = jobs[l].script /\ jobs'[l].text = jobs[l].text
      BY <1>5, <1>7
    <2> SUFFICES ASSUME NEW m \in DOMAIN jobs
                 PROVE  \/ /\ jobs'[m].script \in DOMAIN Text
                           /\ jobs'[m].text = Text[jobs'[m].script]
                        \/ \E l \in DOMAIN jobs \ {m} :
                              /\ jobs'[l].script.stem = jobs'[m].script.stem
                              /\ jobs'[l].script.as - jobs'[m].script.as = m - l
                              /\ jobs'[m].text = Text[jobs'[l].script]
      BY <1>7 DEF OwnScripts
    <2>2. CASE jobs[m].script \in DOMAIN Text /\ jobs[m].text = Text[jobs[m].script]
      BY <2>1, <2>2
    <2>3. ASSUME NEW l \in DOMAIN jobs \ {m},
                 /\ jobs[l].script.stem = jobs[m].script.stem
                 /\ jobs[l].script.as - jobs[m].script.as = m - l
                 /\ jobs[m].text = Text[jobs[l].script]
          PROVE  /\ jobs'[l].script.stem = jobs'[m].script.stem
                 /\ jobs'[l].script.as - jobs'[m].script.as = m - l
                 /\ jobs'[m].text = Text[jobs'[l].script]
      BY <2>1, <2>3
    <2> QED
      BY <1>1, <2>2, <2>3 DEF OwnScripts
  <1>10. SectionsInv'
    <2>1. UpToScripts(typed)' = UpToScripts(typed)
      BY <1>4 DEF UpToScripts, RunsScripts
    <2>2. quits \in Nat /\ ran \in Seq(AnySection)
      BY <1>1 DEF TypeInv
    <2>3. CASE quits = 0
      <3>1. ran = UpToScripts(typed)
        BY <1>1, <1>2, <2>3 DEF SectionsInv
      <3>2. CASE quit
        <4>1. IsPrefix(UpToScripts(typed), ran)
          BY <2>2, <3>1 DEF IsPrefix
        <4> QED
          BY <1>1, <1>4, <2>1, <2>3, <3>2, <4>1 DEF SectionsInv
      <3>3. CASE ~quit
        BY <1>1, <1>2, <1>4, <1>6, <1>7, <2>1, <2>3, <3>1, <3>3 DEF SectionsInv
      <3> QED
        BY <3>2, <3>3
    <2>4. CASE quits # 0
      <3>1. quits' # 0 /\ IsPrefix(UpToScripts(typed), ran)
        BY <1>1, <1>4, <2>2, <2>4 DEF SectionsInv
      <3> QED
        BY <1>1, <1>4, <2>1, <3>1 DEF SectionsInv
    <2> QED
      BY <2>3, <2>4
  <1> QED
    BY <1>1, <1>4, <1>8, <1>9, <1>10 DEF IInv, StoreInv

LEMMA CrashStep ==
    ASSUME IInv, Crash
    PROVE  IInv'
  BY DEF Crash, IInv, TypeInv, StoreInv, SectionsInv, OwnScripts

LEMMA ExecEndsStep ==
    ASSUME IInv, ExecEnds
    PROVE  IInv'
  <1>1. TypeInv /\ SectionsInv /\ mode = "exec" /\ Moved /\ jobs' = <<>>
    BY DEF IInv, ExecEnds
  <1>2. UNCHANGED <<typed, quits, ran, new_name_count>> /\ store' = EmptyStore
    BY DEF ExecEnds, Renewed
  <1>3. TypeInv'
    BY <1>1, <1>2, MovedTypes DEF TypeInv
  <1>4. StoreInv' /\ OwnScripts'
    BY <1>1, <1>2 DEF StoreInv, OwnScripts
  <1>5. CASE quits # 0
    BY <1>1, <1>2, <1>3, <1>4, <1>5, MovedLemma DEF IInv, SectionsInv
  <1>6. CASE quits = 0 /\ jobs = <<>>
    <2>1. Plainly(Len(ran)) /\ CursorBehind(Len(ran))
      BY <1>1, <1>6 DEF SectionsInv
    <2>2. Plainly(Len(ran))' /\ CursorBehind(Len(ran'))
      BY <1>2, <2>1 DEF Plainly, RunsScripts
    <2> QED
      BY <1>1, <1>2, <1>3, <1>4, <1>6, <2>2, MovedLemma DEF IInv
  <1>7. CASE quits = 0 /\ jobs # <<>>
    <2>1. 1 \in DOMAIN jobs /\ jobs[1] \in Job
      BY <1>1, <1>7 DEF TypeInv
    <2>2. jobs[1].line > Len(jobs[1].text)
      BY <2>1 DEF ExecEnds, Done
    <2>3. jobs[1].line > 1
      BY <2>1, <2>2 DEF Job
    <2>4. ran = UpToScripts(typed) /\ cursor = <<>>
      BY <1>1, <1>7, <2>1, <2>3 DEF SectionsInv
    <2> QED
      BY <1>1, <1>2, <1>3, <1>4, <1>7, <2>4, MovedLemma DEF IInv
  <1> QED
    BY <1>5, <1>6, <1>7

LEMMA NextIInv == IInv /\ [Next]_vars => IInv'
  <1> SUFFICES ASSUME IInv, [Next]_vars PROVE IInv'
    OBVIOUS
  <1>1. CASE UNCHANGED vars
    BY <1>1 DEF vars, IInv, TypeInv, StoreInv, SectionsInv, OwnScripts, Plainly, CursorBehind,
                SectionsUpToScripts, UpToScripts, RunsScripts
  <1> QED
    BY <1>1, TypeStep, InterpretStep, ExecCommandStep, RunLineStep, CrashStep, ExecEndsStep
       DEF Next, Shell

\* The command line keeps to its plan: what has been interpreted, what is to come,
\* whose scripts run and what the backing store holds.
THEOREM CommandLineInvariant == Spec => []IInv
  BY InitIInv, NextIInv, PTL DEF Spec

\* Whenever the prompt is up the backing store is there and empty, also after a
\* script has removed it with quit.
THEOREM PromptStoreReady == Spec => []StoreReady
  <1>1. IInv => StoreReady
    BY DEF IInv, StoreInv, StoreReady
  <1> QED
    BY <1>1, CommandLineInvariant, PTL

\* Every script run by exec has its own text, or that of one whose copy got the
\* same name: for all names, however many letters are appended.
THEOREM ExecOwnScripts == Spec => []OwnScripts
  <1>1. IInv => OwnScripts
    BY DEF IInv
  <1> QED
    BY <1>1, CommandLineInvariant, PTL

\* The beginning of a line is a prefix of it.
LEMMA UpToScriptsLemma ==
    ASSUME NEW line \in Seq(AnySection)
    PROVE  IsPrefix(UpToScripts(line), line)
  <1> DEFINE running == {i \in DOMAIN line : RunsScripts(line[i])}
  <1>1. CASE running = {}
    BY <1>1 DEF UpToScripts, IsPrefix
  <1>2. CASE running # {}
    <2>1. running \subseteq Nat
      OBVIOUS
    <2>2. PICK n \in running : \A j \in running : n <= j
      BY <1>2, <2>1, LeastElement
    <2>3. \A i \in running : (\A j \in running : i <= j) => i = n
      BY <2>1, <2>2
    <2>4. (CHOOSE i \in running : \A j \in running : i <= j) = n
      BY <2>2, <2>3
    <2>5. UpToScripts(line) = SubSeq(line, 1, n)
      BY <1>2, <2>4 DEF UpToScripts
    <2> QED
      BY <2>2, <2>5 DEF IsPrefix
  <1> QED
    BY <1>1, <1>2

\* For all lines and all scripts, although the place strtok keeps is moved by the
\* scripts: at the prompt only sections of the line have been interpreted, in order
\* and once, unless a script quit, and all up to the first that runs scripts have.
THEOREM LineSectionsInOrder == Spec => []SectionsInOrder
  <1>1. IInv => SectionsInOrder
    <2> SUFFICES ASSUME IInv, mode = "prompt"
                 PROVE  /\ IsPrefix(UpToScripts(typed), ran)
                        /\ quits = 0 => IsPrefix(ran, typed)
      BY DEF SectionsInOrder
    <2>1. SectionsUpToScripts
      BY DEF IInv, SectionsInv
    <2>2. typed \in Seq(AnySection)
      BY TypedLemma DEF IInv
    <2>3. IsPrefix(UpToScripts(typed), typed)
      BY <2>2, UpToScriptsLemma
    <2>4. quits = 0 => IsPrefix(ran, typed)
      BY <2>1, <2>3 DEF SectionsUpToScripts
    <2> QED
      BY <2>1, <2>4 DEF SectionsUpToScripts
  <1> QED
    BY <1>1, CommandLineInvariant, PTL

================================================================================
