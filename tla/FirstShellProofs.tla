---------------------------- MODULE FirstShellProofs ---------------------------
(***************************************************************************)
(* Proofs about FirstShell for every size of the memory, all scripts and   *)
(* all lines: the variables are what was last given to them.               *)
(***************************************************************************)
EXTENDS FirstShell, WellFoundedInduction, TLAPS

\* A set of natural numbers that is not empty has a least element.
LEMMA LeastElement ==
    ASSUME NEW S \in SUBSET Nat, S # {}
    PROVE  \E i \in S : \A j \in S : i <= j
  <1>1. IsWellFoundedOn(OpToRel(<, Nat), Nat)
    BY NatLessThanWellFounded
  <1>2. PICK i \in S : \A j \in S : ~(<<j, i>> \in OpToRel(<, Nat))
    BY <1>1, WFMin
  <1>3. \A j \in S : ~(j < i)
    <2> SUFFICES ASSUME NEW j \in S, j < i PROVE FALSE
      OBVIOUS
    <2>1. <<j, i>> \in OpToRel(<, Nat)
      BY DEF OpToRel
    <2> QED
      BY <1>2, <2>1
  <1> QED
    BY <1>3

--------------------------------------------------------------------------------

\* The memory is an array of entries.
MemType == shellmemory = [i \in 1 .. MemSize |-> [var |-> shellmemory[i].var,
                                                  value |-> shellmemory[i].value]]

\* No variable has two entries.
OneEntryEach ==
    \A i, j \in DOMAIN shellmemory :
        shellmemory[i].var = shellmemory[j].var /\ shellmemory[i].var # "none" => i = j

\* An entry holds what was last given to its variable.
EntriesCurrent ==
    \A i \in DOMAIN shellmemory :
        shellmemory[i].var # "none" =>
            /\ shellmemory[i].var \in DOMAIN written
            /\ shellmemory[i].value = written[shellmemory[i].var]

\* A variable that was given a value has an entry as long as one is free.
EntriesGiven ==
    \A v \in DOMAIN written \ {"none"} :
        EntriesOf(shellmemory, v) = {} => EntriesOf(shellmemory, "none") = {}

IInv == MemType /\ OneEntryEach /\ EntriesCurrent /\ EntriesGiven

--------------------------------------------------------------------------------
\* The search from the first entry on finds one of the entries.
LEMMA FirstLemma ==
    ASSUME NEW S \in SUBSET Nat, S # {}
    PROVE  First(S) \in S
  BY LeastElement DEF First

LEMMA EntriesLemma ==
    ASSUME MemType, NEW v
    PROVE  /\ DOMAIN shellmemory = 1 .. MemSize
           /\ EntriesOf(shellmemory, v) \in SUBSET Nat
           /\ \A i : i \in EntriesOf(shellmemory, v) <=> i \in 1 .. MemSize /\ shellmemory[i].var = v
           /\ EntriesOf(shellmemory, v) # {} =>
                 First(EntriesOf(shellmemory, v)) \in EntriesOf(shellmemory, v)
  <1>1. DOMAIN shellmemory = 1 .. MemSize
    BY DEF MemType
  <1>2. MemSize \in Nat
    BY FirstShellAssumption
  <1>3. EntriesOf(shellmemory, v) \in SUBSET Nat
    BY <1>1, <1>2 DEF EntriesOf
  <1> QED
    BY <1>1, <1>3, FirstLemma DEF EntriesOf

\* mem_set_value gives one entry to the variable, its own or else a free one, and
\* leaves the others alone; it changes nothing only when there is neither.
LEMMA SetValueLemma ==
    ASSUME MemType, NEW v, NEW x,
           NEW m, m = mem_set_value(shellmemory, v, x)
    PROVE  \/ \E k \in 1 .. MemSize :
                 /\ \/ shellmemory[k].var = v
                    \/ shellmemory[k].var = "none" /\ EntriesOf(shellmemory, v) = {}
                 /\ m = [i \in 1 .. MemSize |-> IF i = k THEN [var |-> v, value |-> x]
                                                ELSE shellmemory[i]]
           \/ /\ EntriesOf(shellmemory, v) = {}
              /\ EntriesOf(shellmemory, "none") = {}
              /\ m = shellmemory
  <1> DEFINE own == EntriesOf(shellmemory, v)
             free == EntriesOf(shellmemory, "none")
  <1>1. DOMAIN shellmemory = 1 .. MemSize
    BY EntriesLemma
  <1>2. CASE own # {}
    <2>1. First(own) \in 1 .. MemSize /\ shellmemory[First(own)].var = v
      BY <1>2, EntriesLemma
    <2>2. m = [shellmemory EXCEPT ![First(own)].value = x]
      BY <1>2 DEF mem_set_value
    <2>3. [shellmemory[First(own)] EXCEPT !.value = x] = [var |-> v, value |-> x]
      BY <2>1 DEF MemType
    <2>4. m = [i \in 1 .. MemSize |-> IF i = First(own) THEN [var |-> v, value |-> x]
                                      ELSE shellmemory[i]]
      BY <1>1, <2>2, <2>3
    <2> QED
      BY <2>1, <2>4
  <1>3. CASE own = {} /\ free # {}
    <2>1. First(free) \in 1 .. MemSize /\ shellmemory[First(free)].var = "none"
      BY <1>3, EntriesLemma
    <2>2. m = [shellmemory EXCEPT ![First(free)] = [var |-> v, value |-> x]]
      BY <1>3 DEF mem_set_value
    <2> QED
      BY <1>1, <1>3, <2>1, <2>2
  <1>4. CASE own = {} /\ free = {}
    BY <1>4 DEF mem_set_value
  <1> QED
    BY <1>2, <1>3, <1>4

--------------------------------------------------------------------------------
LEMMA InitIInv == Init => IInv
  BY FirstShellAssumption
     DEF Init, IInv, MemType, OneEntryEach, EntriesCurrent, EntriesGiven, Free

\* Set is the only action that writes the memory.
LEMMA SetIInv ==
    ASSUME IInv, Set
    PROVE  IInv'
  <1> DEFINE v == words[2]
             x == SubSeq(words, 3, Len(words))
  <1> USE DEF IInv
  <1>1. /\ shellmemory' = mem_set_value(shellmemory, v, x)
        /\ written' = [u \in DOMAIN written \cup {v} |-> IF u = v THEN x ELSE written[u]]
    BY DEF Set
  <1>2. DOMAIN shellmemory = 1 .. MemSize
    BY EntriesLemma
  <1>3. /\ DOMAIN written' = DOMAIN written \cup {v}
        /\ written'[v] = x
        /\ \A u \in DOMAIN written : u # v => written'[u] = written[u]
    BY <1>1
  <1> HIDE DEF v, x
  <1>4. ASSUME NEW k \in 1 .. MemSize,
               \/ shellmemory[k].var = v
               \/ shellmemory[k].var = "none" /\ EntriesOf(shellmemory, v) = {},
               shellmemory' = [i \in 1 .. MemSize |-> IF i = k THEN [var |-> v, value |-> x]
                                                      ELSE shellmemory[i]]
        PROVE  IInv'
    <2>1. /\ DOMAIN shellmemory' = 1 .. MemSize
          /\ shellmemory'[k] = [var |-> v, value |-> x]
          /\ \A i \in 1 .. MemSize : i # k => shellmemory'[i] = shellmemory[i]
      BY <1>4
    <2>2. MemType'
      BY <1>4 DEF MemType
    <2>3. \A i \in 1 .. MemSize : shellmemory[i].var = v /\ v # "none" => i = k
      BY <1>2, <1>4, EntriesLemma DEF OneEntryEach
    <2>4. OneEntryEach'
      BY <1>2, <2>1, <2>3 DEF OneEntryEach
    <2>5. EntriesCurrent'
      BY <1>2, <1>3, <2>1, <2>3 DEF EntriesCurrent
    <2>6. EntriesGiven'
      <3> SUFFICES ASSUME NEW u \in DOMAIN written' \ {"none"},
                          EntriesOf(shellmemory', u) = {},
                          NEW i \in EntriesOf(shellmemory', "none")
                   PROVE  FALSE
        BY DEF EntriesGiven
      <3>1. i \in 1 .. MemSize /\ shellmemory'[i].var = "none"
        BY <2>1 DEF EntriesOf
      <3>2. \A j \in 1 .. MemSize : shellmemory'[j].var # u
        BY <2>1 DEF EntriesOf
      <3>3. u # v
        BY <2>1, <3>2
      <3>4. u \in DOMAIN written \ {"none"}
        BY <1>3, <3>3
      <3>5. EntriesOf(shellmemory, u) = {}
        <4> SUFFICES ASSUME NEW j \in 1 .. MemSize, shellmemory[j].var = u PROVE FALSE
          BY <1>2 DEF EntriesOf
        <4>1. j # k
          BY <1>4, <3>3
        <4> QED
          BY <2>1, <3>2, <4>1
      <3>6. EntriesOf(shellmemory, "none") = {}
        BY <3>4, <3>5 DEF EntriesGiven
      <3>7. i = k /\ v = "none"
        BY <1>2, <2>1, <3>1, <3>6 DEF EntriesOf
      <3>8. k \in EntriesOf(shellmemory, "none")
        BY <1>2, <1>4, <3>7 DEF EntriesOf
      <3> QED
        BY <3>6, <3>8
    <2> QED
      BY <2>2, <2>4, <2>5, <2>6
  <1>5. ASSUME EntriesOf(shellmemory, v) = {}, EntriesOf(shellmemory, "none") = {},
               shellmemory' = shellmemory
        PROVE  IInv'
    <2>1. MemType' /\ OneEntryEach'
      BY <1>5 DEF MemType, OneEntryEach
    <2>2. EntriesCurrent'
      BY <1>2, <1>3, <1>5 DEF EntriesCurrent, EntriesOf
    <2>3. EntriesGiven'
      BY <1>5 DEF EntriesGiven
    <2> QED
      BY <2>1, <2>2, <2>3
  <1> QED
    BY <1>1, <1>4, <1>5, SetValueLemma

LEMMA NextIInv == IInv /\ [Next]_vars => IInv'
  <1> SUFFICES ASSUME IInv, [Next]_vars PROVE IInv'
    OBVIOUS
  <1>1. CASE Set
    BY <1>1, SetIInv
  <1>2. CASE ~Set
    <2>1. UNCHANGED <<shellmemory, written>>
      BY <1>2 DEF Next, Shell, vars, Plain, Quit, If, Crash, Run, ScriptLine, ScriptEnd, Type
    <2> QED
      BY <2>1 DEF IInv, MemType, OneEntryEach, EntriesCurrent, EntriesGiven, EntriesOf
  <1> QED
    BY <1>1, <1>2

\* What the memory holds, whatever scripts and conditionals are run.
THEOREM MemoryInvariant == Spec => []IInv
  BY InitIInv, NextIInv, PTL DEF Spec

\* A variable has the value last given to it, unless all entries belonged to others
\* when it was given one: for every size of the memory.
THEOREM MemoryLastValueCounts == Spec => []LastValueCounts
  <1>1. IInv => LastValueCounts
    <2> SUFFICES ASSUME IInv, NEW v \in DOMAIN written \ {"none"},
                        ~(/\ EntriesOf(shellmemory, v) = {}
                          /\ EntriesOf(shellmemory, "none") = {})
                 PROVE  mem_get_value(shellmemory, v) = written[v]
      BY DEF LastValueCounts
    <2>1. EntriesOf(shellmemory, v) # {}
      BY DEF IInv, EntriesGiven
    <2> DEFINE i == First(EntriesOf(shellmemory, v))
    <2>2. i \in DOMAIN shellmemory /\ shellmemory[i].var = v
      BY <2>1, EntriesLemma DEF IInv
    <2>3. shellmemory[i].value = written[v]
      BY <2>2 DEF IInv, EntriesCurrent
    <2> QED
      BY <2>1, <2>3 DEF mem_get_value
  <1> QED
    BY <1>1, MemoryInvariant, PTL

================================================================================
