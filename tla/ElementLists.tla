------------------------------ MODULE ElementLists -----------------------------
(***************************************************************************)
(* What lists promise their users (a3/fs/list.h): each list is a sequence  *)
(* of elements, an element is in at most one of them, and each function    *)
(* has its effect on these sequences and no other.  The functions are      *)
(* relations between the contents c before and d after.                    *)
(***************************************************************************)
EXTENDS Integers, Sequences, FiniteSets, SequencesExt

CONSTANTS
    List,           \* the lists
    Elem,           \* the elements
    Key             \* what the less function compares of an element

VARIABLE content    \* the elements of each list, from front to back

Init == content = [l \in List |-> <<>>]

Inserted(s, i, run) == SubSeq(s, 1, i - 1) \o run \o SubSeq(s, i, Len(s))

Without(s, i, j) == SubSeq(s, 1, i - 1) \o SubSeq(s, j + 1, Len(s))

InsertElem(c, d) ==
    \E l \in List, e \in Elem \ UNION {ToSet(c[m]) : m \in List} :
       \E i \in 1 .. Len(c[l]) + 1 : d = [c EXCEPT ![l] = Inserted(@, i, <<e>>)]

RemoveElem(c, d) ==
    \E l \in List : \E i \in DOMAIN c[l] : d = [c EXCEPT ![l] = Without(@, i, i)]

\* The elements from i to j leave their list and go before one of m, or to its end.
MoveRun(c, d) ==
    \E l, m \in List : \E i, j \in DOMAIN c[l] :
       /\ i <= j
       /\ \E k \in 1 .. Len(c[m]) + (IF l = m THEN i - j ELSE 1) :
             d = [[c EXCEPT ![l] = Without(@, i, j)]
                     EXCEPT ![m] = Inserted(@, k, SubSeq(c[l], i, j))]

ReverseList(c, d) == \E l \in List : d = [c EXCEPT ![l] = Reverse(@)]

\* In the order of the keys, and elements of equal keys in the order they had.
GoesBefore(s, i, j) == \/ Key[s[i]] < Key[s[j]]
                       \/ Key[s[i]] = Key[s[j]] /\ i < j

Rank(s, i) == 1 + Cardinality({j \in DOMAIN s : GoesBefore(s, j, i)})

Sorted(s) == [k \in DOMAIN s |-> s[CHOOSE i \in DOMAIN s : Rank(s, i) = k]]

SortList(c, d) == \E l \in List : d = [c EXCEPT ![l] = Sorted(@)]

\* The places of elements with the key of the one before them.
Repeats(s) == {i \in DOMAIN s : i > 1 /\ Key[s[i]] = Key[s[i - 1]]}

\* What is in some places of s, in the order of the places.
Chosen(s, P) ==
    [k \in 1 .. Cardinality(P) |-> s[CHOOSE i \in P : Cardinality({j \in P : j <= i}) = k]]

\* Of neighbours with equal keys the first stays; the others go to another list, or
\* to none.
RemoveRepeats(c, d) ==
    \E l \in List :
       \/ d = [c EXCEPT ![l] = Chosen(@, DOMAIN @ \ Repeats(@))]
       \/ \E m \in List \ {l} :
             d = [c EXCEPT ![l] = Chosen(@, DOMAIN @ \ Repeats(@)),
                           ![m] = @ \o Chosen(c[l], Repeats(c[l]))]

Step(c, d) == \/ InsertElem(c, d) \/ RemoveElem(c, d) \/ MoveRun(c, d)
              \/ ReverseList(c, d) \/ SortList(c, d) \/ RemoveRepeats(c, d)

Next == \E c \in {content}, d \in {content'} : Step(c, d)

Spec == Init /\ [][Next]_content

================================================================================
