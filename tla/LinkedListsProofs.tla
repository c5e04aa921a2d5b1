---------------------------- MODULE LinkedListsProofs ---------------------------
(***************************************************************************)
(* Proofs about LinkedLists for any number of lists and of elements: the   *)
(* links of both directions stay inverse to each other, whatever function  *)
(* runs, and each node stays in one list.                                  *)
(*                                                                         *)
(* The proofs say where a node is by two functions: the list that owns it, *)
(* if there is one, and its position there, the head at 0.                 *)
(***************************************************************************)
EXTENDS LinkedLists, WellFoundedInduction, FiniteSetTheorems, SequenceTheorems, TLAPS

\* A set of natural numbers that is not empty has a least element.
LEMMA LeastElement ==
    ASSUME NEW S \in SUBSET Nat, S # {}
    PROVE  \E i \in S : \A j \in S : i <= j
  <1>1. IsWellFoundedOn(OpToRel(<, Nat), Nat)
    BY NatLessThanWellFounded
  <1>2. PICK i \in S : \A j \in S : ~(<<j, i>> \in OpToRel(<, Nat))
    BY <1>1, WFMin
  <1>3. \A j \in S : ~(j < i)
    <2> SUFFICES ASSUME NEW j \in S, j < i PROVE FALSE
      OBVIOUS
    <2>1. <<j, i>> \in OpToRel(<, Nat)
      BY DEF OpToRel
    <2> QED
      BY <1>2, <2>1
  <1> QED
    BY <1>3

\* A set that contains 0, and with each number the next one, contains them all.
LEMMA Induction ==
    ASSUME NEW S, 0 \in S, \A n \in Nat : n \in S => n + 1 \in S
    PROVE  \A n \in Nat : n \in S
  <1> DEFINE T == {n \in Nat : n \notin S}
  <1> SUFFICES ASSUME T # {} PROVE FALSE
    OBVIOUS
  <1>1. PICK k \in T : \A l \in T : k <= l
    BY LeastElement
  <1>2. k - 1 \in Nat /\ k - 1 \in S
    BY <1>1
  <1> QED
    BY <1>2

--------------------------------------------------------------------------------

Nobody == CHOOSE l : l \notin List

Shape(m) == m \in [prev : [Node -> Node \cup {NULL}], next : [Node -> Node \cup {NULL}]]

Placed(own, pos) ==
    /\ own \in [Node -> List \cup {Nobody}] /\ pos \in [Node -> Nat]
    /\ \A l \in List : own[Head_(l)] = l /\ pos[Head_(l)] = 0 /\ own[Tail_(l)] = l
    /\ \A n \in Node : own[n] \in List => pos[n] <= pos[Tail_(own[n])]

\* Node k comes right behind node n.
Linked(m, own, pos, n, k) ==
    /\ n \in Node /\ k \in Node
    /\ own[k] = own[n] /\ pos[k] = pos[n] + 1
    /\ m.next[n] = k /\ m.prev[k] = n

Rep(m, own, pos) ==
    /\ Shape(m) /\ Placed(own, pos)
    /\ \A n \in Node : own[n] \in List /\ n # Tail_(own[n]) => Linked(m, own, pos, n, m.next[n])
    /\ \A n \in Node : own[n] \in List /\ n # Head_(own[n]) => Linked(m, own, pos, m.prev[n], n)

--------------------------------------------------------------------------------
(***************************************************************************)
(* Nodes and their places.                                                 *)
(***************************************************************************)

LEMMA NodeLemma ==
    /\ Nobody \notin List
    /\ \A l \in List : /\ Head_(l) \in Node /\ Tail_(l) \in Node
                       /\ Head_(l) \notin Elem /\ Tail_(l) \notin Elem
    /\ \A l, k \in List : /\ Head_(l) # Tail_(k)
                          /\ Head_(l) = Head_(k) => l = k
                          /\ Tail_(l) = Tail_(k) => l = k
    /\ NULL \notin Node /\ Elem \subseteq Node
  <1>1. Nobody \notin List
    BY NoSetContainsEverything DEF Nobody
  <1>2. ASSUME NEW l \in List, NEW k \in List
        PROVE  /\ Head_(l) # Tail_(k)
               /\ Head_(l) = Head_(k) => l = k
               /\ Tail_(l) = Tail_(k) => l = k
    BY DEF Head_, Tail_
  <1> QED
    BY <1>1, <1>2, LinkedListsAssumption, EndsAssumption DEF Node

\* An owned node that is no end is an element, and only the ends are at the ends.
LEMMA EndsLemma ==
    ASSUME NEW m, NEW own, NEW pos, Rep(m, own, pos), NEW n \in Node, own[n] \in List
    PROVE  /\ n \in Elem <=> n # Head_(own[n]) /\ n # Tail_(own[n])
           /\ n = Head_(own[n]) <=> pos[n] = 0
           /\ pos[n] \in Nat
           /\ pos[n] <= pos[Tail_(own[n])] /\ pos[Tail_(own[n])] \in Nat \ {0}
  <1>1. n \in Elem <=> n # Head_(own[n]) /\ n # Tail_(own[n])
    BY NodeLemma DEF Rep, Placed, Node
  <1>2. n = Head_(own[n]) => pos[n] = 0
    BY DEF Rep, Placed
  <1>3. n # Head_(own[n]) => pos[n] # 0
    <2> SUFFICES ASSUME n # Head_(own[n]) PROVE pos[n] # 0
      OBVIOUS
    <2>1. pos[n] = pos[m.prev[n]] + 1 /\ m.prev[n] \in Node
      BY DEF Rep, Linked
    <2>2. pos[m.prev[n]] \in Nat
      BY <2>1 DEF Rep, Placed
    <2> QED
      BY <2>1, <2>2
  <1>4. PICK t \in Node : t = Tail_(own[n])
    BY NodeLemma
  <1>5. own[t] = own[n] /\ t # Head_(own[t])
    BY <1>4, NodeLemma DEF Rep, Placed
  <1>6. pos[t] \in Nat /\ pos[t] = pos[m.prev[t]] + 1 /\ pos[m.prev[t]] \in Nat
    BY <1>5 DEF Rep, Placed, Linked
  <1>7. pos[n] \in Nat /\ pos[n] <= pos[t]
    BY <1>4 DEF Rep, Placed
  <1> QED
    BY <1>1, <1>2, <1>3, <1>4, <1>6, <1>7

\* No two nodes are in one place.
LEMMA OnePlace ==
    ASSUME NEW m, NEW own, NEW pos, Rep(m, own, pos)
    PROVE  \A n, k \in Node : own[n] \in List /\ own[n] = own[k] /\ pos[n] = pos[k] => n = k
  <1> DEFINE S == {i \in Nat : \A n, k \in Node :
                      own[n] \in List /\ own[n] = own[k] /\ pos[n] = i /\ pos[k] = i => n = k}
  <1>1. 0 \in S
    <2> SUFFICES ASSUME NEW n \in Node, NEW k \in Node, own[n] \in List, own[n] = own[k],
                        pos[n] = 0, pos[k] = 0
                 PROVE  n = k
      OBVIOUS
    <2>1. n = Head_(own[n])
      BY EndsLemma
    <2>2. k = Head_(own[k])
      BY EndsLemma
    <2> QED
      BY <2>1, <2>2
  <1>2. ASSUME NEW i \in Nat, i \in S PROVE i + 1 \in S
    <2> SUFFICES ASSUME NEW n \in Node, NEW k \in Node, own[n] \in List, own[n] = own[k],
                        pos[n] = i + 1, pos[k] = i + 1
                 PROVE  n = k
      OBVIOUS
    <2>1. n # Head_(own[n]) /\ k # Head_(own[k])
      BY EndsLemma
    <2>2. Linked(m, own, pos, m.prev[n], n) /\ Linked(m, own, pos, m.prev[k], k)
      BY <2>1 DEF Rep
    <2>3. pos[m.prev[n]] = i /\ pos[m.prev[k]] = i
      BY <2>2 DEF Linked, Rep, Placed
    <2>4. m.prev[n] = m.prev[k]
      BY <1>2, <2>2, <2>3 DEF Linked
    <2> QED
      BY <2>2, <2>4 DEF Linked
  <1> HIDE DEF S
  <1>3. \A i \in Nat : i \in S
    BY <1>1, <1>2, Induction
  <1> SUFFICES ASSUME NEW n \in Node, NEW k \in Node, own[n] \in List, own[n] = own[k], pos[n] = pos[k]
               PROVE  n = k
    OBVIOUS
  <1>4. pos[n] \in S
    BY <1>3 DEF Rep, Placed
  <1> QED
    BY <1>4 DEF S

\* There is a node in every place up to the tail.
LEMMA EveryPlace ==
    ASSUME NEW m, NEW own, NEW pos, Rep(m, own, pos), NEW l \in List
    PROVE  \A i \in 0 .. pos[Tail_(l)] : \E n \in Node : own[n] = l /\ pos[n] = i
  <1> DEFINE S == {i \in Nat : i <= pos[Tail_(l)] => \E n \in Node : own[n] = l /\ pos[n] = i}
  <1>1. 0 \in S
    BY NodeLemma DEF Rep, Placed
  <1>2. ASSUME NEW i \in Nat, i \in S PROVE i + 1 \in S
    <2>1. pos[Tail_(l)] \in Nat
      BY NodeLemma DEF Rep, Placed
    <2> SUFFICES ASSUME i + 1 <= pos[Tail_(l)] PROVE \E n \in Node : own[n] = l /\ pos[n] = i + 1
      OBVIOUS
    <2>2. PICK n \in Node : own[n] = l /\ pos[n] = i
      BY <1>2, <2>1
    <2>3. n # Tail_(own[n])
      BY <2>1, <2>2
    <2> QED
      BY <2>2, <2>3 DEF Rep, Linked
  <1> HIDE DEF S
  <1>3. \A i \in Nat : i \in S
    BY <1>1, <1>2, Induction
  <1>4. pos[Tail_(l)] \in Nat
    BY NodeLemma DEF Rep, Placed
  <1> QED
    BY <1>3, <1>4 DEF S

--------------------------------------------------------------------------------
(***************************************************************************)
(* Taking a run of nodes out of a list and putting it in elsewhere.        *)
(***************************************************************************)

\* Nodes that are linked to each other and in no list, rank telling their order.
Run(m, own, R, rank, first, last) ==
    /\ R \in SUBSET Elem /\ \A n \in R : own[n] = Nobody
    /\ rank \in [R -> Nat \ {0}] /\ first \in R /\ last \in R /\ rank[first] = 1
    /\ \A n \in R : rank[n] <= rank[last]
    /\ \A n \in R \ {last} : /\ m.next[n] \in R /\ rank[m.next[n]] = rank[n] + 1
                             /\ m.prev[m.next[n]] = n
    /\ \A n \in R \ {first} : /\ m.prev[n] \in R /\ rank[n] = rank[m.prev[n]] + 1
                              /\ m.next[m.prev[n]] = n

\* The places after the nodes of R came to list l, or went to nobody.
OwnBy(own, R, l) == [n \in Node |-> IF n \in R THEN l ELSE own[n]]

\* The places after a run was put in before b.
PutPos(own, pos, R, rank, b, last) ==
    [n \in Node |-> IF n \in R THEN pos[b] + rank[n] - 1
                    ELSE IF own[n] = own[b] /\ pos[n] >= pos[b] THEN pos[n] + rank[last]
                    ELSE pos[n]]

LEMMA PutInLemma ==
    ASSUME NEW m, NEW own, NEW pos, Rep(m, own, pos),
           NEW b \in Node, own[b] \in List, b # Head_(own[b]),
           NEW R, NEW rank, NEW first, NEW last, Run(m, own, R, rank, first, last)
    PROVE  Rep(PutIn(m, b, first, last), OwnBy(own, R, own[b]), PutPos(own, pos, R, rank, b, last))
  <1>1. PICK p : p = m.prev[b]
    OBVIOUS
  <1>2. Linked(m, own, pos, p, b)
    BY <1>1 DEF Rep
  <1>3. PICK q : q = PutIn(m, b, first, last)
    OBVIOUS
  <1>4. PICK own2 : own2 = OwnBy(own, R, own[b])
    OBVIOUS
  <1>5. PICK pos2 : pos2 = PutPos(own, pos, R, rank, b, last)
    OBVIOUS
  <1>6. /\ R \subseteq Node /\ first \in R /\ last \in R /\ b \notin R /\ p \notin R
        /\ p \in Node /\ p # b
    <2>1. R \subseteq Node /\ first \in R /\ last \in R
      BY NodeLemma DEF Run
    <2>2. b \notin R /\ p \notin R
      BY <1>2, NodeLemma DEF Run, Linked
    <2>3. p \in Node /\ pos[b] = pos[p] + 1 /\ pos[p] \in Nat
      BY <1>2 DEF Linked, Rep, Placed
    <2>4. p # b
      BY <2>3
    <2> QED
      BY <2>1, <2>2, <2>3, <2>4
  <1>7. /\ q = [prev |-> q.prev, next |-> q.next]
        /\ \A n \in Node : q.prev[n] = IF n = first THEN p ELSE IF n = b THEN last ELSE m.prev[n]
        /\ \A n \in Node : q.next[n] = IF n = last THEN b ELSE IF n = p THEN first ELSE m.next[n]
        /\ q.prev \in [Node -> Node \cup {NULL}] /\ q.next \in [Node -> Node \cup {NULL}]
    <2>1. m.prev \in [Node -> Node \cup {NULL}] /\ m.next \in [Node -> Node \cup {NULL}]
      BY DEF Rep, Shape
    <2>2. /\ q = [prev |-> [m.prev EXCEPT ![first] = p, ![b] = last],
                  next |-> [m.next EXCEPT ![last] = b, ![p] = first]]
      BY <1>1, <1>3 DEF PutIn
    <2>3. /\ q.prev = [m.prev EXCEPT ![first] = p, ![b] = last]
          /\ q.next = [m.next EXCEPT ![last] = b, ![p] = first]
          /\ q = [prev |-> q.prev, next |-> q.next]
      BY <2>2
    <2> QED
      BY <1>6, <2>1, <2>3
  <1>8. /\ \A n \in Node : own2[n] = IF n \in R THEN own[b] ELSE own[n]
        /\ own2 \in [Node -> List \cup {Nobody}]
    BY <1>4 DEF OwnBy, Rep, Placed
  <1>9. /\ \A n \in R : rank[n] \in Nat \ {0} /\ rank[n] <= rank[last]
        /\ rank[first] = 1
        /\ \A n \in Node : pos[n] \in Nat
    BY DEF Run, Rep, Placed
  <1>10. \A n \in R : pos2[n] = pos[b] + rank[n] - 1
    BY <1>5, <1>6 DEF PutPos
  <1>11. ASSUME NEW n \in Node, n \notin R
         PROVE  pos2[n] = IF own[n] = own[b] /\ pos[n] >= pos[b] THEN pos[n] + rank[last] ELSE pos[n]
    BY <1>5, <1>11 DEF PutPos
  <1>12. pos2 \in [Node -> Nat]
    <2>1. \A n \in Node : pos2[n] \in Nat
      BY <1>6, <1>9, <1>10, <1>11
    <2>2. pos2 = [n \in Node |-> pos2[n]]
      BY <1>5 DEF PutPos
    <2> QED
      BY <2>1, <2>2
  <1>13. PICK r \in Nat \ {0} : r = rank[last]
    BY <1>6, <1>9
  <1>14. \A n \in Node : n \notin R /\ own[n] \in List <=> own[n] \in List
    BY NodeLemma DEF Run
  <1>15. Placed(own2, pos2)
    <2>1. ASSUME NEW l \in List
          PROVE  own2[Head_(l)] = l /\ pos2[Head_(l)] = 0 /\ own2[Tail_(l)] = l
      <3>1. own[Head_(l)] = l /\ own[Tail_(l)] = l /\ pos[Head_(l)] = 0
        BY DEF Rep, Placed
      <3>2. PICK h \in Node, t \in Node : h = Head_(l) /\ t = Tail_(l)
        BY NodeLemma
      <3>3. h \notin R /\ t \notin R
        BY <1>14, <3>1, <3>2
      <3>4. pos[b] > 0
        BY <1>2, <1>9 DEF Linked
      <3>5. pos2[h] = pos[h]
        BY <1>9, <1>11, <3>1, <3>2, <3>3, <3>4
      <3> QED
        BY <1>8, <3>1, <3>2, <3>3, <3>5
    <2>2. ASSUME NEW n \in Node, own2[n] \in List PROVE pos2[n] <= pos2[Tail_(own2[n])]
      <3>1. PICK l \in List, t \in Node : l = own2[n] /\ t = Tail_(l)
        BY <2>2, NodeLemma
      <3>2. own[t] = l /\ t \notin R
        BY <1>14, <3>1 DEF Rep, Placed
      <3>3. CASE n \in R
        <4>1. l = own[b] /\ pos[b] <= pos[t]
          BY <1>8, <3>1, <3>3 DEF Rep, Placed
        <4>2. pos2[t] = pos[t] + r
          BY <1>9, <1>11, <1>13, <3>2, <4>1
        <4>3. pos2[n] = pos[b] + rank[n] - 1 /\ rank[n] \in Nat /\ rank[n] <= r
          BY <1>9, <1>10, <1>13, <3>3
        <4> QED
          BY <1>9, <3>1, <4>1, <4>2, <4>3
      <3>4. CASE n \notin R
        <4>1. own[n] = l /\ pos[n] <= pos[t]
          BY <1>8, <3>1, <3>4 DEF Rep, Placed
        <4>2. /\ pos2[n] = IF l = own[b] /\ pos[n] >= pos[b] THEN pos[n] + r ELSE pos[n]
              /\ pos2[t] = IF l = own[b] /\ pos[t] >= pos[b] THEN pos[t] + r ELSE pos[t]
          BY <1>11, <1>13, <3>2, <3>4, <4>1
        <4>3. pos2[n] <= pos2[t]
          BY <1>9, <4>1, <4>2
        <4> QED
          BY <3>1, <4>3
      <3> QED
        BY <3>3, <3>4
    <2> QED
      BY <1>8, <1>12, <2>1, <2>2 DEF Placed
  <1>16. pos[b] = pos[p] + 1 /\ own[p] = own[b] /\ m.next[p] = b /\ m.prev[b] = p
    BY <1>2 DEF Linked
  \* The four kinds of neighbours.
  <1>17. Linked(q, own2, pos2, p, first)
    <2>1. own2[first] = own2[p]
      BY <1>6, <1>8, <1>16
    <2>2. pos2[p] = pos[p] /\ pos2[first] = pos[b] + 1 - 1
      BY <1>6, <1>9, <1>10, <1>11, <1>16
    <2>3. pos2[first] = pos2[p] + 1
      BY <1>6, <1>9, <1>16, <2>2
    <2>4. q.next[p] = first /\ q.prev[first] = p
      BY <1>6, <1>7
    <2> QED
      BY <1>6, <2>1, <2>3, <2>4 DEF Linked
  <1>18. Linked(q, own2, pos2, last, b)
    <2>1. own2[last] = own2[b]
      BY <1>6, <1>8
    <2>2. pos2[b] = pos[b] + r /\ pos2[last] = pos[b] + r - 1
      BY <1>6, <1>9, <1>10, <1>11, <1>13
    <2>3. pos2[b] = pos2[last] + 1
      BY <1>9, <1>13, <2>2
    <2>4. q.next[last] = b /\ q.prev[b] = last
      BY <1>6, <1>7
    <2> QED
      BY <1>6, <2>1, <2>3, <2>4 DEF Linked
  <1>19. ASSUME NEW n \in R, NEW k \in R, rank[k] = rank[n] + 1, m.next[n] = k, m.prev[k] = n
         PROVE  Linked(q, own2, pos2, n, k)
    <2>1. n # last /\ k # first /\ n # p /\ k # b
      BY <1>6, <1>9, <1>19
    <2>2. q.next[n] = k /\ q.prev[k] = n
      BY <1>6, <1>7, <1>19, <2>1
    <2>3. own2[k] = own2[n]
      BY <1>6, <1>8
    <2>4. pos2[k] = pos2[n] + 1
      BY <1>6, <1>9, <1>10, <1>19
    <2> QED
      BY <1>6, <2>2, <2>3, <2>4 DEF Linked
  <1>20. ASSUME NEW n \in Node, NEW k \in Node, own[n] \in List, Linked(m, own, pos, n, k), n # p, k # b
         PROVE  Linked(q, own2, pos2, n, k)
    <2>1. own[k] = own[n] /\ pos[k] = pos[n] + 1 /\ m.next[n] = k /\ m.prev[k] = n
      BY <1>20 DEF Linked
    <2>2. n \notin R /\ k \notin R
      BY <1>14, <1>20, <2>1
    <2>3. q.next[n] = k /\ q.prev[k] = n
      BY <1>6, <1>7, <1>20, <2>1, <2>2
    <2>4. own2[n] = own2[k]
      BY <1>8, <2>1, <2>2
    <2>5. ~(own[n] = own[b] /\ pos[k] = pos[b])
      <3>1. own[n] = own[b] /\ pos[k] = pos[b] => k = b
        BY <1>20, <2>1, OnePlace
      <3> QED
        BY <1>20, <3>1
    <2>6. own[n] = own[b] => (pos[n] >= pos[b] <=> pos[k] >= pos[b])
      BY <1>9, <2>1, <2>5
    <2>7. /\ pos2[n] = IF own[n] = own[b] /\ pos[n] >= pos[b] THEN pos[n] + r ELSE pos[n]
          /\ pos2[k] = IF own[n] = own[b] /\ pos[k] >= pos[b] THEN pos[k] + r ELSE pos[k]
      BY <1>11, <1>13, <2>1, <2>2
    <2>8. pos2[k] = pos2[n] + 1
      BY <1>9, <2>1, <2>6, <2>7
    <2> QED
      BY <2>3, <2>4, <2>8 DEF Linked
  <1>21. ASSUME NEW n \in Node, own2[n] \in List, n # Tail_(own2[n])
         PROVE  Linked(q, own2, pos2, n, q.next[n])
    <2>1. CASE n = last
      BY <1>6, <1>7, <1>18, <2>1
    <2>2. CASE n = p
      BY <1>6, <1>7, <1>17, <2>2
    <2>3. CASE n \in R /\ n # last
      <3>1. m.next[n] \in R /\ rank[m.next[n]] = rank[n] + 1 /\ m.prev[m.next[n]] = n
        BY <2>3 DEF Run
      <3>2. q.next[n] = m.next[n]
        BY <1>6, <1>7, <2>3
      <3> QED
        BY <1>19, <2>3, <3>1, <3>2
    <2>4. CASE n \notin R /\ n # p
      <3>1. own[n] = own2[n]
        BY <1>8, <2>4
      <3>2. Linked(m, own, pos, n, m.next[n])
        BY <1>21, <3>1 DEF Rep
      <3>3. m.next[n] # b
        BY <1>16, <2>4, <3>2 DEF Linked
      <3>4. q.next[n] = m.next[n] /\ m.next[n] \in Node
        BY <1>6, <1>7, <2>4, <3>2 DEF Linked
      <3> QED
        BY <1>20, <1>21, <2>4, <3>1, <3>2, <3>3, <3>4
    <2> QED
      BY <1>6, <2>1, <2>2, <2>3, <2>4
  <1>22. ASSUME NEW n \in Node, own2[n] \in List, n # Head_(own2[n])
         PROVE  Linked(q, own2, pos2, q.prev[n], n)
    <2>1. CASE n = first
      BY <1>6, <1>7, <1>17, <2>1
    <2>2. CASE n = b
      BY <1>6, <1>7, <1>18, <2>2
    <2>3. CASE n \in R /\ n # first
      <3>1. m.prev[n] \in R /\ rank[n] = rank[m.prev[n]] + 1 /\ m.next[m.prev[n]] = n
        BY <2>3 DEF Run
      <3>2. q.prev[n] = m.prev[n]
        BY <1>6, <1>7, <2>3
      <3> QED
        BY <1>19, <2>3, <3>1, <3>2
    <2>4. CASE n \notin R /\ n # b
      <3>1. own[n] = own2[n]
        BY <1>8, <2>4
      <3>2. Linked(m, own, pos, m.prev[n], n)
        BY <1>22, <3>1 DEF Rep
      <3>3. m.prev[n] # p
        BY <1>16, <2>4, <3>2 DEF Linked
      <3>4. q.prev[n] = m.prev[n] /\ m.prev[n] \in Node /\ own[m.prev[n]] = own[n]
        BY <1>6, <1>7, <2>4, <3>2 DEF Linked
      <3> QED
        BY <1>20, <1>22, <2>4, <3>1, <3>2, <3>3, <3>4
    <2> QED
      BY <1>6, <2>1, <2>2, <2>3, <2>4
  <1>23. Shape(q)
    BY <1>7 DEF Shape
  <1>24. Rep(q, own2, pos2)
    BY <1>15, <1>21, <1>22, <1>23 DEF Rep
  <1> QED
    BY <1>3, <1>4, <1>5, <1>24

\* The nodes from first to last, and their order.
Between(own, pos, first, last) ==
    {n \in Node : own[n] = own[first] /\ pos[first] <= pos[n] /\ pos[n] <= pos[last]}

RankFrom(R, pos, first) == [n \in R |-> pos[n] - pos[first] + 1]

\* The places after they were taken out.
TakePos(own, pos, first, last) ==
    [n \in Node |-> IF own[n] = own[first] /\ pos[n] > pos[last]
                    THEN pos[n] - (pos[last] - pos[first] + 1) ELSE pos[n]]

LEMMA TakenOutLemma ==
    ASSUME NEW m, NEW own, NEW pos, Rep(m, own, pos),
           NEW first \in Elem, NEW last \in Elem, own[first] \in List, own[last] = own[first],
           pos[first] <= pos[last],
           NEW R, R = Between(own, pos, first, last)
    PROVE  /\ Rep(TakenOut(m, first, last), OwnBy(own, R, Nobody), TakePos(own, pos, first, last))
           /\ Run(TakenOut(m, first, last), OwnBy(own, R, Nobody), R, RankFrom(R, pos, first), first, last)
           /\ \A n \in R : n \in Elem /\ own[n] = own[first]
  <1>1. PICK l \in List : l = own[first]
    OBVIOUS
  <1>2. first \in Node /\ last \in Node /\ own[last] = l /\ own[first] = l
    BY <1>1, NodeLemma
  <1>3. PICK p, a : p = m.prev[first] /\ a = m.next[last]
    OBVIOUS
  <1>4. Linked(m, own, pos, p, first) /\ Linked(m, own, pos, last, a)
    <2>1. first # Head_(l) /\ last # Tail_(l)
      BY NodeLemma
    <2> QED
      BY <1>2, <1>3, <2>1 DEF Rep
  <1>5. PICK i \in Nat, j \in Nat : i = pos[first] /\ j = pos[last]
    BY <1>2 DEF Rep, Placed
  <1>6. /\ p \in Node /\ a \in Node /\ own[p] = l /\ own[a] = l
        /\ pos[p] = i - 1 /\ pos[p] \in Nat /\ pos[a] = j + 1 /\ i <= j
        /\ m.next[p] = first /\ m.prev[first] = p /\ m.next[last] = a /\ m.prev[a] = last
    <2>1. p \in Node /\ pos[p] \in Nat /\ pos[first] = pos[p] + 1
      BY <1>4 DEF Linked, Rep, Placed
    <2>2. own[p] = l /\ own[a] = l /\ a \in Node /\ pos[a] = j + 1
      BY <1>2, <1>4, <1>5 DEF Linked
    <2>3. pos[p] = i - 1 /\ i <= j
      BY <1>5, <2>1
    <2>4. m.next[p] = first /\ m.prev[first] = p /\ m.next[last] = a /\ m.prev[a] = last
      BY <1>4 DEF Linked
    <2> QED
      BY <2>1, <2>2, <2>3, <2>4
  <1>7. \A n \in Node : pos[n] \in Nat
    BY DEF Rep, Placed
  <1>8. R = {n \in Node : own[n] = l /\ i <= pos[n] /\ pos[n] <= j}
    BY <1>1, <1>5 DEF Between
  <1>9. p \notin R /\ a \notin R /\ first \in R /\ last \in R /\ p # a
    BY <1>2, <1>5, <1>6, <1>8
  <1>10. \A n \in R : n \in Elem /\ own[n] = l /\ n \in Node
    <2> SUFFICES ASSUME NEW n \in R PROVE n # Head_(l) /\ n # Tail_(l) /\ own[n] = l /\ n \in Node
      BY EndsLemma
    <2>1. n \in Node /\ own[n] = l /\ i <= pos[n] /\ pos[n] <= j
      BY <1>8
    <2>2. PICK t \in Node : t = Tail_(l)
      BY NodeLemma
    <2>3. pos[a] <= pos[t]
      BY <1>6, <2>2 DEF Rep, Placed
    <2>4. pos[n] # pos[t]
      BY <1>6, <1>7, <2>1, <2>3
    <2>5. pos[n] # 0
      BY <1>6, <1>7, <2>1
    <2> QED
      BY <2>1, <2>2, <2>4, <2>5, EndsLemma
  <1>11. PICK q : q = TakenOut(m, first, last)
    OBVIOUS
  <1>12. /\ q = [prev |-> q.prev, next |-> q.next]
         /\ \A n \in Node : q.prev[n] = IF n = a THEN p ELSE m.prev[n]
         /\ \A n \in Node : q.next[n] = IF n = p THEN a ELSE m.next[n]
         /\ q.prev \in [Node -> Node \cup {NULL}] /\ q.next \in [Node -> Node \cup {NULL}]
    <2>1. m.prev \in [Node -> Node \cup {NULL}] /\ m.next \in [Node -> Node \cup {NULL}]
      BY DEF Rep, Shape
    <2>2. q = [prev |-> [m.prev EXCEPT ![a] = p], next |-> [m.next EXCEPT ![p] = a]]
      BY <1>3, <1>11 DEF TakenOut
    <2>3. /\ q.prev = [m.prev EXCEPT ![a] = p] /\ q.next = [m.next EXCEPT ![p] = a]
          /\ q = [prev |-> q.prev, next |-> q.next]
      BY <2>2
    <2> QED
      BY <1>6, <2>1, <2>3
  <1>13. PICK own2 : own2 = OwnBy(own, R, Nobody)
    OBVIOUS
  <1>14. PICK pos2 : pos2 = TakePos(own, pos, first, last)
    OBVIOUS
  <1>15. /\ \A n \in Node : own2[n] = IF n \in R THEN Nobody ELSE own[n]
         /\ own2 \in [Node -> List \cup {Nobody}]
         /\ Nobody \notin List
    BY <1>13, NodeLemma DEF OwnBy, Rep, Placed
  <1>16. \A n \in Node : pos2[n] = IF own[n] = l /\ pos[n] > j THEN pos[n] - (j - i + 1) ELSE pos[n]
    BY <1>1, <1>5, <1>14 DEF TakePos
  <1>17. pos2 \in [Node -> Nat]
    <2>1. \A n \in Node : pos2[n] \in Nat
      BY <1>6, <1>7, <1>16
    <2>2. pos2 = [n \in Node |-> pos2[n]]
      BY <1>14 DEF TakePos
    <2> QED
      BY <2>1, <2>2
  <1>18. ASSUME NEW n \in Node, NEW k \in Node, own[n] \in List, own[k] = own[n], n \notin R, k \notin R,
                pos[n] <= pos[k]
         PROVE  pos2[n] <= pos2[k]
    <2>1. n \in R <=> own[n] = l /\ i <= pos[n] /\ pos[n] <= j
      BY <1>8
    <2>2. k \in R <=> own[n] = l /\ i <= pos[k] /\ pos[k] <= j
      BY <1>8, <1>18
    <2>3. CASE own[n] = l
      BY <1>6, <1>7, <1>16, <1>18, <2>1, <2>2, <2>3
    <2>4. CASE own[n] # l
      BY <1>16, <1>18, <2>4
    <2> QED
      BY <2>3, <2>4
  <1>19. Placed(own2, pos2)
    <2>1. ASSUME NEW k \in List
          PROVE  own2[Head_(k)] = k /\ pos2[Head_(k)] = 0 /\ own2[Tail_(k)] = k
      <3>1. PICK h \in Node, t \in Node : h = Head_(k) /\ t = Tail_(k)
        BY NodeLemma
      <3>2. h \notin R /\ t \notin R
        BY <1>10, <3>1, NodeLemma
      <3>3. own[h] = k /\ own[t] = k /\ pos[h] = 0
        BY <3>1 DEF Rep, Placed
      <3>4. pos2[h] = 0
        BY <1>16, <3>3
      <3> QED
        BY <1>15, <3>1, <3>2, <3>3, <3>4
    <2>2. ASSUME NEW n \in Node, own2[n] \in List PROVE pos2[n] <= pos2[Tail_(own2[n])]
      <3>1. n \notin R /\ own[n] = own2[n]
        BY <1>15, <2>2
      <3>2. PICK t \in Node : t = Tail_(own[n])
        BY <2>2, <3>1, NodeLemma
      <3>3. own[t] = own[n] /\ pos[n] <= pos[t]
        BY <2>2, <3>1, <3>2 DEF Rep, Placed
      <3>4. t \notin R
        BY <1>10, <2>2, <3>1, <3>2, NodeLemma
      <3> QED
        BY <1>18, <2>2, <3>1, <3>2, <3>3, <3>4
    <2> QED
      BY <1>15, <1>17, <2>1, <2>2 DEF Placed
  <1>20. Linked(q, own2, pos2, p, a)
    <2>1. own2[p] = l /\ own2[a] = l
      BY <1>6, <1>9, <1>15
    <2>2. pos2[p] = i - 1 /\ pos2[a] = j + 1 - (j - i + 1)
      BY <1>6, <1>16
    <2>3. pos2[a] = pos2[p] + 1
      BY <2>2
    <2>4. q.next[p] = a /\ q.prev[a] = p
      BY <1>6, <1>12
    <2> QED
      BY <1>6, <2>1, <2>3, <2>4 DEF Linked
  <1>21. ASSUME NEW n \in Node, NEW k \in Node, own[n] \in List, Linked(m, own, pos, n, k),
                n \notin R, n # p, k # a
         PROVE  Linked(q, own2, pos2, n, k)
    <2>1. own[k] = own[n] /\ pos[k] = pos[n] + 1 /\ m.next[n] = k /\ m.prev[k] = n
      BY <1>21 DEF Linked
    <2>2. q.next[n] = k /\ q.prev[k] = n
      BY <1>12, <1>21, <2>1
    <2>3. ~(own[n] = l /\ pos[n] = i - 1)
      <3>1. own[n] = l /\ pos[n] = i - 1 => n = p
        BY <1>6, OnePlace
      <3> QED
        BY <1>21, <3>1
    <2>4. k \notin R
      BY <1>6, <1>7, <1>8, <1>21, <2>1, <2>3
    <2>5. own2[n] = own2[k]
      BY <1>15, <1>21, <2>1, <2>4
    <2>6. ~(own[n] = l /\ pos[n] = j)
      BY <1>6, <1>8, <1>21
    <2>7. own[n] = l => (pos[n] > j <=> pos[k] > j)
      BY <1>7, <2>1, <2>6
    <2>8. pos2[k] = pos2[n] + 1
      BY <1>7, <1>16, <2>1, <2>7
    <2> QED
      BY <2>2, <2>5, <2>8 DEF Linked
  <1>22. ASSUME NEW n \in Node, own2[n] \in List, n # Tail_(own2[n])
         PROVE  Linked(q, own2, pos2, n, q.next[n])
    <2>1. n \notin R /\ own[n] = own2[n]
      BY <1>15, <1>22
    <2>2. CASE n = p
      BY <1>12, <1>20, <2>2
    <2>3. CASE n # p
      <3>1. Linked(m, own, pos, n, m.next[n])
        BY <1>22, <2>1 DEF Rep
      <3>2. m.next[n] # a
        BY <1>6, <1>9, <2>1, <3>1 DEF Linked
      <3>3. q.next[n] = m.next[n] /\ m.next[n] \in Node
        BY <1>12, <2>3, <3>1 DEF Linked
      <3> QED
        BY <1>21, <1>22, <2>1, <2>3, <3>1, <3>2, <3>3
    <2> QED
      BY <2>2, <2>3
  <1>23. ASSUME NEW n \in Node, own2[n] \in List, n # Head_(own2[n])
         PROVE  Linked(q, own2, pos2, q.prev[n], n)
    <2>1. n \notin R /\ own[n] = own2[n]
      BY <1>15, <1>23
    <2>2. CASE n = a
      BY <1>12, <1>20, <2>2
    <2>3. CASE n # a
      <3>1. PICK k : k = m.prev[n]
        OBVIOUS
      <3>2. Linked(m, own, pos, k, n)
        BY <1>23, <2>1, <3>1 DEF Rep
      <3>3. k \in Node /\ own[k] = own[n] /\ pos[n] = pos[k] + 1 /\ m.next[k] = n
        BY <3>2 DEF Linked
      <3>4. k # p
        BY <1>6, <1>9, <2>1, <3>3
      <3>5. k \notin R
        <4> SUFFICES ASSUME k \in R PROVE FALSE
          OBVIOUS
        <4>1. own[k] = l /\ i <= pos[k] /\ pos[k] <= j
          BY <1>8
        <4>2. pos[n] = j + 1
          BY <1>6, <1>7, <1>8, <2>1, <3>3, <4>1
        <4>3. n = a
          <5>1. own[n] \in List /\ own[n] = own[a] /\ pos[n] = pos[a] /\ a \in Node
            BY <1>6, <3>3, <4>1, <4>2
          <5> QED
            BY <5>1, OnePlace
        <4> QED
          BY <2>3, <4>3
      <3>6. q.prev[n] = k
        BY <1>12, <2>3, <3>1
      <3> QED
        BY <1>21, <1>23, <2>1, <2>3, <3>2, <3>3, <3>4, <3>5, <3>6
    <2> QED
      BY <2>2, <2>3
  <1>24. Rep(q, own2, pos2)
    BY <1>12, <1>19, <1>22, <1>23 DEF Rep, Shape
  <1>25. PICK rank : rank = RankFrom(R, pos, first)
    OBVIOUS
  <1>26. \A n \in R : rank[n] = pos[n] - i + 1
    BY <1>5, <1>25 DEF RankFrom
  <1>27. ASSUME NEW n \in R, n # last
         PROVE  q.next[n] \in R /\ rank[q.next[n]] = rank[n] + 1 /\ q.prev[q.next[n]] = n
    <2>1. PICK k : k = m.next[n]
      OBVIOUS
    <2>2. n # Tail_(l) /\ own[n] = l /\ n \in Node
      BY <1>10, NodeLemma
    <2>3. k \in Node /\ own[k] = l /\ pos[k] = pos[n] + 1 /\ m.prev[k] = n
      BY <2>1, <2>2 DEF Rep, Linked
    <2>4. pos[n] # j
      BY <1>2, <1>5, <1>27, <2>2, OnePlace
    <2>5. k \in R
      BY <1>7, <1>8, <2>2, <2>3, <2>4
    <2>6. q.next[n] = k /\ q.prev[k] = n
      BY <1>9, <1>12, <2>1, <2>2, <2>3, <2>5
    <2>7. rank[k] = rank[n] + 1
      BY <1>7, <1>26, <2>2, <2>3, <2>5
    <2> QED
      BY <2>5, <2>6, <2>7
  <1>28. ASSUME NEW n \in R, n # first
         PROVE  q.prev[n] \in R /\ rank[n] = rank[q.prev[n]] + 1 /\ q.next[q.prev[n]] = n
    <2>1. PICK k : k = m.prev[n]
      OBVIOUS
    <2>2. n # Head_(l) /\ own[n] = l /\ n \in Node
      BY <1>10, NodeLemma
    <2>3. k \in Node /\ own[k] = l /\ pos[n] = pos[k] + 1 /\ m.next[k] = n
      BY <2>1, <2>2 DEF Rep, Linked
    <2>4. pos[n] # i
      BY <1>2, <1>5, <1>28, <2>2, OnePlace
    <2>5. k \in R
      BY <1>7, <1>8, <2>2, <2>3, <2>4
    <2>6. q.prev[n] = k /\ q.next[k] = n
      BY <1>9, <1>12, <2>1, <2>2, <2>3, <2>5
    <2>7. rank[n] = rank[k] + 1
      BY <1>7, <1>26, <2>2, <2>3, <2>5
    <2> QED
      BY <2>5, <2>6, <2>7
  <1>29. rank \in [R -> Nat \ {0}] /\ rank[first] = 1 /\ \A n \in R : rank[n] <= rank[last]
    <2>1. \A n \in R : pos[n] \in Nat /\ i <= pos[n] /\ pos[n] <= j
      BY <1>7, <1>8
    <2>2. \A n \in R : rank[n] \in Nat \ {0}
      BY <1>26, <2>1
    <2>3. rank = [n \in R |-> rank[n]]
      BY <1>25 DEF RankFrom
    <2>4. rank[first] = i - i + 1 /\ rank[last] = j - i + 1
      BY <1>5, <1>9, <1>26
    <2>5. \A n \in R : rank[n] <= rank[last]
      BY <1>26, <2>1, <2>4
    <2> QED
      BY <2>2, <2>3, <2>4, <2>5
  <1>30. Run(q, own2, R, rank, first, last)
    BY <1>9, <1>10, <1>15, <1>27, <1>28, <1>29 DEF Run
  <1> QED
    BY <1>1, <1>10, <1>11, <1>13, <1>14, <1>24, <1>25, <1>30

--------------------------------------------------------------------------------
(***************************************************************************)
(* The assignments of the functions of list.c.                             *)
(***************************************************************************)

\* The places after an element e was put in before b.
InsPos(own, pos, b, e) ==
    [n \in Node |-> IF n = e THEN pos[b]
                    ELSE IF own[n] = own[b] /\ pos[n] >= pos[b] THEN pos[n] + 1 ELSE pos[n]]

\* An element that nobody owned is a run of its own.
LEMMA OneIn ==
    ASSUME NEW m, NEW own, NEW pos, Rep(m, own, pos), NEW b \in Node,
           NEW e \in Elem, own[e] \notin List, NEW rank, rank = [n \in {e} |-> 1]
    PROVE  /\ Run(m, own, {e}, rank, e, e) /\ rank[e] = 1
           /\ PutPos(own, pos, {e}, rank, b, e) = InsPos(own, pos, b, e)
  <1>1. own[e] = Nobody
    BY NodeLemma DEF Rep, Placed
  <1>2. rank \in [{e} -> Nat \ {0}] /\ rank[e] = 1
    OBVIOUS
  <1>3. Run(m, own, {e}, rank, e, e)
    BY <1>1, <1>2 DEF Run
  <1>4. PutPos(own, pos, {e}, rank, b, e) = InsPos(own, pos, b, e)
    <2>1. pos[b] \in Nat
      BY DEF Rep, Placed
    <2>2. pos[b] + 1 - 1 = pos[b]
      BY <2>1
    <2> QED
      BY <1>2, <2>2 DEF PutPos, InsPos
  <1> QED
    BY <1>2, <1>3, <1>4

LEMMA InsertLemma ==
    ASSUME NEW m, NEW own, NEW pos, Rep(m, own, pos),
           NEW b \in Node, own[b] \in List, b # Head_(own[b]),
           NEW e \in Elem, own[e] \notin List
    PROVE  Rep(list_insert(m, b, e), OwnBy(own, {e}, own[b]), InsPos(own, pos, b, e))
  <1>1. PICK rank : rank = [n \in {e} |-> 1]
    OBVIOUS
  <1>2. list_insert(m, b, e) = PutIn(m, b, e, e)
    BY DEF list_insert, PutIn
  <1> QED
    BY <1>1, <1>2, OneIn, PutInLemma

\* The places after an element was taken out.
RemPos(own, pos, e) ==
    [n \in Node |-> IF own[n] = own[e] /\ pos[n] > pos[e] THEN pos[n] - 1 ELSE pos[n]]

\* An element is taken out.
LEMMA OneOut ==
    ASSUME NEW m, NEW own, NEW pos, Rep(m, own, pos), NEW e \in Elem, own[e] \in List
    PROVE  /\ Between(own, pos, e, e) = {e}
           /\ TakePos(own, pos, e, e) = RemPos(own, pos, e)
  <1>1. e \in Node /\ pos[e] \in Nat /\ \A n \in Node : pos[n] \in Nat
    BY NodeLemma DEF Rep, Placed
  <1>2. Between(own, pos, e, e) = {e}
    <2>1. ASSUME NEW n \in Node, own[n] = own[e], pos[e] <= pos[n], pos[n] <= pos[e] PROVE n = e
      <3>1. pos[n] = pos[e]
        BY <1>1, <2>1
      <3> QED
        BY <1>1, <2>1, <3>1, OnePlace
    <2> QED
      BY <1>1, <2>1 DEF Between
  <1>3. pos[e] - pos[e] + 1 = 1
    BY <1>1
  <1>4. TakePos(own, pos, e, e) = RemPos(own, pos, e)
    BY <1>3 DEF TakePos, RemPos
  <1> QED
    BY <1>2, <1>4

LEMMA RemoveLemma ==
    ASSUME NEW m, NEW own, NEW pos, Rep(m, own, pos), NEW e \in Elem, own[e] \in List
    PROVE  /\ Rep(list_remove(m, e), OwnBy(own, {e}, Nobody), RemPos(own, pos, e))
           /\ list_remove(list_remove(m, e), e) = list_remove(m, e)
  <1>1. e \in Node /\ pos[e] \in Nat /\ \A n \in Node : pos[n] \in Nat
    BY NodeLemma DEF Rep, Placed
  <1>2. PICK R : R = Between(own, pos, e, e)
    OBVIOUS
  <1>3. list_remove(m, e) = TakenOut(m, e, e)
    BY DEF list_remove, TakenOut
  <1>4. Rep(list_remove(m, e), OwnBy(own, {e}, Nobody), RemPos(own, pos, e))
    <2>1. Rep(TakenOut(m, e, e), OwnBy(own, R, Nobody), TakePos(own, pos, e, e))
      BY <1>1, <1>2, TakenOutLemma
    <2> QED
      BY <1>2, <1>3, <2>1, OneOut
  <1>5. PICK p, a : p = m.prev[e] /\ a = m.next[e]
    OBVIOUS
  <1>6. Linked(m, own, pos, p, e) /\ Linked(m, own, pos, e, a)
    <2>1. e # Head_(own[e]) /\ e # Tail_(own[e])
      BY NodeLemma
    <2> QED
      BY <1>1, <1>5, <2>1 DEF Rep
  <1>7. p \in Node /\ a \in Node /\ p # e /\ a # e
    <2>1. p \in Node /\ a \in Node /\ pos[e] = pos[p] + 1 /\ pos[a] = pos[e] + 1
      BY <1>6 DEF Linked
    <2> QED
      BY <1>1, <2>1
  <1>8. PICK f, g : f = m.prev /\ g = m.next
    OBVIOUS
  <1>9. f \in [Node -> Node \cup {NULL}] /\ g \in [Node -> Node \cup {NULL}] /\ f[e] = p /\ g[e] = a
    BY <1>5, <1>8 DEF Rep, Shape
  <1>10. list_remove(m, e) = [prev |-> [f EXCEPT ![a] = p], next |-> [g EXCEPT ![p] = a]]
    BY <1>5, <1>8 DEF list_remove
  <1>11. PICK f2, g2 : f2 = [f EXCEPT ![a] = p] /\ g2 = [g EXCEPT ![p] = a]
    OBVIOUS
  <1>12. f2[e] = p /\ g2[e] = a /\ [f2 EXCEPT ![a] = p] = f2 /\ [g2 EXCEPT ![p] = a] = g2
    <2>1. f2[e] = p /\ g2[e] = a
      BY <1>7, <1>9, <1>11
    <2>2. f2[a] = p /\ f2 \in [Node -> Node \cup {NULL}]
      BY <1>7, <1>9, <1>11
    <2>3. g2[p] = a /\ g2 \in [Node -> Node \cup {NULL}]
      BY <1>7, <1>9, <1>11
    <2> QED
      BY <2>1, <2>2, <2>3
  <1>13. list_remove([prev |-> f2, next |-> g2], e)
           = [prev |-> [f2 EXCEPT ![g2[e]] = f2[e]], next |-> [g2 EXCEPT ![f2[e]] = g2[e]]]
    BY DEF list_remove
  <1>14. list_remove([prev |-> f2, next |-> g2], e) = [prev |-> f2, next |-> g2]
    BY <1>12, <1>13
  <1> QED
    BY <1>4, <1>10, <1>11, <1>14

\* An element that nobody owns is freed.
LEMMA FreedLemma ==
    ASSUME NEW m, NEW own, NEW pos, Rep(m, own, pos), NEW e \in Elem, own[e] \notin List
    PROVE  Rep(Freed(m, e), own, pos)
  <1>1. PICK q : q = Freed(m, e)
    OBVIOUS
  <1>2. /\ q = [prev |-> q.prev, next |-> q.next]
        /\ \A n \in Node : n # e => q.prev[n] = m.prev[n] /\ q.next[n] = m.next[n]
        /\ q.prev \in [Node -> Node \cup {NULL}] /\ q.next \in [Node -> Node \cup {NULL}]
    <2>1. m.prev \in [Node -> Node \cup {NULL}] /\ m.next \in [Node -> Node \cup {NULL}]
      BY DEF Rep, Shape
    <2>2. q = [prev |-> [m.prev EXCEPT ![e] = NULL], next |-> [m.next EXCEPT ![e] = NULL]]
      BY <1>1 DEF Freed
    <2>3. /\ q.prev = [m.prev EXCEPT ![e] = NULL] /\ q.next = [m.next EXCEPT ![e] = NULL]
          /\ q = [prev |-> q.prev, next |-> q.next]
      BY <2>2
    <2> QED
      BY <2>1, <2>3
  <1>3. ASSUME NEW n \in Node, NEW k \in Node, own[n] \in List, Linked(m, own, pos, n, k)
        PROVE  Linked(q, own, pos, n, k)
    <2>1. own[k] = own[n] /\ pos[k] = pos[n] + 1 /\ m.next[n] = k /\ m.prev[k] = n
      BY <1>3 DEF Linked
    <2>2. n # e /\ k # e
      BY <1>3, <2>1
    <2>3. q.next[n] = k /\ q.prev[k] = n
      BY <1>2, <2>1, <2>2
    <2> QED
      BY <2>1, <2>3 DEF Linked
  <1>4. ASSUME NEW n \in Node, own[n] \in List, n # Tail_(own[n])
        PROVE  Linked(q, own, pos, n, q.next[n])
    <2>1. Linked(m, own, pos, n, m.next[n])
      BY <1>4 DEF Rep
    <2>2. Linked(q, own, pos, n, m.next[n])
      BY <1>3, <1>4, <2>1 DEF Linked
    <2> QED
      BY <2>2 DEF Linked
  <1>5. ASSUME NEW n \in Node, own[n] \in List, n # Head_(own[n])
        PROVE  Linked(q, own, pos, q.prev[n], n)
    <2>1. Linked(m, own, pos, m.prev[n], n)
      BY <1>5 DEF Rep
    <2>2. own[m.prev[n]] \in List /\ m.prev[n] \in Node
      BY <1>5, <2>1 DEF Linked
    <2>3. Linked(q, own, pos, m.prev[n], n)
      BY <1>3, <2>1, <2>2
    <2> QED
      BY <2>3 DEF Linked
  <1>6. Shape(q) /\ Placed(own, pos)
    BY <1>2 DEF Shape, Rep
  <1> QED
    BY <1>1, <1>4, <1>5, <1>6 DEF Rep

\* The places after list_splice.
SpliceOwn(m, own, pos, b, first, end) ==
    LET R == Between(own, pos, first, m.prev[end])
    IN OwnBy(OwnBy(own, R, Nobody), R, own[b])

SplicePos(m, own, pos, b, first, end) ==
    LET last == m.prev[end]
        R == Between(own, pos, first, last)
    IN PutPos(OwnBy(own, R, Nobody), TakePos(own, pos, first, last), R, RankFrom(R, pos, first), b, last)

\* The place b is behind a head and not among the nodes that move.
SplicePlace(own, pos, b, first, end) ==
    /\ b \in Node /\ own[b] \in List /\ pos[b] > 0
    /\ own[b] = own[first] => pos[b] < pos[first] \/ pos[b] >= pos[end]

LEMMA SpliceLemma ==
    ASSUME NEW m, NEW own, NEW pos, Rep(m, own, pos),
           NEW first \in Elem, own[first] \in List,
           NEW end \in Node, own[end] = own[first], pos[first] < pos[end],
           NEW b, SplicePlace(own, pos, b, first, end)
    PROVE  Rep(list_splice(m, b, first, end), SpliceOwn(m, own, pos, b, first, end),
               SplicePos(m, own, pos, b, first, end))
  <1>1. PICK last : last = m.prev[end]
    OBVIOUS
  <1>2. first \in Node /\ \A n \in Node : pos[n] \in Nat
    BY NodeLemma DEF Rep, Placed
  <1>3. first # Head_(own[first]) /\ pos[first] # 0
    BY <1>2, NodeLemma, EndsLemma
  <1>4. last \in Node /\ own[last] = own[first] /\ pos[end] = pos[last] + 1
    <2>1. end # Head_(own[end])
      BY <1>2, EndsLemma
    <2> QED
      BY <1>1, <2>1 DEF Rep, Linked
  <1>5. pos[first] <= pos[last] /\ pos[last] < pos[end] /\ pos[last] # 0
    BY <1>2, <1>3, <1>4
  <1>6. last \in Elem
    <2>1. pos[end] <= pos[Tail_(own[first])] /\ pos[Tail_(own[first])] \in Nat
      BY EndsLemma
    <2>2. last # Tail_(own[first])
      BY <1>2, <1>4, <1>5, <2>1
    <2> QED
      BY <1>4, <1>5, <2>2, EndsLemma
  <1>7. PICK R : R = Between(own, pos, first, last)
    OBVIOUS
  <1>8. PICK q, own2, pos2, rank :
            /\ q = TakenOut(m, first, last) /\ own2 = OwnBy(own, R, Nobody)
            /\ pos2 = TakePos(own, pos, first, last) /\ rank = RankFrom(R, pos, first)
    OBVIOUS
  <1>9. Rep(q, own2, pos2) /\ Run(q, own2, R, rank, first, last)
    BY <1>4, <1>5, <1>6, <1>7, <1>8, TakenOutLemma
  <1>10. b \in Node /\ own2[b] = own[b] /\ own[b] \in List /\ b # Head_(own[b])
    <2>1. b \in Node /\ own[b] \in List /\ pos[b] > 0
      BY DEF SplicePlace
    <2>2. b \notin R
      BY <1>2, <1>4, <1>7 DEF Between, SplicePlace
    <2>3. own2[b] = own[b]
      BY <1>8, <2>1, <2>2 DEF OwnBy
    <2> QED
      BY <1>2, <2>1, <2>3, EndsLemma
  <1>11. Rep(PutIn(q, b, first, last), OwnBy(own2, R, own2[b]), PutPos(own2, pos2, R, rank, b, last))
    BY <1>9, <1>10, PutInLemma
  <1>12. list_splice(m, b, first, end) = PutIn(q, b, first, last)
    <2>1. first # end
      BY <1>2
    <2> QED
      BY <1>1, <1>8, <2>1 DEF list_splice
  <1> QED
    BY <1>1, <1>7, <1>8, <1>10, <1>11, <1>12 DEF SpliceOwn, SplicePos

\* The places after a list was turned round.
RevPos(own, pos, l) ==
    [n \in Node |-> IF n \in Elem /\ own[n] = l THEN pos[Tail_(l)] - pos[n] ELSE pos[n]]

\* A list that is not empty is turned round.
LEMMA ReverseLemma ==
    ASSUME NEW m, NEW own, NEW pos, Rep(m, own, pos), NEW l \in List,
           pos[Tail_(l)] > 1, NEW E, E = {n \in Elem : own[n] = l}
    PROVE  Rep(EndsExchanged(Exchanged(m, E), l), own, RevPos(own, pos, l))
  <1>1. PICK h, t : h = Head_(l) /\ t = Tail_(l)
    OBVIOUS
  <1>2. h \in Node /\ t \in Node /\ own[h] = l /\ own[t] = l /\ h # t /\ h \notin Elem /\ t \notin Elem
    BY <1>1, NodeLemma DEF Rep, Placed
  <1>3. PICK T \in Nat : T = pos[t] /\ T > 1
    BY <1>1, <1>2 DEF Rep, Placed
  <1>4. \A n \in Node : pos[n] \in Nat
    BY DEF Rep, Placed
  <1>5. pos[h] = 0
    BY <1>1 DEF Rep, Placed
  <1>6. E \subseteq Node /\ \A n \in E : n \in Elem /\ own[n] = l /\ n # h /\ n # t
    BY <1>2, NodeLemma
  <1>7. \A n \in Node : own[n] = l => n \in E \/ n = h \/ n = t
    BY <1>1, EndsLemma
  <1>8. PICK z, a : z = m.prev[t] /\ a = m.next[h]
    OBVIOUS
  <1>9. Linked(m, own, pos, z, t) /\ Linked(m, own, pos, h, a)
    BY <1>1, <1>2, <1>8 DEF Rep
  <1>10. z \in Node /\ own[z] = l /\ pos[z] = T - 1 /\ a \in Node /\ own[a] = l /\ pos[a] = 1
    <2>1. z \in Node /\ own[z] = l /\ T = pos[z] + 1
      BY <1>2, <1>3, <1>9 DEF Linked
    <2>2. a \in Node /\ own[a] = l /\ pos[a] = 1
      <3>1. a \in Node /\ own[a] = own[h] /\ pos[a] = pos[h] + 1
        BY <1>9 DEF Linked
      <3> QED
        BY <1>2, <1>5, <3>1
    <2> QED
      BY <1>4, <2>1, <2>2
  <1>11. z \in E /\ a \in E
    <2>1. z # h /\ z # t /\ a # h /\ a # t
      BY <1>3, <1>5, <1>10
    <2> QED
      BY <1>7, <1>10, <2>1
  <1>12. \A n \in Node : own[n] = l /\ pos[n] = 1 => n = a
    BY <1>10, OnePlace
  <1>13. \A n \in Node : own[n] = l /\ pos[n] = T - 1 => n = z
    BY <1>10, OnePlace
  <1>14. PICK x : x = Exchanged(m, E)
    OBVIOUS
  <1>15. /\ \A n \in Node : x.prev[n] = IF n \in E THEN m.next[n] ELSE m.prev[n]
         /\ \A n \in Node : x.next[n] = IF n \in E THEN m.prev[n] ELSE m.next[n]
         /\ x.prev \in [Node -> Node \cup {NULL}] /\ x.next \in [Node -> Node \cup {NULL}]
    <2>1. m.prev \in [Node -> Node \cup {NULL}] /\ m.next \in [Node -> Node \cup {NULL}]
      BY DEF Rep, Shape
    <2>2. /\ x.prev = [n \in Node |-> IF n \in E THEN m.next[n] ELSE m.prev[n]]
          /\ x.next = [n \in Node |-> IF n \in E THEN m.prev[n] ELSE m.next[n]]
      BY <1>14 DEF Exchanged
    <2> QED
      BY <2>1, <2>2
  <1>16. m.prev[a] = h /\ m.next[z] = t
    BY <1>9 DEF Linked
  <1>17. x.prev[t] = z /\ x.next[h] = a /\ x.next[a] = h /\ x.prev[z] = t
    <2>1. t \notin E /\ h \notin E
      BY <1>6
    <2> QED
      BY <1>2, <1>6, <1>8, <1>11, <1>15, <1>16, <2>1
  <1>18. PICK q : q = EndsExchanged(x, l)
    OBVIOUS
  <1>19. /\ q = [prev |-> q.prev, next |-> q.next]
         /\ \A n \in Node : q.prev[n] = IF n = z THEN h ELSE IF n = t THEN a ELSE x.prev[n]
         /\ \A n \in Node : q.next[n] = IF n = a THEN t ELSE IF n = h THEN z ELSE x.next[n]
         /\ q.prev \in [Node -> Node \cup {NULL}] /\ q.next \in [Node -> Node \cup {NULL}]
    <2>1. q = [prev |-> [x.prev EXCEPT ![t] = a, ![z] = x.next[a]],
               next |-> [x.next EXCEPT ![h] = z, ![a] = x.prev[z]]]
      BY <1>1, <1>17, <1>18 DEF EndsExchanged
    <2>2. /\ q.prev = [x.prev EXCEPT ![t] = a, ![z] = h] /\ q.next = [x.next EXCEPT ![h] = z, ![a] = t]
          /\ q = [prev |-> q.prev, next |-> q.next]
      BY <1>17, <2>1
    <2> QED
      BY <1>2, <1>10, <1>15, <2>2
  <1>20. PICK pos2 : pos2 = [n \in Node |-> IF n \in E THEN T - pos[n] ELSE pos[n]]
    OBVIOUS
  <1>21. \A n \in Node : pos2[n] = IF n \in E THEN T - pos[n] ELSE pos[n]
    BY <1>20
  <1>22. \A n \in E : pos[n] < T /\ pos[n] > 0
    <2> SUFFICES ASSUME NEW n \in E PROVE pos[n] < T /\ pos[n] > 0
      OBVIOUS
    <2>1. n \in Node /\ own[n] = l /\ n # h /\ n # t /\ pos[n] \in Nat
      BY <1>4, <1>6
    <2>2. pos[n] <= T
      BY <1>1, <1>3, <2>1 DEF Rep, Placed
    <2>3. pos[n] # T
      BY <1>2, <1>3, <2>1, OnePlace
    <2>4. pos[n] # 0
      BY <1>1, <2>1, EndsLemma
    <2> QED
      BY <2>1, <2>2, <2>3, <2>4
  <1>23. pos2 \in [Node -> Nat]
    <2>1. \A n \in Node : pos2[n] \in Nat
      BY <1>4, <1>21, <1>22
    <2> QED
      BY <1>20, <2>1
  <1>24. Placed(own, pos2)
    <2>1. \A k \in List : pos2[Head_(k)] = 0 /\ pos2[Tail_(k)] = pos[Tail_(k)]
      <3> SUFFICES ASSUME NEW k \in List
                   PROVE  pos2[Head_(k)] = 0 /\ pos2[Tail_(k)] = pos[Tail_(k)]
        OBVIOUS
      <3>1. Head_(k) \in Node /\ Tail_(k) \in Node /\ Head_(k) \notin E /\ Tail_(k) \notin E
        BY <1>6, NodeLemma
      <3>2. pos[Head_(k)] = 0
        BY DEF Rep, Placed
      <3> QED
        BY <1>21, <3>1, <3>2
    <2>2. ASSUME NEW n \in Node, own[n] \in List PROVE pos2[n] <= pos2[Tail_(own[n])]
      <3>1. pos[n] <= pos[Tail_(own[n])] /\ pos2[Tail_(own[n])] = pos[Tail_(own[n])]
        BY <2>1, <2>2 DEF Rep, Placed
      <3>2. CASE n \in E
        <4>1. pos[Tail_(own[n])] = T /\ pos2[n] = T - pos[n]
          BY <1>1, <1>3, <1>6, <1>21, <3>2
        <4> QED
          BY <1>4, <1>22, <3>1, <3>2, <4>1
      <3>3. CASE n \notin E
        BY <1>21, <3>1, <3>3
      <3> QED
        BY <3>2, <3>3
    <2>3. own \in [Node -> List \cup {Nobody}] /\ \A k \in List : own[Head_(k)] = k /\ own[Tail_(k)] = k
      BY DEF Rep, Placed
    <2> QED
      BY <1>23, <2>1, <2>2, <2>3 DEF Placed
  \* The kinds of neighbours.
  <1>25. Linked(q, own, pos2, h, z) /\ Linked(q, own, pos2, a, t)
    <2>1. h \notin E /\ t \notin E /\ z # t /\ a # h
      BY <1>6, <1>11
    <2>2. pos2[h] = 0 /\ pos2[z] = T - (T - 1) /\ pos2[a] = T - 1 /\ pos2[t] = T
      BY <1>2, <1>3, <1>5, <1>10, <1>11, <1>21, <2>1
    <2>3. pos2[z] = pos2[h] + 1 /\ pos2[t] = pos2[a] + 1
      BY <2>2
    <2>4. q.next[h] = z /\ q.prev[z] = h /\ q.next[a] = t /\ q.prev[t] = a
      BY <1>2, <1>10, <1>19, <2>1
    <2> QED
      BY <1>2, <1>10, <2>3, <2>4 DEF Linked
  <1>26. ASSUME NEW n \in E, NEW k \in E, pos[n] = pos[k] + 1, m.prev[n] = k, m.next[k] = n
         PROVE  Linked(q, own, pos2, n, k)
    <2>1. n # a /\ k # z /\ n # h /\ k # t
      <3>1. pos[k] # 0 /\ pos[n] # T /\ pos[k] \in Nat
        BY <1>4, <1>6, <1>22
      <3> QED
        BY <1>3, <1>6, <1>10, <1>26, <3>1
    <2>2. q.next[n] = k /\ q.prev[k] = n
      BY <1>6, <1>15, <1>19, <1>26, <2>1
    <2>3. pos2[k] = pos2[n] + 1
      BY <1>4, <1>6, <1>21, <1>26
    <2> QED
      BY <1>6, <2>2, <2>3 DEF Linked
  <1>27. ASSUME NEW n \in Node, NEW k \in Node, own[n] \in List, own[n] # l, Linked(m, own, pos, n, k)
         PROVE  Linked(q, own, pos2, n, k)
    <2>1. own[k] = own[n] /\ pos[k] = pos[n] + 1 /\ m.next[n] = k /\ m.prev[k] = n
      BY <1>27 DEF Linked
    <2>2. n \notin E /\ k \notin E /\ n # h /\ n # a /\ k # t /\ k # z
      BY <1>2, <1>6, <1>10, <1>27, <2>1
    <2>3. q.next[n] = k /\ q.prev[k] = n
      BY <1>15, <1>19, <2>1, <2>2
    <2>4. pos2[k] = pos2[n] + 1
      BY <1>21, <2>1, <2>2
    <2> QED
      BY <2>1, <2>3, <2>4 DEF Linked
  <1>28. ASSUME NEW n \in Node, own[n] \in List, n # Tail_(own[n])
         PROVE  Linked(q, own, pos2, n, q.next[n])
    <2>1. CASE own[n] # l
      <3>1. Linked(m, own, pos, n, m.next[n]) /\ m.next[n] \in Node
        BY <1>28 DEF Rep, Linked
      <3>2. Linked(q, own, pos2, n, m.next[n])
        BY <1>27, <1>28, <2>1, <3>1
      <3> QED
        BY <3>2 DEF Linked
    <2>2. CASE n = h \/ n = a
      BY <1>25, <2>2 DEF Linked
    <2>3. CASE own[n] = l /\ n # h /\ n # a
      <3>1. n \in E
        BY <1>1, <1>7, <1>28, <2>3
      <3>2. PICK k : k = m.prev[n]
        OBVIOUS
      <3>3. Linked(m, own, pos, k, n)
        BY <1>1, <1>28, <2>3, <3>2 DEF Rep
      <3>4. k \in Node /\ own[k] = l /\ pos[n] = pos[k] + 1 /\ m.next[k] = n
        BY <2>3, <3>3 DEF Linked
      <3>5. k # h /\ k # t
        BY <1>8, <1>3, <1>4, <1>22, <2>3, <3>1, <3>4
      <3>6. k \in E
        BY <1>7, <3>4, <3>5
      <3>7. Linked(q, own, pos2, n, k)
        BY <1>26, <3>1, <3>2, <3>4, <3>6
      <3> QED
        BY <3>7 DEF Linked
    <2> QED
      BY <2>1, <2>2, <2>3
  <1>29. ASSUME NEW n \in Node, own[n] \in List, n # Head_(own[n])
         PROVE  Linked(q, own, pos2, q.prev[n], n)
    <2>1. CASE own[n] # l
      <3>1. Linked(m, own, pos, m.prev[n], n) /\ m.prev[n] \in Node /\ own[m.prev[n]] = own[n]
        BY <1>29 DEF Rep, Linked
      <3>2. Linked(q, own, pos2, m.prev[n], n)
        BY <1>27, <1>29, <2>1, <3>1
      <3> QED
        BY <3>2 DEF Linked
    <2>2. CASE n = t \/ n = z
      BY <1>25, <2>2 DEF Linked
    <2>3. CASE own[n] = l /\ n # t /\ n # z
      <3>1. n \in E
        BY <1>1, <1>7, <1>29, <2>3
      <3>2. PICK k : k = m.next[n]
        OBVIOUS
      <3>3. Linked(m, own, pos, n, k)
        BY <1>1, <1>29, <2>3, <3>2 DEF Rep
      <3>4. k \in Node /\ own[k] = l /\ pos[k] = pos[n] + 1 /\ m.prev[k] = n
        BY <2>3, <3>3 DEF Linked
      <3>5. k # h /\ k # t
        BY <1>4, <1>5, <1>8, <2>3, <3>1, <3>4
      <3>6. k \in E
        BY <1>7, <3>4, <3>5
      <3>7. Linked(q, own, pos2, k, n)
        BY <1>26, <3>1, <3>2, <3>4, <3>6
      <3> QED
        BY <3>7 DEF Linked
    <2> QED
      BY <2>1, <2>2, <2>3
  <1>30. Rep(q, own, pos2)
    BY <1>19, <1>24, <1>28, <1>29 DEF Rep, Shape
  <1>31. pos2 = RevPos(own, pos, l)
    BY <1>1, <1>3, <1>20 DEF RevPos
  <1> QED
    BY <1>14, <1>18, <1>30, <1>31

--------------------------------------------------------------------------------
(***************************************************************************)
(* Walking.                                                                *)
(***************************************************************************)

\* The L nodes of t lead from one node to the end.
IsWalk(link, from, end, L, t) ==
    /\ end \in Node /\ L \in 0 .. Cardinality(Elem) /\ t = [k \in 1 .. L |-> t[k]]
    /\ \A k \in 1 .. L : t[k] \in Node /\ t[k] # end
    /\ \A k \in 1 .. L : link[t[k]] = IF k = L THEN end ELSE t[k + 1]
    /\ from = IF L = 0 THEN end ELSE t[1]

\* Walking along the links meets these nodes.
LEMMA WalkLemma ==
    ASSUME NEW link, NEW from, NEW end, NEW L, NEW t, IsWalk(link, from, end, L, t)
    PROVE  Along(link, from, end) = t
  <1> USE DEF IsWalk
  <1> DEFINE size == Cardinality(Elem)
             following == [n \in Node \cup {NULL} |-> IF n \in {end, NULL} THEN end ELSE link[n]]
             at[k \in 0 .. size] == IF k = 0 THEN from ELSE following[at[k - 1]]
             length == Min({k \in 0 .. size : at[k] = end} \cup {size + 1})
  <1>1. Along(link, from, end) = [k \in 1 .. length |-> at[k - 1]]
    BY DEF Along
  <1>2. size \in Nat /\ L \in Nat /\ L <= size
    BY LinkedListsAssumption, FS_CardinalityType
  <1>3. PICK u : u = [k \in 0 .. size |-> IF k < L THEN t[k + 1] ELSE end]
    OBVIOUS
  <1>4. u = [k \in 0 .. size |-> IF k = 0 THEN from ELSE following[u[k - 1]]]
    <2>1. ASSUME NEW k \in 0 .. size
          PROVE  (IF k < L THEN t[k + 1] ELSE end) = (IF k = 0 THEN from ELSE following[u[k - 1]])
      <3>1. CASE k = 0
        BY <1>2, <3>1
      <3>2. CASE k # 0
        <4>1. k - 1 \in 0 .. size /\ k \in Nat
          BY <1>2, <3>2
        <4>2. CASE k - 1 < L
          <5>1. k \in 1 .. L /\ u[k - 1] = t[k]
            BY <1>2, <1>3, <3>2, <4>1, <4>2
          <5>2. t[k] \in Node /\ t[k] # end /\ t[k] # NULL /\ link[t[k]] = IF k = L THEN end ELSE t[k + 1]
            BY <5>1, NodeLemma
          <5>3. following[u[k - 1]] = IF k = L THEN end ELSE t[k + 1]
            BY <5>1, <5>2
          <5> QED
            BY <1>2, <3>2, <4>1, <4>2, <5>3
        <4>3. CASE ~(k - 1 < L)
          <5>1. u[k - 1] = end /\ ~(k < L)
            BY <1>2, <1>3, <4>1, <4>3
          <5> QED
            BY <3>2, <5>1
        <4> QED
          BY <4>2, <4>3
      <3> QED
        BY <3>1, <3>2
    <2> QED
      BY <1>3, <2>1
  <1>5. \A k \in 0 .. size : at[k] = IF k = 0 THEN from ELSE following[at[k - 1]]
    <2>1. at = [k \in 0 .. size |-> IF k = 0 THEN from ELSE following[at[k - 1]]]
      BY <1>4, Zenon
    <2> HIDE DEF at, following
    <2> QED
      BY <2>1, Zenon
  <1> HIDE DEF at, following
  <1>6. \A k \in 0 .. size : at[k] = u[k]
    <2> DEFINE S == {k \in Nat : k <= size => at[k] = u[k]}
    <2>1. 0 \in S
      <3>1. 0 \in 0 .. size
        BY <1>2
      <3>2. at[0] = from
        BY <1>5, <3>1
      <3>3. u[0] = from
        BY <1>4, <3>1
      <3> QED
        BY <3>2, <3>3
    <2>2. ASSUME NEW k \in Nat, k \in S PROVE k + 1 \in S
      <3> SUFFICES ASSUME k + 1 <= size PROVE at[k + 1] = u[k + 1]
        OBVIOUS
      <3>1. k + 1 \in 0 .. size /\ k + 1 # 0 /\ (k + 1) - 1 = k
        BY <1>2
      <3>2. at[k + 1] = following[at[k]]
        BY <1>5, <3>1
      <3>3. u[k + 1] = following[u[k]]
        BY <1>4, <3>1
      <3>4. at[k] = u[k]
        BY <1>2, <2>2
      <3> QED
        BY <3>2, <3>3, <3>4
    <2> HIDE DEF S
    <2>3. \A k \in Nat : k \in S
      BY <2>1, <2>2, Induction
    <2> QED
      BY <2>3 DEF S
  <1>7. \A k \in 0 .. size : u[k] = end <=> k >= L
    BY <1>2, <1>3
  <1>8. length = L
    <2> DEFINE K == {k \in 0 .. size : at[k] = end} \cup {size + 1}
    <2>1. K = L .. size + 1
      BY <1>2, <1>6, <1>7
    <2>2. L \in L .. size + 1 /\ \A y \in L .. size + 1 : L <= y
      BY <1>2
    <2>3. \A x \in L .. size + 1 : (\A y \in L .. size + 1 : x <= y) => x = L
      BY <1>2
    <2>4. Min(L .. size + 1) = L
      BY <2>2, <2>3 DEF Min
    <2> QED
      BY <2>1, <2>4
  <1> HIDE DEF length
  <1>9. Along(link, from, end) = [k \in 1 .. L |-> at[k - 1]]
    BY <1>1, <1>8
  <1>10. \A k \in 1 .. L : at[k - 1] = t[k]
    <2> SUFFICES ASSUME NEW k \in 1 .. L PROVE at[k - 1] = t[k]
      OBVIOUS
    <2>1. k - 1 \in 0 .. size /\ k - 1 < L /\ (k - 1) + 1 = k
      BY <1>2
    <2>2. u[k - 1] = t[k]
      BY <1>3, <2>1
    <2> QED
      BY <1>6, <2>1, <2>2
  <1> QED
    BY <1>9, <1>10

\* The node at a place of a list.
NodeAt(own, pos, l, i) == CHOOSE n \in Node : own[n] = l /\ pos[n] = i

LEMMA NodeAtLemma ==
    ASSUME NEW m, NEW own, NEW pos, Rep(m, own, pos), NEW l \in List
    PROVE  /\ pos[Tail_(l)] \in Nat \ {0}
           /\ \A i \in 0 .. pos[Tail_(l)] : /\ NodeAt(own, pos, l, i) \in Node
                                            /\ own[NodeAt(own, pos, l, i)] = l
                                            /\ pos[NodeAt(own, pos, l, i)] = i
           /\ \A n \in Node : own[n] = l => n = NodeAt(own, pos, l, pos[n])
           /\ \A i \in 1 .. pos[Tail_(l)] :
                 /\ m.next[NodeAt(own, pos, l, i - 1)] = NodeAt(own, pos, l, i)
                 /\ m.prev[NodeAt(own, pos, l, i)] = NodeAt(own, pos, l, i - 1)
           /\ \A i \in 1 .. pos[Tail_(l)] - 1 : NodeAt(own, pos, l, i) \in Elem
           /\ NodeAt(own, pos, l, 0) = Head_(l) /\ NodeAt(own, pos, l, pos[Tail_(l)]) = Tail_(l)
  <1>1. Tail_(l) \in Node /\ own[Tail_(l)] = l /\ Head_(l) \in Node /\ own[Head_(l)] = l /\ pos[Head_(l)] = 0
    BY NodeLemma DEF Rep, Placed
  <1>2. PICK T : T = pos[Tail_(l)]
    OBVIOUS
  <1>3. T \in Nat \ {0}
    BY <1>1, <1>2, EndsLemma
  <1>4. \A i \in 0 .. T : /\ NodeAt(own, pos, l, i) \in Node
                          /\ own[NodeAt(own, pos, l, i)] = l
                          /\ pos[NodeAt(own, pos, l, i)] = i
    <2> SUFFICES ASSUME NEW i \in 0 .. T
                 PROVE  \E n \in Node : own[n] = l /\ pos[n] = i
      BY DEF NodeAt
    <2> QED
      BY <1>2, EveryPlace
  <1>5. \A n \in Node : own[n] = l => pos[n] \in 0 .. T
    BY <1>2, <1>3 DEF Rep, Placed
  <1>6. \A n \in Node : own[n] = l => n = NodeAt(own, pos, l, pos[n])
    BY <1>4, <1>5, OnePlace
  <1>7. \A i \in 1 .. T : /\ m.next[NodeAt(own, pos, l, i - 1)] = NodeAt(own, pos, l, i)
                          /\ m.prev[NodeAt(own, pos, l, i)] = NodeAt(own, pos, l, i - 1)
    <2> SUFFICES ASSUME NEW i \in 1 .. T
                 PROVE  /\ m.next[NodeAt(own, pos, l, i - 1)] = NodeAt(own, pos, l, i)
                        /\ m.prev[NodeAt(own, pos, l, i)] = NodeAt(own, pos, l, i - 1)
      OBVIOUS
    <2>1. PICK n : n = NodeAt(own, pos, l, i - 1)
      OBVIOUS
    <2>2. n \in Node /\ own[n] = l /\ pos[n] = i - 1
      BY <1>3, <1>4, <2>1
    <2>3. n # Tail_(l)
      BY <1>2, <1>3, <2>2
    <2>4. PICK k : k = m.next[n]
      OBVIOUS
    <2>5. Linked(m, own, pos, n, k)
      BY <2>2, <2>3, <2>4 DEF Rep
    <2>6. k \in Node /\ own[k] = l /\ pos[k] = i - 1 + 1 /\ m.prev[k] = n
      BY <2>2, <2>5 DEF Linked
    <2>7. pos[k] = i
      BY <2>6
    <2>8. k = NodeAt(own, pos, l, i)
      BY <1>6, <2>6, <2>7
    <2> QED
      BY <2>1, <2>4, <2>6, <2>8
  <1>8. \A i \in 1 .. T - 1 : NodeAt(own, pos, l, i) \in Elem
    <2> SUFFICES ASSUME NEW i \in 1 .. T - 1 PROVE NodeAt(own, pos, l, i) \in Elem
      OBVIOUS
    <2>1. PICK n : n = NodeAt(own, pos, l, i)
      OBVIOUS
    <2>2. n \in Node /\ own[n] = l /\ pos[n] = i /\ i # 0 /\ i # T
      BY <1>3, <1>4, <2>1
    <2>3. n # Head_(l) /\ n # Tail_(l)
      BY <1>1, <1>2, <2>2
    <2> QED
      BY <2>1, <2>2, <2>3, EndsLemma
  <1>9. NodeAt(own, pos, l, 0) = Head_(l) /\ NodeAt(own, pos, l, T) = Tail_(l)
    BY <1>1, <1>2, <1>6
  <1> QED
    BY <1>2, <1>3, <1>4, <1>6, <1>7, <1>8, <1>9

\* There are no more elements in a list than there are.
LEMMA BoundLemma ==
    ASSUME NEW m, NEW own, NEW pos, Rep(m, own, pos), NEW l \in List
    PROVE  pos[Tail_(l)] - 1 <= Cardinality(Elem)
  <1>1. PICK T \in Nat \ {0} : T = pos[Tail_(l)]
    BY NodeAtLemma
  <1>2. PICK f : f = [i \in 1 .. T - 1 |-> NodeAt(own, pos, l, i)]
    OBVIOUS
  <1>3. \A i \in 1 .. T - 1 : f[i] \in Elem /\ pos[f[i]] = i
    <2> SUFFICES ASSUME NEW i \in 1 .. T - 1 PROVE f[i] \in Elem /\ pos[f[i]] = i
      OBVIOUS
    <2>1. i \in 0 .. T
      BY <1>1
    <2> QED
      BY <1>1, <1>2, <2>1, NodeAtLemma
  <1>4. f \in Injection(1 .. T - 1, Elem)
    BY <1>2, <1>3 DEF Injection, IsInjective
  <1>5. Cardinality(1 .. T - 1) <= Cardinality(Elem)
    BY <1>4, LinkedListsAssumption, FS_Injection
  <1>6. Cardinality(1 .. T - 1) = T - 1
    <2>1. PICK j \in Nat : j = T - 1
      BY <1>1
    <2>2. Cardinality(1 .. j) = IF 1 > j THEN 0 ELSE j - 1 + 1
      BY FS_Interval
    <2>3. Cardinality(1 .. j) = j
      BY <2>2
    <2> QED
      BY <2>1, <2>3
  <1> QED
    BY <1>1, <1>5, <1>6

\* Forwards from a node on, the nodes in the places behind it are met.
LEMMA AlongNextLemma ==
    ASSUME NEW m, NEW own, NEW pos, Rep(m, own, pos), NEW l \in List,
           NEW a \in Node, own[a] = l, pos[a] > 0
    PROVE  Along(m.next, a, Tail_(l))
             = [k \in 1 .. pos[Tail_(l)] - pos[a] |-> NodeAt(own, pos, l, pos[a] + k - 1)]
  <1>1. PICK T \in Nat \ {0} : T = pos[Tail_(l)]
    BY NodeAtLemma
  <1>2. PICK j \in Nat : j = pos[a] /\ j > 0 /\ j <= T
    BY <1>1 DEF Rep, Placed
  <1>3. T - j \in 0 .. Cardinality(Elem)
    BY <1>1, <1>2, BoundLemma, LinkedListsAssumption, FS_CardinalityType
  <1>4. PICK L \in 0 .. Cardinality(Elem) : L = T - j
    BY <1>3
  <1>5. PICK t : t = [k \in 1 .. L |-> NodeAt(own, pos, l, j + k - 1)]
    OBVIOUS
  <1>6. \A i \in 0 .. T : NodeAt(own, pos, l, i) \in Node /\ pos[NodeAt(own, pos, l, i)] = i
    BY <1>1, NodeAtLemma
  <1>7. \A i \in 1 .. T : m.next[NodeAt(own, pos, l, i - 1)] = NodeAt(own, pos, l, i)
    BY <1>1, NodeAtLemma
  <1>8. L \in Nat
    BY <1>1, <1>2, <1>4
  <1>9. ASSUME NEW k \in 1 .. L
        PROVE  /\ t[k] \in Node /\ t[k] # Tail_(l)
               /\ m.next[t[k]] = IF k = L THEN Tail_(l) ELSE t[k + 1]
    <2>1. PICK i \in Nat : i = j + k - 1
      BY <1>2, <1>8
    <2>2. i \in 0 .. T /\ i # T /\ i + 1 \in 1 .. T /\ (i + 1) - 1 = i
      BY <1>1, <1>2, <1>4, <1>8, <2>1
    <2>3. t[k] = NodeAt(own, pos, l, i)
      BY <1>5, <2>1
    <2>4. m.next[t[k]] = NodeAt(own, pos, l, i + 1)
      BY <1>7, <2>2, <2>3
    <2>5. CASE k = L
      <3>1. i + 1 = T
        BY <1>1, <1>2, <1>4, <2>1, <2>5
      <3>2. NodeAt(own, pos, l, i + 1) = Tail_(l)
        BY <1>1, <3>1, NodeAtLemma
      <3> QED
        BY <1>1, <1>6, <2>2, <2>3, <2>4, <2>5, <3>2
    <2>6. CASE k # L
      <3>1. k + 1 \in 1 .. L /\ j + (k + 1) - 1 = i + 1
        BY <1>2, <1>8, <2>1, <2>6
      <3>2. t[k + 1] = NodeAt(own, pos, l, i + 1)
        BY <1>5, <3>1
      <3> QED
        BY <1>1, <1>6, <2>2, <2>3, <2>4, <2>6, <3>2
    <2> QED
      BY <2>5, <2>6
  <1>10. a = IF L = 0 THEN Tail_(l) ELSE t[1]
    <2>1. a = NodeAt(own, pos, l, j)
      BY <1>2, NodeAtLemma
    <2>2. CASE L = 0
      <3>1. j = T
        BY <1>1, <1>2, <1>4, <2>2
      <3> QED
        BY <1>1, <2>1, <2>2, <3>1, NodeAtLemma
    <2>3. CASE L # 0
      <3>1. 1 \in 1 .. L /\ j + 1 - 1 = j
        BY <1>2, <1>8, <2>3
      <3> QED
        BY <1>5, <2>1, <2>3, <3>1
    <2> QED
      BY <2>2, <2>3
  <1>11. Tail_(l) \in Node /\ t = [k \in 1 .. L |-> t[k]]
    BY <1>5, NodeLemma
  <1>12. Along(m.next, a, Tail_(l)) = t
    <2>1. PICK link, end, from : link = m.next /\ end = Tail_(l) /\ from = a
      OBVIOUS
    <2>2. end \in Node /\ t = [k \in 1 .. L |-> t[k]]
      BY <1>9, <1>10, <1>11, <2>1
    <2>3. \A k \in 1 .. L : t[k] \in Node /\ t[k] # end
      BY <1>9, <1>10, <1>11, <2>1
    <2>4. \A k \in 1 .. L : link[t[k]] = IF k = L THEN end ELSE t[k + 1]
      BY <1>9, <1>10, <1>11, <2>1
    <2>5. from = IF L = 0 THEN end ELSE t[1]
      BY <1>9, <1>10, <1>11, <2>1
    <2>6. IsWalk(link, from, end, L, t)
      BY <2>2, <2>3, <2>4, <2>5 DEF IsWalk
    <2>7. Along(link, from, end) = t
      BY <2>6, WalkLemma
    <2> QED
      BY <2>1, <2>7
  <1> QED
    BY <1>1, <1>2, <1>4, <1>5, <1>12

\* Backwards from the tail on, those before it.
LEMMA AlongPrevLemma ==
    ASSUME NEW m, NEW own, NEW pos, Rep(m, own, pos), NEW l \in List
    PROVE  Along(m.prev, m.prev[Tail_(l)], Head_(l))
             = [k \in 1 .. pos[Tail_(l)] - 1 |-> NodeAt(own, pos, l, pos[Tail_(l)] - k)]
  <1>1. PICK T \in Nat \ {0} : T = pos[Tail_(l)]
    BY NodeAtLemma
  <1>2. PICK L \in 0 .. Cardinality(Elem) : L = T - 1
    BY <1>1, BoundLemma, LinkedListsAssumption, FS_CardinalityType
  <1>3. L \in Nat
    BY <1>1, <1>2
  <1>4. PICK t : t = [k \in 1 .. L |-> NodeAt(own, pos, l, T - k)]
    OBVIOUS
  <1>5. \A i \in 0 .. T : NodeAt(own, pos, l, i) \in Node /\ pos[NodeAt(own, pos, l, i)] = i
    BY <1>1, NodeAtLemma
  <1>6. \A i \in 1 .. T : m.prev[NodeAt(own, pos, l, i)] = NodeAt(own, pos, l, i - 1)
    BY <1>1, NodeAtLemma
  <1>7. pos[Head_(l)] = 0 /\ Head_(l) \in Node
    BY NodeLemma DEF Rep, Placed
  <1>8. ASSUME NEW k \in 1 .. L
        PROVE  /\ t[k] \in Node /\ t[k] # Head_(l)
               /\ m.prev[t[k]] = IF k = L THEN Head_(l) ELSE t[k + 1]
    <2>1. PICK i \in Nat : i = T - k /\ i # 0
      BY <1>1, <1>2
    <2>2. i \in 0 .. T /\ i \in 1 .. T
      BY <1>1, <2>1
    <2>3. t[k] = NodeAt(own, pos, l, i)
      BY <1>4, <2>1
    <2>4. m.prev[t[k]] = NodeAt(own, pos, l, i - 1)
      BY <1>6, <2>2, <2>3
    <2>5. t[k] \in Node /\ t[k] # Head_(l)
      BY <1>5, <1>7, <2>1, <2>2, <2>3
    <2>6. CASE k = L
      <3>1. i - 1 = 0
        BY <1>1, <1>2, <2>1, <2>6
      <3>2. NodeAt(own, pos, l, i - 1) = Head_(l)
        BY <3>1, NodeAtLemma
      <3> QED
        BY <2>4, <2>5, <2>6, <3>2
    <2>7. CASE k # L
      <3>1. k + 1 \in 1 .. L /\ T - (k + 1) = i - 1
        BY <1>1, <1>3, <2>1, <2>7
      <3>2. t[k + 1] = NodeAt(own, pos, l, i - 1)
        BY <1>4, <3>1
      <3> QED
        BY <2>4, <2>5, <2>7, <3>2
    <2> QED
      BY <2>6, <2>7
  <1>9. m.prev[Tail_(l)] = NodeAt(own, pos, l, T - 1)
    <2>1. T \in 1 .. T
      BY <1>1
    <2>2. NodeAt(own, pos, l, T) = Tail_(l)
      BY <1>1, NodeAtLemma
    <2> QED
      BY <1>6, <2>1, <2>2
  <1>10. m.prev[Tail_(l)] = IF L = 0 THEN Head_(l) ELSE t[1]
    <2>1. CASE L = 0
      <3>1. T - 1 = 0
        BY <1>1, <1>2, <2>1
      <3> QED
        BY <1>9, <2>1, <3>1, NodeAtLemma
    <2>2. CASE L # 0
      <3>1. 1 \in 1 .. L
        BY <1>3, <2>2
      <3> QED
        BY <1>4, <1>9, <2>2, <3>1
    <2> QED
      BY <2>1, <2>2
  <1>11. t = [k \in 1 .. L |-> t[k]]
    BY <1>4
  <1>12. Along(m.prev, m.prev[Tail_(l)], Head_(l)) = t
    <2>1. PICK link, end, from : link = m.prev /\ end = Head_(l) /\ from = m.prev[Tail_(l)]
      OBVIOUS
    <2>2. end \in Node /\ t = [k \in 1 .. L |-> t[k]]
      BY <1>7, <1>8, <1>10, <1>11, <2>1
    <2>3. \A k \in 1 .. L : t[k] \in Node /\ t[k] # end
      BY <1>7, <1>8, <1>10, <1>11, <2>1
    <2>4. \A k \in 1 .. L : link[t[k]] = IF k = L THEN end ELSE t[k + 1]
      BY <1>7, <1>8, <1>10, <1>11, <2>1
    <2>5. from = IF L = 0 THEN end ELSE t[1]
      BY <1>7, <1>8, <1>10, <1>11, <2>1
    <2>6. IsWalk(link, from, end, L, t)
      BY <2>2, <2>3, <2>4, <2>5 DEF IsWalk
    <2>7. Along(link, from, end) = t
      BY <2>6, WalkLemma
    <2> QED
      BY <2>1, <2>7
  <1> QED
    BY <1>1, <1>2, <1>4, <1>12

\* Walking along one list, forwards and backwards.
Walk(m, l) == Along(m.next, m.next[Head_(l)], Tail_(l))

WalkBack(m, l) == Along(m.prev, m.prev[Tail_(l)], Head_(l))

\* What they meet.
ContentOf(own, pos, l) == [k \in 1 .. pos[Tail_(l)] - 1 |-> NodeAt(own, pos, l, k)]

LEMMA PlacesLemma ==
    ASSUME NEW m, NEW own, NEW pos, Rep(m, own, pos), NEW l \in List
    PROVE  /\ Walk(m, l) = ContentOf(own, pos, l)
           /\ WalkBack(m, l) = Reverse(Walk(m, l))
           /\ Walk(m, l) \in Seq(Elem) /\ Len(Walk(m, l)) = pos[Tail_(l)] - 1
           /\ ToSet(Walk(m, l)) = {n \in Elem : own[n] = l}
           /\ Walk(m, l) # <<>> <=> pos[Tail_(l)] > 1
           /\ m.next[Head_(l)] \in Node /\ own[m.next[Head_(l)]] = l /\ pos[m.next[Head_(l)]] = 1
  <1>1. PICK T \in Nat \ {0} : T = pos[Tail_(l)]
    BY NodeAtLemma
  <1>2. PICK a : a = m.next[Head_(l)]
    OBVIOUS
  <1>3. a = NodeAt(own, pos, l, 1)
    <2>1. 1 \in 1 .. T /\ 1 - 1 = 0
      BY <1>1
    <2>2. m.next[NodeAt(own, pos, l, 1 - 1)] = NodeAt(own, pos, l, 1)
      BY <1>1, <2>1, NodeAtLemma
    <2>3. NodeAt(own, pos, l, 0) = Head_(l)
      BY NodeAtLemma
    <2> QED
      BY <1>2, <2>1, <2>2, <2>3
  <1>4. a \in Node /\ own[a] = l /\ pos[a] = 1
    <2>1. 1 \in 0 .. T
      BY <1>1
    <2> QED
      BY <1>1, <1>3, <2>1, NodeAtLemma
  <1>5. Walk(m, l) = [k \in 1 .. T - 1 |-> NodeAt(own, pos, l, k)]
    <2>1. Walk(m, l) = [k \in 1 .. T - 1 |-> NodeAt(own, pos, l, 1 + k - 1)]
      <3>1. Walk(m, l) = Along(m.next, a, Tail_(l))
        BY <1>2 DEF Walk
      <3> QED
        BY <1>1, <1>4, <3>1, AlongNextLemma
    <2>2. \A k \in 1 .. T - 1 : 1 + k - 1 = k
      BY <1>1
    <2> QED
      BY <2>1, <2>2
  <1>6. \A k \in 1 .. T - 1 : NodeAt(own, pos, l, k) \in Elem
    BY <1>1, NodeAtLemma
  <1>7. PICK s : s = Walk(m, l)
    OBVIOUS
  <1>8. PICK j \in Nat : j = T - 1
    BY <1>1
  <1>9. s = [k \in 1 .. j |-> NodeAt(own, pos, l, k)] /\ s \in Seq(Elem) /\ Len(s) = j /\ DOMAIN s = 1 .. j
    <2>1. s = [k \in 1 .. j |-> NodeAt(own, pos, l, k)]
      BY <1>5, <1>7, <1>8
    <2>2. s \in [1 .. j -> Elem]
      BY <1>6, <1>8, <2>1
    <2> QED
      BY <2>1, <2>2
  <1>10. WalkBack(m, l) = Reverse(s)
    <2>1. WalkBack(m, l) = [k \in 1 .. j |-> NodeAt(own, pos, l, T - k)]
      BY <1>1, <1>8, AlongPrevLemma DEF WalkBack
    <2>2. Reverse(s) = [k \in 1 .. j |-> s[(j - k) + 1]]
      BY <1>9 DEF Reverse
    <2>3. \A k \in 1 .. j : (j - k) + 1 \in 1 .. j /\ (j - k) + 1 = T - k
      BY <1>1, <1>8
    <2>4. \A k \in 1 .. j : s[(j - k) + 1] = NodeAt(own, pos, l, T - k)
      BY <1>9, <2>3
    <2> QED
      BY <2>1, <2>2, <2>4
  <1>11. ToSet(s) = {n \in Elem : own[n] = l}
    <2>1. ASSUME NEW n \in ToSet(s) PROVE n \in Elem /\ own[n] = l
      <3>1. PICK k \in 1 .. j : n = NodeAt(own, pos, l, k)
        BY <1>9, <2>1 DEF ToSet
      <3>2. k \in 0 .. T /\ k \in 1 .. T - 1
        BY <1>1, <1>8
      <3> QED
        BY <1>1, <1>6, <3>1, <3>2, NodeAtLemma
    <2>2. ASSUME NEW n \in Elem, own[n] = l PROVE n \in ToSet(s)
      <3>1. n \in Node /\ n # Head_(l) /\ n # Tail_(l)
        BY NodeLemma
      <3>2. n = NodeAt(own, pos, l, pos[n])
        BY <2>2, <3>1, NodeAtLemma
      <3>3. pos[n] # 0 /\ pos[n] \in Nat /\ pos[n] <= T
        BY <1>1, <2>2, <3>1, EndsLemma
      <3>4. pos[n] # T
        BY <1>1, <2>2, <3>1, <3>2, NodeAtLemma
      <3>5. pos[n] \in 1 .. j
        BY <1>1, <1>8, <3>3, <3>4
      <3> QED
        BY <1>9, <3>2, <3>5 DEF ToSet
    <2> QED
      BY <2>1, <2>2
  <1>12. s # <<>> <=> T > 1
    BY <1>1, <1>8, <1>9
  <1> QED
    BY <1>1, <1>2, <1>4, <1>5, <1>7, <1>9, <1>10, <1>11, <1>12 DEF ContentOf

\* The nodes walked along are where their places say, and no others.
LEMMA WalkPlacesLemma ==
    ASSUME NEW m, NEW own, NEW pos, Rep(m, own, pos), NEW l \in List
    PROVE  /\ pos[Tail_(l)] \in Nat \ {0} /\ DOMAIN Walk(m, l) = 1 .. pos[Tail_(l)] - 1
           /\ \A k \in 1 .. pos[Tail_(l)] - 1 : /\ Walk(m, l)[k] \in Elem
                                                /\ own[Walk(m, l)[k]] = l /\ pos[Walk(m, l)[k]] = k
           /\ \A n \in Elem : own[n] = l => pos[n] \in 1 .. pos[Tail_(l)] - 1 /\ Walk(m, l)[pos[n]] = n
  <1>1. PICK T \in Nat \ {0} : T = pos[Tail_(l)]
    BY NodeAtLemma
  <1>2. PICK s : s = Walk(m, l)
    OBVIOUS
  <1>3. s = [k \in 1 .. T - 1 |-> NodeAt(own, pos, l, k)]
    BY <1>1, <1>2, PlacesLemma DEF ContentOf
  <1>4. \A k \in 1 .. T - 1 : s[k] \in Elem /\ own[s[k]] = l /\ pos[s[k]] = k
    <2> SUFFICES ASSUME NEW k \in 1 .. T - 1 PROVE s[k] \in Elem /\ own[s[k]] = l /\ pos[s[k]] = k
      OBVIOUS
    <2>1. k \in 0 .. T
      BY <1>1
    <2> QED
      BY <1>1, <1>3, <2>1, NodeAtLemma
  <1>5. ASSUME NEW n \in Elem, own[n] = l PROVE pos[n] \in 1 .. T - 1 /\ s[pos[n]] = n
    <2>1. n \in Node /\ n # Head_(l) /\ n # Tail_(l) /\ n = NodeAt(own, pos, l, pos[n])
      BY <1>5, NodeLemma, NodeAtLemma
    <2>2. pos[n] # 0 /\ pos[n] \in Nat /\ pos[n] <= T
      BY <1>1, <1>5, <2>1, EndsLemma
    <2>3. pos[n] # T
      BY <1>1, <1>5, <2>1, NodeAtLemma
    <2>4. pos[n] \in 1 .. T - 1
      BY <1>1, <2>2, <2>3
    <2> QED
      BY <1>3, <2>1, <2>4
  <1> QED
    BY <1>1, <1>2, <1>3, <1>4, <1>5

\* A sequence with each element in its place is the one walked along.
LEMMA ContentLemma ==
    ASSUME NEW m, NEW own, NEW pos, Rep(m, own, pos), NEW l \in List,
           NEW t \in Seq(Elem), Len(t) = pos[Tail_(l)] - 1,
           \A k \in 1 .. Len(t) : own[t[k]] = l /\ pos[t[k]] = k
    PROVE  Walk(m, l) = t
  <1>1. PICK N \in Nat : N = Len(t) /\ N = pos[Tail_(l)] - 1
    OBVIOUS
  <1>2. Walk(m, l) \in Seq(Elem) /\ Len(Walk(m, l)) = N
    BY <1>1, PlacesLemma
  <1>3. ASSUME NEW k \in 1 .. N PROVE Walk(m, l)[k] = t[k]
    <2>1. t[k] \in Elem /\ own[t[k]] = l /\ pos[t[k]] = k
      BY <1>1
    <2> QED
      BY <2>1, WalkPlacesLemma
  <1> QED
    BY <1>1, <1>2, <1>3, SeqEqual

LEMMA ForwardLemma ==
    ASSUME NEW own, NEW pos, Rep(links, own, pos), NEW l \in List
    PROVE  /\ Forward(l) = ContentOf(own, pos, l)
           /\ Backward(l) = Reverse(Forward(l))
           /\ Forward(l) \in Seq(Elem)
           /\ ToSet(Forward(l)) = {n \in Elem : own[n] = l}
           /\ Forward(l) # <<>> <=> pos[Tail_(l)] > 1
           /\ list_begin(l) \in Node /\ own[list_begin(l)] = l /\ pos[list_begin(l)] = 1
  <1>1. /\ Forward(l) = Walk(links, l) /\ Backward(l) = WalkBack(links, l)
        /\ list_begin(l) = links.next[Head_(l)]
    BY DEF Forward, Backward, Walk, WalkBack, list_begin, list_rbegin
  <1> QED
    BY <1>1, PlacesLemma

\* An element is listed if it has an owner; something can be put before a node that
\* has one and is no head.
LEMMA ListedLemma ==
    ASSUME NEW own, NEW pos, Rep(links, own, pos)
    PROVE  /\ \A e : e \in Listed <=> e \in Elem /\ own[e] \in List
           /\ \A b \in Places : b \in Node /\ own[b] \in List /\ b # Head_(own[b]) /\ pos[b] > 0
  <1>1. ASSUME NEW e PROVE e \in Listed <=> e \in Elem /\ own[e] \in List
    BY ForwardLemma DEF Listed
  <1>2. ASSUME NEW b \in Places
        PROVE  b \in Node /\ own[b] \in List /\ b # Head_(own[b]) /\ pos[b] > 0
    <2>1. b \in Node /\ own[b] \in List /\ b # Head_(own[b])
      <3>1. CASE b \in Listed
        BY <1>1, <3>1, NodeLemma
      <3>2. CASE b \notin Listed
        <4>1. PICK l \in List : b = Tail_(l)
          BY <3>2 DEF Places
        <4> QED
          BY <4>1, NodeLemma DEF Rep, Placed
      <3> QED
        BY <3>1, <3>2
    <2>2. pos[b] # 0 /\ pos[b] \in Nat
      BY <2>1, EndsLemma
    <2> QED
      BY <2>1, <2>2
  <1> QED
    BY <1>1, <1>2

\* Both directions then agree, whatever job there is.
LEMMA AgreeLemma ==
    ASSUME NEW own, NEW pos, Rep(links, own, pos)
    PROVE  BothWaysAgree
  <1>1. ASSUME NEW l \in List
        PROVE  Backward(l) = Reverse(Forward(l)) /\ ToSet(Forward(l)) \subseteq Elem
    BY ForwardLemma
  <1>2. ASSUME NEW l \in List, NEW k \in List, l # k
        PROVE  ToSet(Forward(l)) \cap ToSet(Forward(k)) = {}
    <2>1. /\ ToSet(Forward(l)) = {n \in Elem : own[n] = l}
          /\ ToSet(Forward(k)) = {n \in Elem : own[n] = k}
      BY ForwardLemma
    <2> QED
      BY <1>2, <2>1
  <1> QED
    BY <1>1, <1>2 DEF BothWaysAgree

--------------------------------------------------------------------------------
(***************************************************************************)
(* The operations of ElementLists.                                         *)
(***************************************************************************)

LEMMA SameCardinality == ASSUME NEW S PROVE Abstract!Cardinality(S) = Cardinality(S)
  BY DEF Abstract!Cardinality, Cardinality

\* The places of P from the least to the greatest are at[1], at[2] and so on.
Enumerates(at, N, P) ==
    /\ \A k \in 1 .. N : at[k] \in P
    /\ \A i, k \in 1 .. N : i < k => at[i] < at[k]
    /\ \A i \in P : \E k \in 1 .. N : at[k] = i

LEMMA CountLemma ==
    ASSUME NEW N \in Nat, NEW P \in SUBSET Nat, NEW at, Enumerates(at, N, P)
    PROVE  Abstract!Cardinality(P) = N
  <1>1. PICK f : f = [k \in 1 .. N |-> at[k]]
    OBVIOUS
  <1>2. \A k \in 1 .. N : f[k] \in P /\ f[k] = at[k]
    BY <1>1 DEF Enumerates
  <1>3. \A i, k \in 1 .. N : f[i] = f[k] => i = k
    <2> SUFFICES ASSUME NEW i \in 1 .. N, NEW k \in 1 .. N, at[i] = at[k], i < k PROVE FALSE
      BY <1>2
    <2>1. at[i] < at[k] /\ at[i] \in Nat /\ at[k] \in Nat
      BY DEF Enumerates
    <2> QED
      BY <2>1
  <1>4. \A i \in P : \E k \in 1 .. N : f[k] = i
    BY <1>2 DEF Enumerates
  <1>5. f \in Bijection(1 .. N, P)
    BY <1>1, <1>2, <1>3, <1>4 DEF Bijection, Injection, Surjection, IsInjective
  <1>6. ExistsBijection(1 .. N, P)
    BY <1>5 DEF ExistsBijection
  <1>7. IsFiniteSet(1 .. N) /\ Cardinality(1 .. N) = IF 1 > N THEN 0 ELSE N - 1 + 1
    BY FS_Interval
  <1>8. Cardinality(1 .. N) = N
    BY <1>7
  <1> QED
    BY <1>6, <1>7, <1>8, FS_Bijection, SameCardinality

\* What u has in the places at.
Picked(u, at) == [k \in 1 .. Len(at) |-> u[at[k]]]

LEMMA ChosenLemma ==
    ASSUME NEW P \in SUBSET Nat, NEW at \in Seq(Nat), Enumerates(at, Len(at), P), NEW s
    PROVE  Abstract!Chosen(s, P) = Picked(s, at)
  <1>0. PICK N \in Nat : N = Len(at) /\ Enumerates(at, N, P)
    OBVIOUS
  <1>1. ASSUME NEW k \in 1 .. N PROVE Abstract!Cardinality({j \in P : j <= at[k]}) = k
    <2>1. PICK Q : Q = {j \in P : j <= at[k]}
      OBVIOUS
    <2>2. \A i \in 1 .. N : at[i] \in P /\ at[i] \in Nat
      BY <1>0 DEF Enumerates
    <2>3. \A i \in 1 .. N : at[i] <= at[k] <=> i <= k
      <3> SUFFICES ASSUME NEW i \in 1 .. N PROVE at[i] <= at[k] <=> i <= k
        OBVIOUS
      <3>1. (i < k => at[i] < at[k]) /\ (k < i => at[k] < at[i])
        BY <1>0 DEF Enumerates
      <3> QED
        BY <2>2, <3>1
    <2>4. \A i \in 1 .. k : i \in 1 .. N /\ at[i] \in Q
      BY <2>1, <2>2, <2>3
    <2>5. \A i \in Q : \E h \in 1 .. k : at[h] = i
      <3> SUFFICES ASSUME NEW i \in Q PROVE \E h \in 1 .. k : at[h] = i
        OBVIOUS
      <3>1. PICK h \in 1 .. N : at[h] = i
        BY <1>0, <2>1 DEF Enumerates
      <3>2. h <= k
        BY <2>1, <2>3, <3>1
      <3> QED
        BY <3>1, <3>2
    <2>6. \A i, h \in 1 .. k : i < h => at[i] < at[h]
      BY <1>0, <2>4 DEF Enumerates
    <2>7. Enumerates(at, k, Q)
      BY <2>4, <2>5, <2>6 DEF Enumerates
    <2>8. Q \in SUBSET Nat /\ k \in Nat
      <3>1. \A i \in Q : i \in P
        BY <2>1
      <3>2. k \in Nat
        OBVIOUS
      <3> QED
        BY <3>1, <3>2
    <2> QED
      BY <2>1, <2>7, <2>8, CountLemma
  <1>2. ASSUME NEW k \in 1 .. N
        PROVE  (CHOOSE i \in P : Abstract!Cardinality({j \in P : j <= i}) = k) = at[k]
    <2>1. at[k] \in P /\ Abstract!Cardinality({j \in P : j <= at[k]}) = k
      BY <1>0, <1>1 DEF Enumerates
    <2>2. ASSUME NEW i \in P, Abstract!Cardinality({j \in P : j <= i}) = k PROVE i = at[k]
      <3>1. PICK h \in 1 .. N : at[h] = i
        BY <1>0 DEF Enumerates
      <3>2. h = k
        BY <1>1, <2>2, <3>1
      <3> QED
        BY <3>1, <3>2
    <2> QED
      BY <2>1, <2>2
  <1>3. Abstract!Cardinality(P) = N
    BY <1>0, CountLemma
  <1>4. PICK t : t = Abstract!Chosen(s, P)
    OBVIOUS
  <1>5. t = [k \in 1 .. N |-> t[k]]
    BY <1>3, <1>4 DEF Abstract!Chosen
  <1>6. ASSUME NEW k \in 1 .. N PROVE t[k] = s[at[k]]
    BY <1>2, <1>3, <1>4 DEF Abstract!Chosen
  <1> QED
    BY <1>0, <1>4, <1>5, <1>6 DEF Picked

LEMMA InsertedLemma ==
    ASSUME NEW s \in Seq(Elem), NEW run \in Seq(Elem), NEW i \in 1 .. Len(s) + 1
    PROVE  /\ Abstract!Inserted(s, i, run) \in Seq(Elem)
           /\ Len(Abstract!Inserted(s, i, run)) = Len(s) + Len(run)
           /\ \A k \in 1 .. Len(s) + Len(run) :
                 Abstract!Inserted(s, i, run)[k] = IF k < i THEN s[k]
                                                   ELSE IF k < i + Len(run) THEN run[k - i + 1]
                                                   ELSE s[k - Len(run)]
  <1>1. PICK N \in Nat, L \in Nat : N = Len(s) /\ L = Len(run)
    OBVIOUS
  <1>2. \A k \in 1 .. N : s[k] \in Elem
    BY <1>1
  <1>3. PICK a, b : a = SubSeq(s, 1, i - 1) /\ b = SubSeq(s, i, N)
    OBVIOUS
  <1>4. i \in 1 .. N + 1 /\ i - 1 \in Nat /\ i \in Int
    BY <1>1
  <1>5. a \in Seq(Elem) /\ Len(a) = i - 1 /\ \A k \in 1 .. i - 1 : a[k] = s[k]
    <2>1. \A k \in 1 .. i - 1 : s[k] \in Elem
      BY <1>2, <1>4
    <2>2. /\ a \in Seq(Elem) /\ Len(a) = (IF 1 <= i - 1 THEN (i - 1) - 1 + 1 ELSE 0)
          /\ \A k \in 1 .. (i - 1) - 1 + 1 : a[k] = s[1 + k - 1]
      BY <1>3, <1>4, <2>1, SubSeqProperties
    <2> QED
      BY <1>4, <2>2
  <1>6. b \in Seq(Elem) /\ Len(b) = N - i + 1 /\ \A k \in 1 .. N - i + 1 : b[k] = s[i + k - 1]
    <2>1. \A k \in i .. N : s[k] \in Elem
      BY <1>2, <1>4
    <2>2. /\ b \in Seq(Elem) /\ Len(b) = (IF i <= N THEN N - i + 1 ELSE 0)
          /\ \A k \in 1 .. N - i + 1 : b[k] = s[i + k - 1]
      BY <1>3, <1>4, <2>1, SubSeqProperties
    <2> QED
      BY <1>4, <2>2
  <1>7. PICK c : c = a \o run
    OBVIOUS
  <1>8. /\ c \in Seq(Elem) /\ Len(c) = i - 1 + L
        /\ \A k \in 1 .. i - 1 + L : c[k] = IF k < i THEN s[k] ELSE run[k - i + 1]
    <2>1. /\ c \in Seq(Elem) /\ Len(c) = Len(a) + Len(run)
          /\ \A k \in 1 .. Len(a) + Len(run) : c[k] = IF k <= Len(a) THEN a[k] ELSE run[k - Len(a)]
      BY <1>5, <1>7, ConcatProperties
    <2>2. \A k \in 1 .. i - 1 + L : (k <= i - 1 <=> k < i) /\ k - (i - 1) = k - i + 1
      BY <1>1, <1>4
    <2> QED
      BY <1>1, <1>4, <1>5, <2>1, <2>2
  <1>9. PICK t : t = c \o b
    OBVIOUS
  <1>10. /\ t \in Seq(Elem) /\ Len(t) = Len(c) + Len(b)
         /\ \A k \in 1 .. Len(c) + Len(b) : t[k] = IF k <= Len(c) THEN c[k] ELSE b[k - Len(c)]
    BY <1>6, <1>8, <1>9, ConcatProperties
  <1>11. PICK C \in Nat : C = Len(c) /\ C = i - 1 + L /\ C + Len(b) = N + L
    <2>1. PICK C \in Nat : C = i - 1 + L
      BY <1>1, <1>4
    <2>2. C = Len(c) /\ Len(b) = N - i + 1
      BY <1>6, <1>8, <2>1
    <2>3. C + (N - i + 1) = N + L
      BY <1>1, <1>4, <2>1
    <2> QED
      BY <2>1, <2>2, <2>3
  <1>12. ASSUME NEW k \in 1 .. N + L
         PROVE  t[k] = IF k < i THEN s[k] ELSE IF k < i + L THEN run[k - i + 1] ELSE s[k - L]
    <2>1. CASE k <= C
      <3>1. t[k] = c[k] /\ k \in 1 .. i - 1 + L
        BY <1>10, <1>11, <2>1
      <3>2. k < i + L
        BY <1>4, <1>11, <2>1
      <3> QED
        BY <1>8, <3>1, <3>2
    <2>2. CASE ~(k <= C)
      <3>1. t[k] = b[k - C]
        BY <1>10, <1>11, <2>2
      <3>2. PICK h \in 1 .. N - i + 1 : h = k - C /\ i + h - 1 = k - L
        BY <1>4, <1>11, <2>2
      <3>3. t[k] = s[k - L]
        BY <1>6, <3>1, <3>2
      <3>4. ~(k < i) /\ ~(k < i + L)
        BY <1>4, <1>11, <2>2
      <3> QED
        BY <3>3, <3>4
    <2> QED
      BY <2>1, <2>2
  <1>13. Abstract!Inserted(s, i, run) = t
    BY <1>1, <1>3, <1>7, <1>9 DEF Abstract!Inserted
  <1> QED
    BY <1>1, <1>10, <1>11, <1>12, <1>13

LEMMA WithoutLemma ==
    ASSUME NEW s \in Seq(Elem), NEW i \in 1 .. Len(s), NEW j \in i .. Len(s)
    PROVE  /\ Abstract!Without(s, i, j) \in Seq(Elem)
           /\ Len(Abstract!Without(s, i, j)) = Len(s) - (j - i + 1)
           /\ \A k \in 1 .. Len(s) - (j - i + 1) :
                 Abstract!Without(s, i, j)[k] = IF k < i THEN s[k] ELSE s[k + (j - i + 1)]
  <1>1. PICK N \in Nat, L \in Nat : N = Len(s) /\ L = j - i + 1 /\ L <= N
    OBVIOUS
  <1>2. \A k \in 1 .. N : s[k] \in Elem
    BY <1>1
  <1>3. PICK a, b : a = SubSeq(s, 1, i - 1) /\ b = SubSeq(s, j + 1, N)
    OBVIOUS
  <1>4. i \in 1 .. N /\ i - 1 \in Nat /\ j \in i .. N
    BY <1>1
  <1>5. a \in Seq(Elem) /\ Len(a) = i - 1 /\ \A k \in 1 .. i - 1 : a[k] = s[k]
    <2>1. \A k \in 1 .. i - 1 : s[k] \in Elem
      BY <1>2, <1>4
    <2>2. /\ a \in Seq(Elem) /\ Len(a) = (IF 1 <= i - 1 THEN (i - 1) - 1 + 1 ELSE 0)
          /\ \A k \in 1 .. (i - 1) - 1 + 1 : a[k] = s[1 + k - 1]
      BY <1>3, <1>4, <2>1, SubSeqProperties
    <2> QED
      BY <1>4, <2>2
  <1>6. b \in Seq(Elem) /\ Len(b) = N - j /\ \A k \in 1 .. N - j : b[k] = s[j + k]
    <2>1. PICK h \in Nat : h = j + 1
      BY <1>4
    <2>2. \A k \in h .. N : s[k] \in Elem
      BY <1>2, <1>4, <2>1
    <2>3. b = SubSeq(s, h, N) /\ h \in Int /\ N \in Int
      BY <1>3, <2>1
    <2>4. /\ b \in Seq(Elem) /\ Len(b) = (IF h <= N THEN N - h + 1 ELSE 0)
          /\ \A k \in 1 .. N - h + 1 : b[k] = s[h + k - 1]
      BY ONLY <2>2, <2>3, SubSeqProperties
    <2>5. \A k \in 1 .. N - j : k \in 1 .. N - h + 1 /\ h + k - 1 = j + k
      BY <1>4, <2>1
    <2> QED
      BY <1>4, <2>1, <2>4, <2>5
  <1>7. PICK t : t = a \o b
    OBVIOUS
  <1>8. /\ t \in Seq(Elem) /\ Len(t) = Len(a) + Len(b)
        /\ \A k \in 1 .. Len(a) + Len(b) : t[k] = IF k <= Len(a) THEN a[k] ELSE b[k - Len(a)]
    BY <1>5, <1>6, <1>7, ConcatProperties
  <1>9. PICK C \in Nat : C = Len(a) /\ C = i - 1 /\ C + Len(b) = N - L
    <2>1. PICK C \in Nat : C = i - 1
      BY <1>4
    <2>2. C = Len(a) /\ Len(b) = N - j
      BY <1>5, <1>6, <2>1
    <2>3. C + (N - j) = N - L
      BY <1>1, <1>4, <2>1
    <2> QED
      BY <2>1, <2>2, <2>3
  <1>10. ASSUME NEW k \in 1 .. N - L PROVE t[k] = IF k < i THEN s[k] ELSE s[k + L]
    <2>1. CASE k < i
      <3>1. k <= C /\ k \in 1 .. i - 1
        BY <1>4, <1>9, <2>1
      <3>2. t[k] = a[k]
        BY <1>8, <1>9, <3>1
      <3> QED
        BY <1>5, <2>1, <3>1, <3>2
    <2>2. CASE ~(k < i)
      <3>1. PICK h \in 1 .. N - j : h = k - C /\ j + h = k + L /\ ~(k <= C)
        BY <1>1, <1>4, <1>9, <2>2
      <3>2. t[k] = b[k - C]
        BY <1>8, <1>9, <3>1
      <3> QED
        BY <1>6, <2>2, <3>1, <3>2
    <2> QED
      BY <2>1, <2>2
  <1>11. Abstract!Without(s, i, j) = t
    BY <1>1, <1>3, <1>7 DEF Abstract!Without
  <1> QED
    BY <1>1, <1>8, <1>9, <1>10, <1>11

\* What all lists hold.
Walks(m) == [l \in List |-> Walk(m, l)]

LEMMA SameWalk ==
    ASSUME NEW m, NEW own, NEW pos, Rep(m, own, pos), NEW m2, NEW own2, NEW pos2, Rep(m2, own2, pos2),
           NEW l \in List, \A n \in Node : own[n] = l => own2[n] = l /\ pos2[n] = pos[n]
    PROVE  Walk(m2, l) = Walk(m, l)
  <1>1. PICK t : t = Walk(m, l)
    OBVIOUS
  <1>2. PICK N \in Nat : N = pos[Tail_(l)] - 1
    BY NodeAtLemma
  <1>3. /\ t \in Seq(Elem) /\ Len(t) = N
        /\ \A k \in 1 .. N : t[k] \in Elem /\ own[t[k]] = l /\ pos[t[k]] = k
    BY <1>1, <1>2, PlacesLemma, WalkPlacesLemma
  <1>4. pos2[Tail_(l)] = pos[Tail_(l)]
    BY NodeLemma DEF Rep, Placed
  <1>5. Len(t) = pos2[Tail_(l)] - 1
    BY <1>2, <1>3, <1>4
  <1>6. \A k \in 1 .. Len(t) : own2[t[k]] = l /\ pos2[t[k]] = k
    BY <1>3, NodeLemma
  <1> QED
    BY <1>1, <1>3, <1>5, <1>6, ContentLemma

\* What the lists hold after the nodes from first to last were taken out.
LEMMA TakenContent ==
    ASSUME NEW m, NEW own, NEW pos, Rep(m, own, pos),
           NEW first \in Elem, NEW last \in Elem, NEW l \in List, own[first] = l, own[last] = l,
           pos[first] <= pos[last], NEW R, R = Between(own, pos, first, last),
           NEW m2, Rep(m2, OwnBy(own, R, Nobody), TakePos(own, pos, first, last))
    PROVE  /\ pos[first] \in 1 .. Len(Walk(m, l)) /\ pos[last] \in pos[first] .. Len(Walk(m, l))
           /\ Walks(m2) = [Walks(m) EXCEPT ![l] = Abstract!Without(@, pos[first], pos[last])]
  <1>1. PICK s : s = Walk(m, l)
    OBVIOUS
  <1>2. PICK N \in Nat : N = pos[Tail_(l)] - 1 /\ N + 1 = pos[Tail_(l)]
    BY NodeAtLemma
  <1>3. /\ s \in Seq(Elem) /\ Len(s) = N
        /\ \A k \in 1 .. N : s[k] \in Elem /\ own[s[k]] = l /\ pos[s[k]] = k
        /\ \A n \in Elem : own[n] = l => pos[n] \in 1 .. N /\ s[pos[n]] = n
    BY <1>1, <1>2, PlacesLemma, WalkPlacesLemma
  <1>4. PICK i \in 1 .. N, j \in 1 .. N : i = pos[first] /\ j = pos[last] /\ j \in i .. N
    <2>1. pos[first] \in 1 .. N /\ pos[last] \in 1 .. N
      BY <1>3
    <2> QED
      BY <2>1
  <1>5. PICK own2, pos2 : own2 = OwnBy(own, R, Nobody) /\ pos2 = TakePos(own, pos, first, last)
    OBVIOUS
  <1>6. PICK L \in Nat : L = j - i + 1
    BY <1>4
  <1>7. \A n \in Node : n \in R <=> own[n] = l /\ i <= pos[n] /\ pos[n] <= j
    BY <1>4 DEF Between
  <1>8. \A n \in Node : /\ n \notin R => own2[n] = own[n]
                        /\ own[n] # l => pos2[n] = pos[n]
                        /\ own[n] = l => pos2[n] = IF pos[n] > j THEN pos[n] - L ELSE pos[n]
    BY <1>4, <1>5, <1>6 DEF OwnBy, TakePos
  <1>9. PICK t : t = Abstract!Without(s, i, j)
    OBVIOUS
  <1>10. /\ t \in Seq(Elem) /\ Len(t) = N - L
         /\ \A k \in 1 .. N - L : t[k] = IF k < i THEN s[k] ELSE s[k + L]
    <2>1. i \in 1 .. Len(s) /\ j \in i .. Len(s)
      BY <1>3, <1>4
    <2>2. /\ t \in Seq(Elem) /\ Len(t) = Len(s) - (j - i + 1)
          /\ \A k \in 1 .. Len(s) - (j - i + 1) : t[k] = IF k < i THEN s[k] ELSE s[k + (j - i + 1)]
      BY <1>3, <1>9, <2>1, WithoutLemma, Zenon
    <2> QED
      BY <1>3, <1>6, <2>2
  <1>11. Walk(m2, l) = t
    <2>1. pos2[Tail_(l)] = N + 1 - L
      BY <1>2, <1>4, <1>8, NodeLemma DEF Rep, Placed
    <2>2. Len(t) = pos2[Tail_(l)] - 1
      BY <1>4, <1>6, <1>10, <2>1
    <2>3. ASSUME NEW k \in 1 .. Len(t) PROVE own2[t[k]] = l /\ pos2[t[k]] = k
      <3>1. k \in 1 .. N - L
        BY <1>10
      <3>2. CASE k < i
        <4>1. k \in 1 .. N /\ t[k] = s[k] /\ ~(k > j) /\ ~(i <= k)
          <5>1. k \in 1 .. N /\ ~(k > j) /\ ~(i <= k)
            BY <1>4, <1>6, <3>1, <3>2
          <5> QED
            BY <1>10, <3>1, <3>2, <5>1
        <4> QED
          BY <1>3, <1>7, <1>8, <4>1, NodeLemma
      <3>3. CASE ~(k < i)
        <4>1. PICK h \in 1 .. N : h = k + L /\ h > j /\ h - L = k
          <5>1. k \in Nat /\ k >= i /\ k > 0 /\ k <= N - L
            BY <1>4, <1>6, <3>1, <3>3
          <5>2. L + i = j + 1 /\ i \in Nat /\ j \in Nat
            BY <1>4, <1>6
          <5>3. k + L > j
            BY <5>1, <5>2
          <5>4. k + L \in 1 .. N /\ (k + L) - L = k
            BY <5>1
          <5> QED
            BY <5>3, <5>4
        <4>2. t[k] = s[h]
          BY <1>10, <3>1, <3>3, <4>1
        <4>3. ~(h <= j)
          BY <1>4, <4>1
        <4>4. s[h] \in Node /\ own[s[h]] = l /\ pos[s[h]] = h /\ s[h] \notin R
          BY <1>3, <1>7, <4>3, NodeLemma
        <4> QED
          BY <1>8, <4>1, <4>2, <4>4
      <3> QED
        BY <3>2, <3>3
    <2> QED
      <3>1. Rep(m2, own2, pos2)
        BY <1>5
      <3>2. Rep(m2, own2, pos2) /\ l \in List /\ t \in Seq(Elem) /\ Len(t) = pos2[Tail_(l)] - 1
        BY <1>10, <2>2, <3>1
      <3>3. \A k \in 1 .. Len(t) : own2[t[k]] = l /\ pos2[t[k]] = k
        BY <2>3
      <3> QED
        BY ONLY <3>2, <3>3, ContentLemma
  <1>12. ASSUME NEW k \in List, k # l PROVE Walk(m2, k) = Walk(m, k)
    <2>1. \A n \in Node : own[n] = k => own2[n] = k /\ pos2[n] = pos[n]
      BY <1>7, <1>8, <1>12
    <2> QED
      BY <1>5, <2>1, SameWalk
  <1>13. Walks(m2) = [Walks(m) EXCEPT ![l] = Abstract!Without(@, i, j)]
    BY <1>1, <1>9, <1>11, <1>12 DEF Walks
  <1> QED
    BY <1>1, <1>3, <1>4, <1>13

\* What they hold after a run of nodes was put in before b.
LEMMA PutContent ==
    ASSUME NEW m, NEW own, NEW pos, Rep(m, own, pos),
           NEW b \in Node, NEW l \in List, own[b] = l, b # Head_(l),
           NEW R, NEW rank, NEW first, NEW last, Run(m, own, R, rank, first, last),
           NEW run \in Seq(Elem), Len(run) = rank[last],
           \A k \in 1 .. Len(run) : run[k] \in R /\ rank[run[k]] = k,
           NEW m2, Rep(m2, OwnBy(own, R, l), PutPos(own, pos, R, rank, b, last))
    PROVE  /\ pos[b] \in 1 .. Len(Walk(m, l)) + 1
           /\ Walks(m2) = [Walks(m) EXCEPT ![l] = Abstract!Inserted(@, pos[b], run)]
  <1>1. PICK s : s = Walk(m, l)
    OBVIOUS
  <1>2. PICK N \in Nat : N = pos[Tail_(l)] - 1 /\ N + 1 = pos[Tail_(l)]
    BY NodeAtLemma
  <1>3. /\ s \in Seq(Elem) /\ Len(s) = N
        /\ \A k \in 1 .. N : s[k] \in Elem /\ own[s[k]] = l /\ pos[s[k]] = k
    BY <1>1, <1>2, PlacesLemma, WalkPlacesLemma
  <1>4. PICK i \in 1 .. N + 1 : i = pos[b]
    <2>1. pos[b] \in Nat /\ pos[b] # 0
      BY EndsLemma
    <2>2. pos[b] <= N + 1
      BY <1>2 DEF Rep, Placed
    <2> QED
      BY <2>1, <2>2
  <1>5. PICK own2, pos2 : own2 = OwnBy(own, R, l) /\ pos2 = PutPos(own, pos, R, rank, b, last)
    OBVIOUS
  <1>6. PICK L \in Nat : L = Len(run) /\ L = rank[last]
    OBVIOUS
  <1>7. R \in SUBSET Node /\ \A n \in R : own[n] \notin List
    BY NodeLemma DEF Run
  <1>8. \A n \in Node : n \notin R =>
            /\ own2[n] = own[n]
            /\ own[n] # l => pos2[n] = pos[n]
            /\ own[n] = l => pos2[n] = IF pos[n] >= i THEN pos[n] + L ELSE pos[n]
    BY <1>4, <1>5, <1>6 DEF OwnBy, PutPos
  <1>9. \A n \in R : own2[n] = l /\ pos2[n] = i + rank[n] - 1
    BY <1>4, <1>5, <1>7 DEF OwnBy, PutPos
  <1>10. PICK t : t = Abstract!Inserted(s, i, run)
    OBVIOUS
  <1>11. /\ t \in Seq(Elem) /\ Len(t) = N + L
         /\ \A k \in 1 .. N + L : t[k] = IF k < i THEN s[k]
                                         ELSE IF k < i + L THEN run[k - i + 1] ELSE s[k - L]
    <2>1. i \in 1 .. Len(s) + 1
      BY <1>3, <1>4
    <2>2. /\ t \in Seq(Elem) /\ Len(t) = Len(s) + Len(run)
          /\ \A k \in 1 .. Len(s) + Len(run) : t[k] = IF k < i THEN s[k]
                                                     ELSE IF k < i + Len(run) THEN run[k - i + 1]
                                                     ELSE s[k - Len(run)]
      BY <1>3, <1>10, <2>1, InsertedLemma
    <2> QED
      BY <1>3, <1>6, <2>2
  <1>12. Walk(m2, l) = t
    <2>1. pos2[Tail_(l)] = N + 1 + L
      <3>1. Tail_(l) \in Node /\ own[Tail_(l)] = l
        BY NodeLemma DEF Rep, Placed
      <3> QED
        BY <1>2, <1>4, <1>7, <1>8, <3>1
    <2>2. Len(t) = pos2[Tail_(l)] - 1
      <3>1. (N + 1 + L) - 1 = N + L
        OBVIOUS
      <3> QED
        BY <1>11, <2>1, <3>1
    <2>3. ASSUME NEW k \in 1 .. Len(t) PROVE own2[t[k]] = l /\ pos2[t[k]] = k
      <3>1. k \in 1 .. N + L
        BY <1>11
      <3>2. CASE k < i
        <4>1. k \in 1 .. N /\ t[k] = s[k] /\ ~(k >= i)
          BY <1>4, <1>11, <3>1, <3>2
        <4> QED
          BY <1>3, <1>7, <1>8, <4>1, NodeLemma
      <3>3. CASE ~(k < i) /\ k < i + L
        <4>1. PICK h \in 1 .. L : h = k - i + 1 /\ i + h - 1 = k
          <5>1. k - i + 1 \in 1 .. L /\ i + (k - i + 1) - 1 = k
            BY ONLY <1>2, <1>4, <1>6, <3>1, <3>3
          <5> QED
            BY <5>1
        <4>2. t[k] = run[h]
          BY <1>11, <3>1, <3>3, <4>1
        <4>3. run[h] \in R /\ rank[run[h]] = h
          BY <1>6
        <4>4. own2[run[h]] = l /\ pos2[run[h]] = i + h - 1
          BY <1>9, <4>3
        <4> QED
          BY <4>1, <4>2, <4>4
      <3>4. CASE ~(k < i) /\ ~(k < i + L)
        <4>1. PICK h \in 1 .. N : h = k - L /\ h >= i /\ h + L = k
          <5>1. k \in Nat /\ i \in Nat /\ i >= 1 /\ k <= N + L
            BY <1>4, <3>1
          <5>2. k >= i + L
            BY <3>4, <5>1
          <5>3. k - L \in 1 .. N /\ k - L >= i /\ (k - L) + L = k
            BY <5>1, <5>2
          <5> QED
            BY <5>3
        <4>2. t[k] = s[h]
          BY <1>11, <3>1, <3>4, <4>1
        <4>3. s[h] \in Node /\ own[s[h]] = l /\ pos[s[h]] = h /\ s[h] \notin R
          BY <1>3, <1>7, NodeLemma
        <4> QED
          BY <1>8, <4>1, <4>2, <4>3
      <3> QED
        BY <3>2, <3>3, <3>4
    <2> QED
      BY <1>5, <1>11, <2>2, <2>3, ContentLemma
  <1>13. ASSUME NEW k \in List, k # l PROVE Walk(m2, k) = Walk(m, k)
    <2>1. \A n \in Node : own[n] = k => own2[n] = k /\ pos2[n] = pos[n]
      BY <1>7, <1>8, <1>13
    <2> QED
      BY <1>5, <2>1, SameWalk
  <1>14. Walks(m2) = [Walks(m) EXCEPT ![l] = Abstract!Inserted(@, i, run)]
    BY <1>1, <1>10, <1>12, <1>13 DEF Walks
  <1> QED
    BY <1>1, <1>3, <1>4, <1>14

--------------------------------------------------------------------------------
(***************************************************************************)
(* Every step is one of ElementLists, or changes nothing there.            *)
(***************************************************************************)

LEMMA ContentWalks == Content = Walks(links) /\ Content' = Walks(links')
  BY DEF Content, Forward, Walk, list_begin, Walks

\* list_insert of an element that nobody owned.
PutBefore(m, own, pos, b, l, e, m2) ==
    /\ Rep(m, own, pos) /\ b \in Node /\ l \in List /\ own[b] = l /\ b # Head_(l)
    /\ e \in Elem /\ own[e] \notin List
    /\ Rep(m2, OwnBy(own, {e}, l), InsPos(own, pos, b, e))

LEMMA InsertRefines ==
    ASSUME NEW m, NEW own, NEW pos, NEW b, NEW l, NEW e, NEW m2,
           PutBefore(m, own, pos, b, l, e, m2), NEW run, run = <<e>>
    PROVE  /\ Abstract!InsertElem(Walks(m), Walks(m2))
           /\ Walks(m2) = [Walks(m) EXCEPT ![l] = Abstract!Inserted(@, pos[b], run)]
           /\ pos[b] \in 1 .. Len(Walk(m, l)) + 1
  <1>0. /\ Rep(m, own, pos) /\ b \in Node /\ l \in List /\ own[b] = l /\ b # Head_(l)
        /\ e \in Elem /\ own[e] \notin List
        /\ Rep(m2, OwnBy(own, {e}, l), InsPos(own, pos, b, e))
    BY DEF PutBefore
  <1>1. PICK rank : rank = [n \in {e} |-> 1]
    OBVIOUS
  <1>2. /\ Run(m, own, {e}, rank, e, e) /\ rank[e] = 1
        /\ Rep(m2, OwnBy(own, {e}, l), PutPos(own, pos, {e}, rank, b, e))
    BY <1>0, <1>1, OneIn
  <1>3. run \in Seq(Elem) /\ Len(run) = 1 /\ run[1] = e
    BY <1>0
  <1>4. Len(run) = rank[e] /\ \A k \in 1 .. Len(run) : run[k] \in {e} /\ rank[run[k]] = k
    BY <1>2, <1>3
  <1>5. /\ pos[b] \in 1 .. Len(Walk(m, l)) + 1
        /\ Walks(m2) = [Walks(m) EXCEPT ![l] = Abstract!Inserted(@, pos[b], run)]
    <2>1. PICK R : R = {e}
      OBVIOUS
    <2>2. Run(m, own, R, rank, e, e) /\ Rep(m2, OwnBy(own, R, l), PutPos(own, pos, R, rank, b, e))
      BY <1>2, <2>1
    <2>3. \A k \in 1 .. Len(run) : run[k] \in R /\ rank[run[k]] = k
      BY <1>4, <2>1
    <2>4. PICK t : t = run
      OBVIOUS
    <2>5. t \in Seq(Elem) /\ Len(t) = rank[e] /\ \A k \in 1 .. Len(t) : t[k] \in R /\ rank[t[k]] = k
      BY <1>3, <1>4, <2>3, <2>4
    <2>6. /\ pos[b] \in 1 .. Len(Walk(m, l)) + 1
          /\ Walks(m2) = [Walks(m) EXCEPT ![l] = Abstract!Inserted(@, pos[b], t)]
      BY <1>0, <2>2, <2>5, PutContent
    <2> QED
      BY <2>4, <2>6
  <1>6. \A k \in List : e \notin Abstract!ToSet(Walks(m)[k])
    <2> SUFFICES ASSUME NEW k \in List, NEW i \in DOMAIN Walk(m, k), e = Walk(m, k)[i] PROVE FALSE
      BY DEF Walks, Abstract!ToSet
    <2>1. i \in 1 .. pos[Tail_(k)] - 1
      BY <1>0, WalkPlacesLemma
    <2>2. own[Walk(m, k)[i]] = k
      BY <1>0, <2>1, WalkPlacesLemma
    <2> QED
      BY <1>0, <2>2
  <1>7. \E i \in 1 .. Len(Walks(m)[l]) + 1 : Walks(m2) = [Walks(m) EXCEPT ![l] = Abstract!Inserted(@, i, <<e>>)]
    BY <1>1, <1>5 DEF Walks
  <1>8. e \in Elem \ UNION {Abstract!ToSet(Walks(m)[k]) : k \in List}
    BY <1>0, <1>6
  <1>9. Abstract!InsertElem(Walks(m), Walks(m2))
    BY <1>0, <1>7, <1>8 DEF Abstract!InsertElem
  <1> QED
    BY <1>1, <1>5, <1>9

\* list_remove of an element.
LEMMA RemoveRefines ==
    ASSUME NEW m, NEW own, NEW pos, Rep(m, own, pos), NEW e \in Elem, NEW l \in List, own[e] = l,
           NEW m2, Rep(m2, OwnBy(own, {e}, Nobody), RemPos(own, pos, e))
    PROVE  /\ Abstract!RemoveElem(Walks(m), Walks(m2))
           /\ Walks(m2) = [Walks(m) EXCEPT ![l] = Abstract!Without(@, pos[e], pos[e])]
           /\ pos[e] \in 1 .. Len(Walk(m, l))
  <1>1. PICK R : R = Between(own, pos, e, e) /\ R = {e}
    BY OneOut
  <1>2. Rep(m2, OwnBy(own, R, Nobody), TakePos(own, pos, e, e))
    BY <1>1, OneOut
  <1>3. pos[e] <= pos[e]
    BY NodeLemma DEF Rep, Placed
  <1>4. /\ pos[e] \in 1 .. Len(Walk(m, l))
        /\ Walks(m2) = [Walks(m) EXCEPT ![l] = Abstract!Without(@, pos[e], pos[e])]
    <2>1. R = Between(own, pos, e, e)
      BY <1>1
    <2> QED
      BY <1>2, <1>3, <2>1, TakenContent
  <1>5. pos[e] \in DOMAIN Walks(m)[l]
    BY <1>4, PlacesLemma DEF Walks
  <1> QED
    BY <1>4, <1>5 DEF Abstract!RemoveElem

\* list_splice of the elements from first to last.
LEMMA MoveRefines ==
    ASSUME NEW m, NEW own, NEW pos, Rep(m, own, pos),
           NEW first \in Elem, NEW last \in Elem, NEW l \in List, own[first] = l, own[last] = l,
           pos[first] <= pos[last], NEW R, R = Between(own, pos, first, last),
           NEW b \in Node, NEW h \in List, own[b] = h, b # Head_(h), b \notin R,
           NEW m2, m2 = PutIn(TakenOut(m, first, last), b, first, last)
    PROVE  Abstract!MoveRun(Walks(m), Walks(m2))
  <1>1. PICK q, own2, pos2, rank :
            /\ q = TakenOut(m, first, last) /\ own2 = OwnBy(own, R, Nobody)
            /\ pos2 = TakePos(own, pos, first, last) /\ rank = RankFrom(R, pos, first)
    OBVIOUS
  <1>2. Rep(q, own2, pos2) /\ Run(q, own2, R, rank, first, last)
    BY <1>1, TakenOutLemma
  <1>3. own2[b] = h
    BY <1>1 DEF OwnBy
  <1>4. Rep(m2, OwnBy(own2, R, h), PutPos(own2, pos2, R, rank, b, last))
    BY <1>1, <1>2, <1>3, PutInLemma
  <1>5. PICK s : s = Walk(m, l)
    OBVIOUS
  <1>6. PICK N \in Nat : N = Len(s)
    BY <1>5, PlacesLemma
  <1>7. /\ s \in Seq(Elem) /\ DOMAIN s = 1 .. N
        /\ \A k \in 1 .. N : s[k] \in Elem /\ s[k] \in Node /\ own[s[k]] = l /\ pos[s[k]] = k
    <2>1. s \in Seq(Elem) /\ N = pos[Tail_(l)] - 1
      BY <1>5, <1>6, PlacesLemma
    <2>2. \A k \in 1 .. N : s[k] \in Elem /\ own[s[k]] = l /\ pos[s[k]] = k
      <3>1. \A k \in 1 .. pos[Tail_(l)] - 1 : /\ Walk(m, l)[k] \in Elem
                                             /\ own[Walk(m, l)[k]] = l /\ pos[Walk(m, l)[k]] = k
        BY WalkPlacesLemma
      <3> QED
        BY <1>5, <2>1, <3>1
    <2>3. \A k \in 1 .. N : s[k] \in Node
      BY <2>2, NodeLemma
    <2>4. DOMAIN s = 1 .. N
      <3>1. s \in Seq(Elem)
        BY <2>1
      <3>2. DOMAIN s = 1 .. Len(s)
        BY <3>1, LenProperties
      <3> QED
        BY <1>6, <3>2
    <2> QED
      BY <2>1, <2>2, <2>3, <2>4
  <1>8. /\ pos[first] \in 1 .. N /\ pos[last] \in pos[first] .. N
        /\ Walks(q) = [Walks(m) EXCEPT ![l] = Abstract!Without(@, pos[first], pos[last])]
    BY <1>1, <1>2, <1>5, <1>6, TakenContent
  <1>9. PICK i \in 1 .. N, j \in 1 .. N : i = pos[first] /\ j = pos[last] /\ i <= j
    BY <1>8
  <1>10. PICK L \in Nat : L = j - i + 1
    BY <1>9
  <1>11. PICK run : run = SubSeq(s, i, j)
    OBVIOUS
  <1>12. run \in Seq(Elem) /\ Len(run) = L /\ \A k \in 1 .. L : run[k] = s[i + k - 1]
    <2>1. \A k \in i .. j : s[k] \in Elem
      BY <1>7, <1>9
    <2>2. i \in Int /\ j \in Int
      BY <1>9
    <2>3. /\ run \in Seq(Elem) /\ Len(run) = (IF i <= j THEN j - i + 1 ELSE 0)
          /\ \A k \in 1 .. j - i + 1 : run[k] = s[i + k - 1]
      BY ONLY <1>11, <2>1, <2>2, SubSeqProperties
    <2> QED
      BY <1>9, <1>10, <2>3
  <1>13. ASSUME NEW k \in 1 .. L PROVE run[k] \in R /\ rank[run[k]] = k
    <2>1. PICK x \in 1 .. N : x = i + k - 1 /\ i <= x /\ x <= j /\ x - i + 1 = k
      <3>1. i + k - 1 \in 1 .. N /\ i <= i + k - 1 /\ i + k - 1 <= j /\ (i + k - 1) - i + 1 = k
        BY <1>9, <1>10
      <3> QED
        BY <3>1
    <2>2. run[k] = s[x] /\ s[x] \in Node /\ own[s[x]] = l /\ pos[s[x]] = x
      BY <1>7, <1>12, <2>1
    <2>3. s[x] \in R
      BY <1>9, <2>1, <2>2 DEF Between
    <2> QED
      BY <1>1, <1>9, <2>1, <2>2, <2>3 DEF RankFrom
  <1>14. rank[last] = L
    <2>1. last \in R
      BY <1>2 DEF Run
    <2> QED
      BY <1>1, <1>9, <1>10, <2>1 DEF RankFrom
  <1>15. /\ pos2[b] \in 1 .. Len(Walk(q, h)) + 1
         /\ Walks(m2) = [Walks(q) EXCEPT ![h] = Abstract!Inserted(@, pos2[b], run)]
    BY <1>2, <1>3, <1>4, <1>12, <1>13, <1>14, PutContent
  <1>16. Len(Walk(q, h)) + 1 = Len(Walks(m)[h]) + (IF l = h THEN i - j ELSE 1)
    <2>1. CASE l = h
      <3>1. Walk(q, h) = Abstract!Without(s, i, j)
        BY <1>5, <1>8, <1>9, <2>1 DEF Walks
      <3>2. i \in 1 .. Len(s) /\ j \in i .. Len(s)
        BY <1>6, <1>9
      <3>3. Len(Walk(q, h)) = N - (j - i + 1)
        <4>1. Len(Abstract!Without(s, i, j)) = Len(s) - (j - i + 1)
          BY <1>7, <3>2, WithoutLemma
        <4> QED
          BY <1>6, <3>1, <4>1
      <3>4. Walks(m)[h] = s
        BY <1>5, <2>1 DEF Walks
      <3> QED
        BY <1>6, <1>9, <2>1, <3>3, <3>4
    <2>2. CASE l # h
      <3>1. Walk(q, h) = Walks(m)[h]
        BY <1>8, <2>2 DEF Walks
      <3> QED
        BY <2>2, <3>1
    <2> QED
      BY <2>1, <2>2
  <1>17. PICK c, d, k : c = Walks(m) /\ d = Walks(m2) /\ k = pos2[b]
    OBVIOUS
  <1>18. /\ i \in DOMAIN c[l] /\ j \in DOMAIN c[l] /\ i <= j /\ SubSeq(c[l], i, j) = run
         /\ k \in 1 .. Len(c[h]) + (IF l = h THEN i - j ELSE 1)
         /\ d = [[c EXCEPT ![l] = Abstract!Without(@, i, j)] EXCEPT ![h] = Abstract!Inserted(@, k, run)]
    BY <1>5, <1>7, <1>8, <1>9, <1>11, <1>15, <1>16, <1>17 DEF Walks
  <1>19. Abstract!MoveRun(c, d)
    BY <1>18 DEF Abstract!MoveRun
  <1> QED
    BY <1>17, <1>19

--------------------------------------------------------------------------------
(***************************************************************************)
(* The inductive invariant: the nodes have places, and the variables of    *)
(* list_sort and list_unique point into the list they work on, those of    *)
(* inplace_merge in the order of their places.                             *)
(***************************************************************************)

SortJob == [doing : {"runs", "merge"}, list : List, a0 : Node, a1b0 : Node \cup {NULL},
            b1 : Node \cup {NULL}, output_run_cnt : Nat]

UniqueJob == [doing : {"unique"}, list : List, duplicates : List \cup {NULL}, elem : Node]

InPlace(own, pos, l, n) == n \in Node /\ own[n] = l /\ pos[n] > 0

SortOK(j, own, pos) ==
    /\ j \in SortJob
    /\ InPlace(own, pos, j.list, j.a0)
    /\ j.doing = "merge" => /\ InPlace(own, pos, j.list, j.a1b0) /\ pos[j.a0] <= pos[j.a1b0]
                            /\ InPlace(own, pos, j.list, j.b1) /\ pos[j.a1b0] <= pos[j.b1]

UniqueOK(j, own) ==
    /\ j \in UniqueJob /\ j.elem \in Elem /\ own[j.elem] = j.list
    /\ j.duplicates # NULL => j.duplicates # j.list

\* Up to place w, the elements of u in the places kept stay, those in the places gone go.
Looked(u, w, kept, gone) ==
    /\ u \in Seq(Elem) /\ w \in 1 .. Len(u) /\ kept \in Seq(Nat) /\ gone \in Seq(Nat)
    /\ Enumerates(kept, Len(kept), (1 .. w) \ Abstract!Repeats(u))
    /\ Enumerates(gone, Len(gone), (1 .. w) \cap Abstract!Repeats(u))

\* A sequence and what is behind place w of u.
Rest(a, u, w) == a \o SubSeq(u, w + 1, Len(u))

\* What list_unique has made of the lists s by then.
Halfway(s, l, d, w, kept, gone) ==
    [k \in List |-> IF k = l THEN Rest(Picked(s[l], kept), s[l], w)
                    ELSE IF k = d /\ d # NULL THEN s[k] \o Picked(s[l], gone)
                    ELSE s[k]]

UniquingOK(j, s, m, own, pos) ==
    /\ UniqueOK(j, own)
    /\ \A k \in List : s[k] \in Seq(Elem)
    /\ s = [k \in List |-> s[k]]
    /\ \E w, kept, gone :
          /\ Looked(s[j.list], w, kept, gone)
          /\ Walks(m) = Halfway(s, j.list, j.duplicates, w, kept, gone)
          /\ pos[j.elem] = Len(kept) /\ Key[j.elem] = Key[s[j.list][w]]

\* The elements of a list in the places from i to k - 1 are in the order of their keys.
OrderedBetween(own, pos, l, i, k) ==
    \A n, h \in Elem : own[n] = l /\ own[h] = l /\ i <= pos[n] /\ pos[n] < pos[h] /\ pos[h] < k
                        => Key[n] <= Key[h]

\* When list_sort began, the elements were in the places was, in the same lists; those of
\* equal keys are still in the order they had.
Stable(s, l, own, pos, was) ==
    /\ \E m : Rep(m, own, was) /\ s = [k \in List |-> Walk(m, k)]
    /\ \A n \in Node : own[n] # l \/ n = Tail_(l) => was[n] = pos[n]
    /\ \A n, h \in Elem : own[n] = l /\ own[h] = l /\ Key[n] = Key[h] /\ pos[n] < pos[h]
                            => was[n] < was[h]

\* What is before place i is not greater than what is from there to k - 1.
Below(own, pos, l, i, k) ==
    \A n, h \in Elem : own[n] = l /\ own[h] = l /\ pos[n] < i /\ i <= pos[h] /\ pos[h] < k
                        => Key[n] <= Key[h]

\* The first run of a merge is in order, and during the first merge of a pass so is the
\* second run, and what is behind the merge, which does not exceed either.
PassOK(j, own, pos) ==
    LET l == j.list
        a == pos[j.a0]
        b == pos[j.a1b0]
        c == pos[j.b1]
    IN /\ j.doing = "runs" /\ j.output_run_cnt = 0 => a = 1
       /\ j.output_run_cnt = 1 => OrderedBetween(own, pos, l, 1, a)
       /\ j.doing = "merge" =>
             /\ j.output_run_cnt >= 1 /\ OrderedBetween(own, pos, l, a, b)
             /\ j.output_run_cnt = 1 => OrderedBetween(own, pos, l, b, c) /\ Below(own, pos, l, a, c)

SortingOK(j, s, own, pos) ==
    SortOK(j, own, pos) /\ PassOK(j, own, pos) /\ \E was : Stable(s, j.list, own, pos, was)

JobOK(j, s, m, own, pos) == j = NoJob \/ SortingOK(j, s, own, pos) \/ UniquingOK(j, s, m, own, pos)

Inv == \E own, pos : Rep(links, own, pos) /\ JobOK(job, before, links, own, pos)

LEMMA InvInit == Init => Inv
  <1> SUFFICES ASSUME Init PROVE Inv
    OBVIOUS
  <1>1. PICK own : own = [n \in Node |-> IF n \in Elem THEN Nobody ELSE n.list]
    OBVIOUS
  <1>2. PICK pos : pos = [n \in Node |-> IF \E l \in List : n = Tail_(l) THEN 1 ELSE 0]
    OBVIOUS
  <1>3. ASSUME NEW l \in List
        PROVE  /\ own[Head_(l)] = l /\ own[Tail_(l)] = l /\ pos[Head_(l)] = 0 /\ pos[Tail_(l)] = 1
               /\ links.next[Head_(l)] = Tail_(l) /\ links.prev[Tail_(l)] = Head_(l)
    <2>1. Head_(l) \in Node /\ Tail_(l) \in Node /\ Head_(l).list = l /\ Tail_(l).list = l
      BY NodeLemma DEF Head_, Tail_
    <2>2. own[Head_(l)] = l /\ own[Tail_(l)] = l
      BY <1>1, <2>1, NodeLemma
    <2>3. pos[Head_(l)] = 0 /\ pos[Tail_(l)] = 1
      BY <1>2, <2>1, NodeLemma
    <2>4. links = llist_init
      BY DEF Init
    <2>5. /\ links.next = [n \in Node |-> IF \E k \in List : n = Head_(k) THEN Tail_(n.list) ELSE NULL]
          /\ links.prev = [n \in Node |-> IF \E k \in List : n = Tail_(k) THEN Head_(n.list) ELSE NULL]
      BY <2>4 DEF llist_init
    <2> QED
      BY <2>1, <2>2, <2>3, <2>5
  <1>4. \A n \in Node : own[n] \in List => n = Head_(own[n]) \/ n = Tail_(own[n])
    <2> SUFFICES ASSUME NEW n \in Node, own[n] \in List PROVE n = Head_(own[n]) \/ n = Tail_(own[n])
      OBVIOUS
    <2>1. n \notin Elem
      BY <1>1, NodeLemma
    <2>2. PICK l \in List : n = Head_(l) \/ n = Tail_(l)
      BY <2>1 DEF Node
    <2> QED
      BY <1>3, <2>2
  <1>5. Shape(links)
    <2>1. ASSUME NEW n \in Node, NEW l \in List, n = Head_(l) \/ n = Tail_(l)
          PROVE  n.list \in List
      BY <2>1 DEF Head_, Tail_
    <2>2. \A n \in Node : (\E l \in List : n = Tail_(l)) => Head_(n.list) \in Node
      BY <2>1, NodeLemma
    <2>3. \A n \in Node : (\E l \in List : n = Head_(l)) => Tail_(n.list) \in Node
      BY <2>1, NodeLemma
    <2> QED
      BY <2>2, <2>3 DEF Init, llist_init, Shape
  <1>6. own \in [Node -> List \cup {Nobody}] /\ pos \in [Node -> Nat]
    <2>1. \A n \in Node : own[n] \in List \cup {Nobody}
      <3> SUFFICES ASSUME NEW n \in Node PROVE own[n] \in List \cup {Nobody}
        OBVIOUS
      <3>1. CASE n \in Elem
        BY <1>1, <3>1
      <3>2. CASE n \notin Elem
        BY <1>3, <3>2 DEF Node
      <3> QED
        BY <3>1, <3>2
    <2> QED
      BY <1>1, <1>2, <2>1
  <1>7. Placed(own, pos)
    <2>1. ASSUME NEW n \in Node, own[n] \in List PROVE pos[n] <= pos[Tail_(own[n])]
      BY <1>3, <1>4, <2>1
    <2> QED
      BY <1>3, <1>6, <2>1 DEF Placed
  <1>8. \A l \in List : Linked(links, own, pos, Head_(l), Tail_(l))
    BY <1>3, NodeLemma DEF Linked
  <1>9. ASSUME NEW n \in Node, own[n] \in List, n # Tail_(own[n])
        PROVE  Linked(links, own, pos, n, links.next[n])
    BY <1>3, <1>4, <1>8, <1>9
  <1>10. ASSUME NEW n \in Node, own[n] \in List, n # Head_(own[n])
         PROVE  Linked(links, own, pos, links.prev[n], n)
    BY <1>3, <1>4, <1>8, <1>10
  <1>11. Rep(links, own, pos)
    BY <1>5, <1>7, <1>9, <1>10 DEF Rep
  <1> QED
    BY <1>11 DEF Inv, JobOK, Init

\* What the invariant gives a function that starts.
LEMMA IdleLemma ==
    ASSUME NEW own, NEW pos, JobOK(job, before, links, own, pos), Idle
    PROVE  job = NoJob
  BY DEF JobOK, SortingOK, SortOK, SortJob, UniquingOK, UniqueOK, UniqueJob, Idle

LEMMA InsertStep ==
    ASSUME Inv, NEW e \in Elem, NEW b \in Places, Insert(e, b)
    PROVE  Inv'
  <1>1. PICK own, pos : Rep(links, own, pos) /\ JobOK(job, before, links, own, pos)
    BY DEF Inv
  <1>2. job' = NoJob
    BY <1>1, IdleLemma DEF Insert
  <1>3. own[e] \notin List /\ b \in Node /\ own[b] \in List /\ b # Head_(own[b])
    BY <1>1, ListedLemma DEF Insert
  <1>4. PICK pos2 : Rep(list_insert(links, b, e), OwnBy(own, {e}, own[b]), pos2)
    BY <1>1, <1>3, InsertLemma
  <1> QED
    BY <1>2, <1>4 DEF Inv, JobOK, Insert

\* list_insert_ordered stops at the first greater element, or the end.
LEMMA StopLemma ==
    ASSUME NEW own, NEW pos, Rep(links, own, pos), NEW l \in List, NEW e \in Elem,
           NEW b, b = Stop(l, e)
    PROVE  /\ b \in Node /\ own[b] = l /\ b # Head_(l) /\ pos[b] \in 1 .. pos[Tail_(l)]
           /\ b = Tail_(l) \/ (b \in Elem /\ less(e, b))
           /\ \A n \in Elem : own[n] = l /\ pos[n] < pos[b] => ~less(e, n)
  <1>1. PICK T \in Nat \ {0} : T = pos[Tail_(l)]
    BY NodeAtLemma
  <1>2. PICK s : s = Forward(l) /\ s = Walk(links, l)
    BY DEF Forward, Walk, list_begin
  <1>3. /\ DOMAIN s = 1 .. T - 1
        /\ \A k \in 1 .. T - 1 : s[k] \in Elem /\ own[s[k]] = l /\ pos[s[k]] = k
        /\ \A n \in Elem : own[n] = l => pos[n] \in 1 .. T - 1 /\ s[pos[n]] = n
    BY <1>1, <1>2, WalkPlacesLemma
  <1>4. PICK found : found = {k \in DOMAIN s : less(e, s[k])}
    OBVIOUS
  <1>5. b = IF found = {} THEN Tail_(l) ELSE s[Min(found)]
    BY <1>2, <1>4 DEF Stop, FirstOr
  <1>6. Tail_(l) \in Node /\ own[Tail_(l)] = l /\ Tail_(l) # Head_(l)
    BY NodeLemma DEF Rep, Placed
  <1>7. CASE found = {}
    <2>1. b = Tail_(l) /\ pos[b] \in 1 .. T
      BY <1>1, <1>5, <1>7
    <2>2. \A n \in Elem : own[n] = l => ~less(e, n)
      BY <1>3, <1>4, <1>7
    <2> QED
      BY <1>1, <1>6, <2>1, <2>2
  <1>8. CASE found # {}
    <2>1. found \in SUBSET Nat
      BY <1>3, <1>4
    <2>2. Min(found) \in found /\ \A k \in found : Min(found) <= k
      <3>1. \E k \in found : \A h \in found : k <= h
        BY <1>8, <2>1, LeastElement
      <3> QED
        BY <3>1 DEF Min
    <2>3. PICK j \in 1 .. T - 1 : j = Min(found) /\ less(e, s[j])
      BY <1>3, <1>4, <2>2
    <2>4. b = s[j] /\ b \in Elem /\ own[b] = l /\ pos[b] = j /\ less(e, b)
      BY <1>3, <1>5, <1>8, <2>3
    <2>5. ASSUME NEW n \in Elem, own[n] = l, pos[n] < pos[b] PROVE ~less(e, n)
      <3>1. pos[n] \in 1 .. T - 1 /\ s[pos[n]] = n
        BY <1>3, <2>5
      <3>2. pos[n] \notin found
        BY <2>2, <2>3, <2>4, <2>5, <3>1
      <3> QED
        BY <1>3, <1>4, <3>1, <3>2
    <2>6. pos[b] \in 1 .. T
      BY <2>4
    <2> QED
      BY <1>1, <2>4, <2>5, <2>6, NodeLemma
  <1> QED
    BY <1>7, <1>8

LEMMA InsertOrderedStep ==
    ASSUME Inv, NEW e \in Elem, NEW l \in List, list_insert_ordered(l, e)
    PROVE  Inv'
  <1>1. PICK own, pos : Rep(links, own, pos) /\ JobOK(job, before, links, own, pos)
    BY DEF Inv
  <1>2. job' = NoJob
    BY <1>1, IdleLemma DEF list_insert_ordered
  <1>3. PICK b : b = Stop(l, e)
    OBVIOUS
  <1>4. b \in Node /\ own[b] \in List /\ b # Head_(own[b])
    BY <1>1, <1>3, StopLemma
  <1>5. own[e] \notin List
    BY <1>1, ListedLemma DEF list_insert_ordered
  <1>6. PICK pos2 : Rep(list_insert(links, b, e), OwnBy(own, {e}, own[b]), pos2)
    BY <1>1, <1>4, <1>5, InsertLemma
  <1> QED
    BY <1>2, <1>3, <1>6 DEF Inv, JobOK, list_insert_ordered

\* Taking out one element, once or twice, and freeing it.
LEMMA TakeAndFree ==
    ASSUME NEW m, NEW own, NEW pos, Rep(m, own, pos), NEW e \in Elem, own[e] \in List
    PROVE  Rep(Freed(list_remove(m, e), e), OwnBy(own, {e}, Nobody), RemPos(own, pos, e))
  <1>1. Rep(list_remove(m, e), OwnBy(own, {e}, Nobody), RemPos(own, pos, e))
    BY RemoveLemma
  <1>2. OwnBy(own, {e}, Nobody)[e] \notin List
    BY NodeLemma DEF OwnBy
  <1> QED
    BY <1>1, <1>2, FreedLemma

LEMMA RemoveStep ==
    ASSUME Inv, NEW e \in Elem, Remove_(e)
    PROVE  Inv'
  <1>1. PICK own, pos : Rep(links, own, pos) /\ JobOK(job, before, links, own, pos)
    BY DEF Inv
  <1>2. job' = NoJob
    BY <1>1, IdleLemma DEF Remove_
  <1>3. own[e] \in List
    BY <1>1, ListedLemma DEF Remove_
  <1> QED
    BY <1>1, <1>2, <1>3, TakeAndFree DEF Inv, JobOK, Remove_

\* The first element of a list.
LEMMA BeginLemma ==
    ASSUME NEW own, NEW pos, Rep(links, own, pos), NEW l \in List, Forward(l) # <<>>,
           NEW e, e = list_begin(l)
    PROVE  e \in Elem /\ own[e] = l /\ e \in Node /\ pos[e] = 1
  <1>1. e \in Node /\ own[e] = l /\ pos[e] = 1 /\ pos[Tail_(l)] > 1
    BY ForwardLemma
  <1>2. e # Tail_(l)
    BY <1>1
  <1>3. e # Head_(l)
    BY <1>1 DEF Rep, Placed
  <1> QED
    BY <1>1, <1>2, <1>3, EndsLemma

LEMMA RemoveTwiceStep ==
    ASSUME Inv, NEW l \in List, RemoveTwice(l)
    PROVE  Inv'
  <1>1. PICK own, pos : Rep(links, own, pos) /\ JobOK(job, before, links, own, pos)
    BY DEF Inv
  <1>2. job' = NoJob
    BY <1>1, IdleLemma DEF RemoveTwice
  <1>3. PICK e : e = list_begin(l)
    OBVIOUS
  <1>4. links' = Freed(list_remove(list_remove(links, e), e), e)
    BY <1>3 DEF RemoveTwice
  <1>5. e \in Elem /\ own[e] \in List
    BY <1>1, <1>3, BeginLemma DEF RemoveTwice
  <1>6. list_remove(list_remove(links, e), e) = list_remove(links, e)
    BY <1>1, <1>5, RemoveLemma
  <1> QED
    BY <1>1, <1>2, <1>4, <1>5, <1>6, TakeAndFree DEF Inv, JobOK

\* Where the elements i to j of a list and the place b are.
LEMMA SpliceWhere ==
    ASSUME NEW own, NEW pos, Rep(links, own, pos), NEW l \in List, NEW s, s = Forward(l), NEW b \in Places,
           NEW i \in DOMAIN s, NEW j \in DOMAIN s, i <= j, \A k \in i .. j : s[k] # b,
           NEW first, first = s[i], NEW last, last = s[j], NEW end, end = links.next[last]
    PROVE  /\ first \in Elem /\ own[first] = l /\ pos[first] = i
           /\ last \in Elem /\ own[last] = l /\ pos[last] = j /\ pos[first] <= pos[last]
           /\ end \in Node /\ own[end] = l /\ pos[end] = j + 1 /\ links.prev[end] = last
           /\ pos[first] < pos[end] /\ first # end
           /\ SplicePlace(own, pos, b, first, end)
           /\ b \in Node /\ own[b] \in List /\ b # Head_(own[b]) /\ b \notin Between(own, pos, first, last)
  <1>1. PICK T \in Nat \ {0} : T = pos[Tail_(l)]
    BY NodeAtLemma
  <1>2. s = [k \in 1 .. T - 1 |-> NodeAt(own, pos, l, k)]
    BY <1>1, ForwardLemma DEF ContentOf
  <1>3. i \in 1 .. T - 1 /\ j \in 1 .. T - 1 /\ i <= j /\ \A k \in i .. j : s[k] # b
    BY <1>2
  <1>4. first \in Elem /\ own[first] = l /\ pos[first] = i
    <2>1. i \in 0 .. T /\ first = NodeAt(own, pos, l, i)
      BY <1>1, <1>2, <1>3
    <2> QED
      BY <1>1, <1>3, <2>1, NodeAtLemma
  <1>5. last \in Elem /\ own[last] = l /\ pos[last] = j /\ last = NodeAt(own, pos, l, j)
    <2>1. j \in 0 .. T /\ last = NodeAt(own, pos, l, j)
      BY <1>1, <1>2, <1>3
    <2> QED
      BY <1>1, <1>3, <2>1, NodeAtLemma
  <1>6. end \in Node /\ own[end] = l /\ pos[end] = j + 1 /\ links.prev[end] = last
    <2>1. j + 1 \in 1 .. T /\ j + 1 \in 0 .. T /\ (j + 1) - 1 = j
      BY <1>1, <1>3
    <2>2. \A k \in 1 .. T : /\ links.next[NodeAt(own, pos, l, k - 1)] = NodeAt(own, pos, l, k)
                            /\ links.prev[NodeAt(own, pos, l, k)] = NodeAt(own, pos, l, k - 1)
      BY <1>1, NodeAtLemma
    <2>3. end = NodeAt(own, pos, l, j + 1) /\ links.prev[end] = last
      BY <1>5, <2>1, <2>2
    <2> QED
      BY <1>1, <2>1, <2>3, NodeAtLemma
  <1>7. b \in Node /\ own[b] \in List /\ b # Head_(own[b]) /\ pos[b] > 0 /\ pos[b] \in Nat
    BY ListedLemma DEF Rep, Placed
  <1>8. ASSUME own[b] = l PROVE pos[b] < i \/ pos[b] >= j + 1
    <2> SUFFICES ASSUME i <= pos[b], pos[b] <= j PROVE FALSE
      BY <1>1, <1>3, <1>7
    <2>1. pos[b] \in i .. j /\ pos[b] \in 1 .. T - 1
      BY <1>1, <1>3, <1>7
    <2>2. b = NodeAt(own, pos, l, pos[b])
      BY <1>7, <1>8, NodeAtLemma
    <2>3. s[pos[b]] = b
      BY <1>2, <2>1, <2>2
    <2> QED
      BY <1>3, <2>1, <2>3
  <1>9. SplicePlace(own, pos, b, first, end)
    BY <1>4, <1>6, <1>7, <1>8 DEF SplicePlace
  <1>10. b \notin Between(own, pos, first, last)
    BY <1>1, <1>3, <1>4, <1>5, <1>7, <1>8 DEF Between
  <1>11. i < j + 1
    BY <1>1, <1>3
  <1> QED
    BY <1>3, <1>4, <1>5, <1>6, <1>7, <1>9, <1>10, <1>11

LEMMA SpliceStep ==
    ASSUME Inv, NEW l \in List, NEW s, s = Forward(l), NEW b \in Places,
           NEW i \in DOMAIN s, NEW j \in DOMAIN s, Splice(b, s, i, j)
    PROVE  Inv'
  <1>1. PICK own, pos : Rep(links, own, pos) /\ JobOK(job, before, links, own, pos)
    BY DEF Inv
  <1>2. job' = NoJob
    BY <1>1, IdleLemma DEF Splice
  <1>3. PICK first, last, end : first = s[i] /\ last = s[j] /\ end = links.next[last]
    OBVIOUS
  <1>4. /\ first \in Elem /\ own[first] = l /\ end \in Node /\ own[end] = l
        /\ pos[first] < pos[end] /\ SplicePlace(own, pos, b, first, end)
    BY <1>1, <1>3, SpliceWhere DEF Splice
  <1>5. \E own2, pos2 : Rep(list_splice(links, b, first, end), own2, pos2)
    BY <1>1, <1>4, SpliceLemma
  <1> QED
    BY <1>2, <1>3, <1>5 DEF Inv, JobOK, Splice

LEMMA ReverseStep ==
    ASSUME Inv, NEW l \in List, list_reverse(l)
    PROVE  Inv'
  <1>1. PICK own, pos : Rep(links, own, pos) /\ JobOK(job, before, links, own, pos)
    BY DEF Inv
  <1>2. job' = NoJob
    BY <1>1, IdleLemma DEF list_reverse
  <1>3. pos[Tail_(l)] > 1 /\ ToSet(Forward(l)) = {n \in Elem : own[n] = l}
    BY <1>1, ForwardLemma DEF list_reverse
  <1>4. PICK E : E = ToSet(Forward(l))
    OBVIOUS
  <1>5. \E pos2 : Rep(EndsExchanged(Exchanged(links, E), l), own, pos2)
    BY <1>1, <1>3, <1>4, ReverseLemma
  <1> QED
    BY <1>2, <1>4, <1>5 DEF Inv, JobOK, list_reverse

--------------------------------------------------------------------------------
(***************************************************************************)
(* list_sort.                                                              *)
(***************************************************************************)

\* If nothing is less than what is right before it, the keys are in order.
LEMMA AdjacentLemma ==
    ASSUME NEW m, NEW own, NEW pos, Rep(m, own, pos), NEW l \in List,
           NEW i \in Nat \ {0}, NEW k \in Nat,
           \A n \in Elem : own[n] = l /\ i < pos[n] /\ pos[n] < k => ~less(n, m.prev[n])
    PROVE  OrderedBetween(own, pos, l, i, k)
  <1> DEFINE S == {d \in Nat : \A n, h \in Elem :
                      own[n] = l /\ own[h] = l /\ i <= pos[n] /\ pos[h] = pos[n] + 1 + d /\ pos[h] < k
                        => Key[n] <= Key[h]}
  <1>1. \A n \in Node : pos[n] \in Nat
    BY DEF Rep, Placed
  <1>2. \A n \in Elem : n \in Node /\ Key[n] \in Int
    BY NodeLemma, LinkedListsAssumption
  <1>3. ASSUME NEW h \in Elem, own[h] = l, pos[h] > 1
        PROVE  m.prev[h] \in Elem /\ own[m.prev[h]] = l /\ pos[h] = pos[m.prev[h]] + 1
    <2>1. PICK x : x = m.prev[h]
      OBVIOUS
    <2>2. h \in Node /\ h # Head_(l)
      BY NodeLemma
    <2>3. x \in Node /\ own[x] = l /\ pos[h] = pos[x] + 1
      BY <1>3, <2>1, <2>2 DEF Rep, Linked
    <2>4. pos[x] # 0 /\ pos[x] \in Nat
      BY <1>1, <1>3, <2>3
    <2>5. x # Head_(l)
      BY <2>3, <2>4 DEF Rep, Placed
    <2>6. pos[h] <= pos[Tail_(l)] /\ pos[Tail_(l)] \in Nat
      BY <1>3, <2>2, EndsLemma
    <2>7. x # Tail_(l)
      BY <2>3, <2>4, <2>6
    <2> QED
      BY <2>1, <2>3, <2>5, <2>7, EndsLemma
  <1>4. 0 \in S
    <2> SUFFICES ASSUME NEW n \in Elem, NEW h \in Elem, own[n] = l, own[h] = l, i <= pos[n],
                        pos[h] = pos[n] + 1, pos[h] < k
                 PROVE  Key[n] <= Key[h]
      BY <1>1, <1>2
    <2>1. i < pos[h] /\ pos[h] > 1
      BY <1>1, <1>2
    <2>2. m.prev[h] = n
      <3>1. m.prev[h] \in Elem /\ own[m.prev[h]] = l /\ pos[h] = pos[m.prev[h]] + 1
        BY <1>3, <2>1
      <3>2. pos[m.prev[h]] = pos[n]
        BY <1>1, <1>2, <3>1
      <3> QED
        BY <1>2, <3>1, <3>2, OnePlace
    <2>3. ~(Key[h] < Key[n])
      BY <2>1, <2>2 DEF less
    <2> QED
      BY <1>2, <2>3
  <1>5. ASSUME NEW d \in Nat, d \in S PROVE d + 1 \in S
    <2> SUFFICES ASSUME NEW n \in Elem, NEW h \in Elem, own[n] = l, own[h] = l, i <= pos[n],
                        pos[h] = pos[n] + 1 + (d + 1), pos[h] < k
                 PROVE  Key[n] <= Key[h]
      OBVIOUS
    <2>1. i < pos[h] /\ pos[h] > 1
      BY <1>1, <1>2
    <2>2. PICK x \in Elem : x = m.prev[h] /\ own[x] = l /\ pos[h] = pos[x] + 1
      BY <1>3, <2>1
    <2>3. pos[x] = pos[n] + 1 + d /\ pos[x] < k
      BY <1>1, <1>2, <2>2
    <2>4. Key[n] <= Key[x]
      BY <1>5, <2>2, <2>3
    <2>5. ~(Key[h] < Key[x])
      BY <2>1, <2>2 DEF less
    <2> QED
      BY <1>2, <2>4, <2>5
  <1> HIDE DEF S
  <1>6. \A d \in Nat : d \in S
    BY <1>4, <1>5, Induction
  <1> SUFFICES ASSUME NEW n \in Elem, NEW h \in Elem, own[n] = l, own[h] = l, i <= pos[n],
                      pos[n] < pos[h], pos[h] < k
               PROVE  Key[n] <= Key[h]
    BY DEF OrderedBetween
  <1>7. PICK d \in Nat : pos[h] = pos[n] + 1 + d
    <2>1. pos[n] \in Nat /\ pos[h] \in Nat
      BY <1>1, <1>2
    <2>2. pos[h] - pos[n] - 1 \in Nat /\ pos[h] = pos[n] + 1 + (pos[h] - pos[n] - 1)
      BY <2>1
    <2> QED
      BY <2>2
  <1>8. d \in S
    BY <1>6
  <1> QED
    BY <1>7, <1>8 DEF S

\* A run ends behind the node it begins with, and it is in order.
LEMMA FindLemma ==
    ASSUME NEW own, NEW pos, Rep(links, own, pos), NEW l \in List,
           NEW a, InPlace(own, pos, l, a), a # Tail_(l), NEW n, n = find_end_of_run(l, a)
    PROVE  /\ InPlace(own, pos, l, n) /\ pos[a] < pos[n] /\ pos[a] \in Nat /\ pos[n] \in Nat
           /\ OrderedBetween(own, pos, l, pos[a], pos[n])
  <1>1. PICK T \in Nat \ {0} : T = pos[Tail_(l)]
    BY NodeAtLemma
  <1>2. a \in Node /\ own[a] = l /\ pos[a] > 0
    BY DEF InPlace
  <1>3. PICK i \in Nat : i = pos[a] /\ i > 0 /\ i <= T
    BY <1>1, <1>2 DEF Rep, Placed
  <1>4. Tail_(l) \in Node /\ own[Tail_(l)] = l
    BY NodeLemma DEF Rep, Placed
  <1>5. i # T
    BY <1>1, <1>2, <1>3, <1>4, OnePlace
  <1>6. PICK s : s = Along(links.next, a, Tail_(l))
    OBVIOUS
  <1>7. s = [k \in 1 .. T - i |-> NodeAt(own, pos, l, i + k - 1)]
    <2>1. s = [k \in 1 .. pos[Tail_(l)] - pos[a] |-> NodeAt(own, pos, l, pos[a] + k - 1)]
      BY <1>2, <1>6, AlongNextLemma
    <2> QED
      BY <1>1, <1>3, <2>1
  <1>8. PICK found : found = {k \in DOMAIN s \ {1} : less(s[k], links.prev[s[k]])}
    OBVIOUS
  <1>9. n = IF found = {} THEN Tail_(l) ELSE s[Min(found)]
    BY <1>6, <1>8 DEF find_end_of_run, FirstOr
  <1>10. PICK j \in Nat : /\ n \in Node /\ own[n] = l /\ pos[n] = j /\ i < j /\ j <= T
                         /\ \A k \in found : j <= i + k - 1
    <2>1. CASE found = {}
      BY <1>1, <1>3, <1>4, <1>5, <1>9, <2>1
    <2>2. CASE found # {}
      <3>1. found \in SUBSET Nat /\ \A k \in found : k \in 1 .. T - i /\ k # 1
        BY <1>7, <1>8
      <3>2. Min(found) \in found /\ \A k \in found : Min(found) <= k
        <4>1. \E k \in found : \A h \in found : k <= h
          BY <2>2, <3>1, LeastElement
        <4> QED
          BY <4>1 DEF Min
      <3>3. PICK k \in 1 .. T - i : k = Min(found) /\ k # 1
        BY <3>1, <3>2
      <3>4. PICK j \in Nat : j = i + k - 1 /\ j \in 0 .. T /\ j > i
        BY <1>1, <1>3, <3>3
      <3>5. n = NodeAt(own, pos, l, j)
        BY <1>7, <1>9, <2>2, <3>3, <3>4
      <3>6. n \in Node /\ own[n] = l /\ pos[n] = j
        BY <1>1, <3>4, <3>5, NodeAtLemma
      <3>7. \A h \in found : j <= i + h - 1
        <4> SUFFICES ASSUME NEW h \in found PROVE j <= i + h - 1
          OBVIOUS
        <4>1. k <= h /\ h \in Nat /\ k \in Nat
          BY <3>1, <3>2, <3>3
        <4> QED
          BY <1>3, <3>4, <4>1
      <3> QED
        BY <3>4, <3>6, <3>7
    <2> QED
      BY <2>1, <2>2
  <1>11. ASSUME NEW h \in Elem, own[h] = l, i < pos[h], pos[h] < j
         PROVE  ~less(h, links.prev[h])
    <2>1. PICK p \in Nat : p = pos[h] /\ i < p /\ p < j
      BY <1>11, NodeLemma DEF Rep, Placed
    <2>2. PICK k \in Nat : k = p - i + 1
      BY <1>3, <2>1
    <2>3. k \in 1 .. T - i /\ k # 1 /\ i + k - 1 = p
      BY <1>3, <1>10, <2>1, <2>2
    <2>4. h = NodeAt(own, pos, l, p)
      BY <1>11, <2>1, NodeLemma, NodeAtLemma
    <2>5. s[k] = h /\ DOMAIN s = 1 .. T - i
      BY <1>7, <2>3, <2>4
    <2>6. k \notin found
      BY <1>10, <2>1, <2>3
    <2> QED
      BY <1>8, <2>3, <2>5, <2>6
  <1>12. OrderedBetween(own, pos, l, i, j)
    BY <1>3, <1>11, AdjacentLemma
  <1> QED
    BY <1>3, <1>10, <1>12 DEF InPlace

LEMMA SortStep ==
    ASSUME Inv, NEW l \in List, Sort(l)
    PROVE  Inv'
  <1>1. PICK own, pos : Rep(links, own, pos)
    BY DEF Inv
  <1>2. PICK a : a = list_begin(l)
    OBVIOUS
  <1>3. InPlace(own, pos, l, a) /\ a \in Node /\ pos[a] = 1
    BY <1>1, <1>2, ForwardLemma DEF InPlace
  <1>4. links' = links /\ job' = [doing |-> "runs", list |-> l, a0 |-> a, a1b0 |-> NULL,
                                  b1 |-> NULL, output_run_cnt |-> 0]
    BY <1>2 DEF Sort
  <1>5. SortOK(job', own, pos)
    BY <1>3, <1>4 DEF SortOK, SortJob
  <1>6. PassOK(job', own, pos)
    BY <1>3, <1>4 DEF PassOK
  <1>7. Stable(before', l, own, pos, pos)
    <2>1. before' = [k \in List |-> Walk(links, k)]
      BY DEF Sort, Content, Forward, list_begin, Walk
    <2> QED
      BY <1>1, <2>1 DEF Stable
  <1>8. job'.list = l
    BY <1>4
  <1>9. SortingOK(job', before', own, pos)
    BY <1>5, <1>6, <1>7, <1>8 DEF SortingOK
  <1> QED
    BY <1>1, <1>4, <1>9 DEF Inv, JobOK

\* The next pass, or the end.
LEMMA AfterPassLemma ==
    ASSUME NEW own, NEW pos, Rep(links, own, pos), SortingOK(job, before, own, pos),
           job.doing = "runs", NEW runs
    PROVE  JobOK(AfterPass(runs), before, links, own, pos)
  <1>1. job.list \in List /\ job \in SortJob
    BY DEF SortingOK, SortOK, SortJob
  <1>2. PICK a : a = list_begin(job.list)
    OBVIOUS
  <1>3. InPlace(own, pos, job.list, a) /\ a \in Node /\ pos[a] = 1
    BY <1>1, <1>2, ForwardLemma DEF InPlace
  <1>4. PICK j : j = [job EXCEPT !.a0 = a, !.output_run_cnt = 0]
    OBVIOUS
  <1>5. j \in SortJob /\ j.a0 = a /\ j.list = job.list /\ j.doing = "runs" /\ j.output_run_cnt = 0
    BY <1>1, <1>3, <1>4 DEF SortJob
  <1>6. SortOK(j, own, pos) /\ PassOK(j, own, pos)
    BY <1>3, <1>5 DEF SortOK, PassOK
  <1>7. SortingOK(j, before, own, pos)
    BY <1>5, <1>6 DEF SortingOK
  <1>8. AfterPass(runs) = IF runs > 1 THEN j ELSE NoJob
    BY <1>2, <1>4 DEF AfterPass
  <1> QED
    BY <1>7, <1>8 DEF JobOK

LEMMA RememberedLemma ==
    ASSUME NEW own, NEW pos, JobOK(job', before, links', own, pos), Remembered
    PROVE  JobOK(job', before', links', own, pos)
  <1>1. CASE job' = NoJob
    BY <1>1 DEF JobOK
  <1>2. CASE job' # NoJob
    BY <1>2 DEF Remembered
  <1> QED
    BY <1>1, <1>2

LEMMA FindRunsStep ==
    ASSUME Inv, FindRuns
    PROVE  Inv'
  <1>1. PICK own, pos : Rep(links, own, pos) /\ JobOK(job, before, links, own, pos)
    BY DEF Inv
  <1>2. job.doing = "runs" /\ links' = links /\ Remembered
    BY DEF FindRuns
  <1>3. SortingOK(job, before, own, pos)
    BY <1>1, <1>2 DEF JobOK, NoJob, UniquingOK, UniqueOK, UniqueJob
  <1>4. /\ job \in SortJob /\ job.list \in List /\ job.output_run_cnt \in Nat
        /\ InPlace(own, pos, job.list, job.a0) /\ PassOK(job, own, pos)
    BY <1>3 DEF SortingOK, SortOK, SortJob
  <1>5. PICK tail, middle : tail = Tail_(job.list) /\ middle = find_end_of_run(job.list, job.a0)
    OBVIOUS
  <1>6. PICK b1 : b1 = find_end_of_run(job.list, middle)
    OBVIOUS
  <1>7. job' = IF job.a0 = tail THEN AfterPass(job.output_run_cnt)
               ELSE IF middle = tail THEN AfterPass(job.output_run_cnt + 1)
               ELSE [job EXCEPT !.doing = "merge", !.a1b0 = middle, !.b1 = b1, !.output_run_cnt = @ + 1]
    BY <1>5, <1>6 DEF FindRuns
  <1>8. CASE job.a0 = tail \/ middle = tail
    <2>1. JobOK(job', before, links', own, pos)
      BY <1>1, <1>2, <1>3, <1>7, <1>8, AfterPassLemma
    <2>2. JobOK(job', before', links', own, pos)
      BY <1>2, <2>1, RememberedLemma
    <2> QED
      BY <1>1, <1>2, <2>2 DEF Inv
  <1>9. CASE ~(job.a0 = tail \/ middle = tail)
    <2>1. /\ InPlace(own, pos, job.list, middle) /\ pos[job.a0] < pos[middle]
          /\ pos[job.a0] \in Nat /\ pos[middle] \in Nat
          /\ OrderedBetween(own, pos, job.list, pos[job.a0], pos[middle])
      BY <1>1, <1>4, <1>5, <1>9, FindLemma
    <2>2. /\ InPlace(own, pos, job.list, b1) /\ pos[middle] < pos[b1] /\ pos[b1] \in Nat
          /\ OrderedBetween(own, pos, job.list, pos[middle], pos[b1])
      BY <1>1, <1>4, <1>5, <1>6, <1>9, <2>1, FindLemma
    <2>3. PICK j : j = [job EXCEPT !.doing = "merge", !.a1b0 = middle, !.b1 = b1, !.output_run_cnt = @ + 1]
      OBVIOUS
    <2>4. middle \in Node /\ b1 \in Node
      BY <2>1, <2>2 DEF InPlace
    <2>5. /\ j \in SortJob /\ j.a0 = job.a0 /\ j.list = job.list /\ j.doing = "merge"
          /\ j.a1b0 = middle /\ j.b1 = b1 /\ j.output_run_cnt = job.output_run_cnt + 1
      <3>1. PICK c \in Nat : c = job.output_run_cnt + 1
        BY <1>4
      <3>2. j = [doing |-> "merge", list |-> job.list, a0 |-> job.a0, a1b0 |-> middle, b1 |-> b1,
                 output_run_cnt |-> c]
        BY <1>4, <2>3, <3>1 DEF SortJob
      <3>3. job.a0 \in Node
        BY <1>4 DEF InPlace
      <3> QED
        BY <1>4, <2>4, <3>1, <3>2, <3>3 DEF SortJob
    <2>6. SortOK(j, own, pos)
      BY <1>4, <2>1, <2>2, <2>5 DEF SortOK
    <2>7. PassOK(j, own, pos)
      <3>1. j.output_run_cnt = 1 => pos[job.a0] = 1
        BY <1>2, <1>4, <2>5 DEF PassOK
      <3>2. \A n \in Elem : own[n] = job.list => pos[n] > 0
        <4> SUFFICES ASSUME NEW n \in Elem, own[n] = job.list PROVE pos[n] > 0
          OBVIOUS
        <4>1. n \in Node /\ n # Head_(own[n])
          BY <1>4, NodeLemma
        <4>2. pos[n] # 0 /\ pos[n] \in Nat
          BY <1>1, <1>4, <4>1, EndsLemma
        <4> QED
          BY <4>2
      <3>3. \A n \in Elem : pos[n] \in Nat
        BY <1>1, NodeLemma DEF Rep, Placed
      <3>4. j.output_run_cnt = 1 => OrderedBetween(own, pos, job.list, 1, pos[job.a0])
        BY <3>1, <3>2, <3>3 DEF OrderedBetween
      <3>5. j.output_run_cnt = 1 => \A n \in Elem : own[n] = job.list => ~(pos[n] < pos[job.a0])
        BY <3>1, <3>2, <3>3
      <3>6. j.output_run_cnt >= 1
        BY <1>4, <2>5
      <3> QED
        BY <2>1, <2>2, <2>5, <3>4, <3>5, <3>6 DEF PassOK, Below
    <2>8. SortingOK(j, before, own, pos)
      BY <1>3, <2>5, <2>6, <2>7 DEF SortingOK
    <2>9. job' = j
      BY <1>7, <1>9, <2>3
    <2>10. JobOK(job', before', links', own, pos)
      BY <1>2, <2>8, <2>9, RememberedLemma DEF JobOK
    <2> QED
      BY <1>1, <1>2, <2>10 DEF Inv
  <1> QED
    BY <1>8, <1>9

\* The places after an element was moved forwards to before b.
MovePos(own, pos, l, b, first) ==
    [n \in Node |-> IF n = first THEN pos[b]
                    ELSE IF own[n] = l /\ pos[b] <= pos[n] /\ pos[n] < pos[first] THEN pos[n] + 1
                    ELSE pos[n]]

LEMMA MoveLemma ==
    ASSUME NEW m, NEW own, NEW pos, Rep(m, own, pos), NEW l \in List,
           NEW b, InPlace(own, pos, l, b), NEW first \in Elem, InPlace(own, pos, l, first),
           pos[b] < pos[first], NEW end, end = m.next[first]
    PROVE  /\ Rep(list_splice(m, b, first, end), own, MovePos(own, pos, l, b, first))
           /\ InPlace(own, pos, l, end) /\ pos[end] = pos[first] + 1
  <1>1. b \in Node /\ own[b] = l /\ first \in Node /\ own[first] = l /\ pos[b] > 0
    BY DEF InPlace
  <1>2. \A n \in Node : pos[n] \in Nat
    BY DEF Rep, Placed
  <1>3. PICK i \in Nat, k \in Nat : i = pos[first] /\ k = pos[b] /\ k < i /\ k > 0
    BY <1>1, <1>2
  <1>4. end \in Node /\ own[end] = l /\ pos[end] = i + 1 /\ m.prev[end] = first
    <2>1. first # Tail_(l)
      BY NodeLemma
    <2>2. Linked(m, own, pos, first, end)
      BY <1>1, <2>1 DEF Rep
    <2> QED
      BY <1>1, <1>3, <2>2 DEF Linked
  <1>5. PICK R : R = Between(own, pos, first, first)
    OBVIOUS
  <1>6. R = {first}
    <2>1. \A n \in Node : own[n] = own[first] /\ i <= pos[n] /\ pos[n] <= i => pos[n] = i
      BY <1>2
    <2>2. \A n \in Node : own[n] = l /\ pos[n] = i => n = first
      BY <1>1, <1>3, OnePlace
    <2>3. \A n \in Node : own[n] = own[first] /\ i <= pos[n] /\ pos[n] <= i => n = first
      BY <1>1, <2>1, <2>2
    <2> QED
      BY <1>1, <1>3, <1>5, <2>3 DEF Between
  <1>7. PICK own1, own2, pos1, pos2, rank :
            /\ own1 = OwnBy(own, R, Nobody) /\ own2 = OwnBy(own1, R, own[b])
            /\ pos1 = TakePos(own, pos, first, first)
            /\ rank = RankFrom(R, pos, first)
            /\ pos2 = PutPos(own1, pos1, R, rank, b, first)
    OBVIOUS
  <1>8. own2 = SpliceOwn(m, own, pos, b, first, end) /\ pos2 = SplicePos(m, own, pos, b, first, end)
    BY <1>4, <1>5, <1>7 DEF SpliceOwn, SplicePos
  <1>9. Rep(list_splice(m, b, first, end), own2, pos2)
    <2>1. SplicePlace(own, pos, b, first, end)
      BY <1>1, <1>3 DEF SplicePlace
    <2>2. pos[first] < pos[end]
      BY <1>3, <1>4
    <2> QED
      BY <1>1, <1>4, <1>8, <2>1, <2>2, SpliceLemma
  <1>10. rank[first] = 1
    <2>1. rank[first] = i - i + 1
      BY <1>3, <1>6, <1>7 DEF RankFrom
    <2> QED
      BY <2>1
  <1>11. own2 = own
    <2>1. \A n \in Node : own2[n] = own[n]
      BY <1>1, <1>6, <1>7 DEF OwnBy
    <2>2. own2 = [n \in Node |-> own2[n]] /\ own = [n \in Node |-> own[n]]
      BY <1>7 DEF OwnBy, Rep, Placed
    <2> QED
      BY <2>1, <2>2
  <1>12. \A n \in Node : n # first => own1[n] = own[n]
    BY <1>6, <1>7 DEF OwnBy
  <1>13. \A n \in Node : pos1[n] = IF own[n] = l /\ pos[n] > i THEN pos[n] - 1 ELSE pos[n]
    <2>1. \A n \in Node : pos1[n] = IF own[n] = l /\ pos[n] > i THEN pos[n] - (i - i + 1) ELSE pos[n]
      BY <1>1, <1>3, <1>7 DEF TakePos
    <2>2. i - i + 1 = 1
      OBVIOUS
    <2> QED
      BY <2>1, <2>2
  <1>14. pos1[b] = k /\ own1[b] = l /\ b # first
    BY <1>1, <1>3, <1>12, <1>13
  <1>15. pos2[first] = k
    <2>1. pos2[first] = pos1[b] + rank[first] - 1
      BY <1>1, <1>6, <1>7 DEF PutPos
    <2> QED
      BY <1>10, <1>14, <2>1
  <1>16. ASSUME NEW n \in Node, n # first
         PROVE  pos2[n] = IF own[n] = l /\ k <= pos[n] /\ pos[n] < i THEN pos[n] + 1 ELSE pos[n]
    <2>1. pos2[n] = IF own[n] = l /\ pos1[n] >= k THEN pos1[n] + 1 ELSE pos1[n]
      BY <1>6, <1>7, <1>10, <1>12, <1>14, <1>16 DEF PutPos
    <2>2. pos1[n] = IF own[n] = l /\ pos[n] > i THEN pos[n] - 1 ELSE pos[n]
      BY <1>13
    <2>3. own[n] = l => pos[n] # i
      BY <1>1, <1>3, <1>16, OnePlace
    <2>4. pos[n] \in Nat
      BY <1>2
    <2> QED
      BY <1>3, <2>1, <2>2, <2>3, <2>4
  <1>17. pos2 = MovePos(own, pos, l, b, first)
    <2>1. pos2 = [n \in Node |-> pos2[n]]
      BY <1>7 DEF PutPos
    <2>2. \A n \in Node : pos2[n] = IF n = first THEN k
                                     ELSE IF own[n] = l /\ k <= pos[n] /\ pos[n] < i THEN pos[n] + 1
                                     ELSE pos[n]
      BY <1>15, <1>16
    <2> QED
      BY <1>3, <2>1, <2>2 DEF MovePos
  <1>18. pos[end] > 0
    BY <1>3, <1>4
  <1> QED
    BY <1>3, <1>4, <1>9, <1>11, <1>17, <1>18 DEF InPlace

\* A step of inplace_merge that puts the first element of the second run, which is less,
\* before the first one of the first run.
LEMMA MovedLemma ==
    ASSUME NEW own, NEW pos, Rep(links, own, pos), NEW l \in List,
           NEW f, InPlace(own, pos, l, f), NEW x \in Elem, own[x] = l,
           NEW a \in Nat, NEW b \in Nat, NEW c \in Nat, a = pos[f], b = pos[x], 0 < a, a < b, b < c,
           f \in Elem, Key[x] < Key[f], OrderedBetween(own, pos, l, a, b),
           NEW pos2, pos2 = MovePos(own, pos, l, f, x)
    PROVE  /\ OrderedBetween(own, pos2, l, a + 1, b + 1)
           /\ OrderedBetween(own, pos, l, 1, a) /\ OrderedBetween(own, pos, l, b, c)
                 /\ Below(own, pos, l, a, c)
              => /\ OrderedBetween(own, pos2, l, 1, a + 1) /\ OrderedBetween(own, pos2, l, b + 1, c)
                 /\ Below(own, pos2, l, a + 1, c)
           /\ \A s, was : Stable(s, l, own, pos, was) /\ c <= pos[Tail_(l)] => Stable(s, l, own, pos2, was)
  <1> DEFINE E == {n \in Elem : own[n] = l}
  <1>1. \A n \in E : n \in Node /\ pos[n] \in Nat /\ Key[n] \in Int
    BY NodeLemma, LinkedListsAssumption DEF Rep, Placed
  <1>2. \A n \in E : n # x => pos[n] # b
    BY <1>1, OnePlace
  <1>3. \A n \in E : pos2[n] = IF n = x THEN a ELSE IF a <= pos[n] /\ pos[n] < b THEN pos[n] + 1 ELSE pos[n]
    BY <1>1 DEF MovePos
  <1>4. x \in E /\ f \in E
    BY DEF InPlace
  <1>5. \A n, h \in E : a <= pos[n] /\ pos[n] < pos[h] /\ pos[h] < b => Key[n] <= Key[h]
    BY DEF OrderedBetween
  <1>6. \A n \in E : a <= pos[n] /\ pos[n] < b => Key[x] < Key[n]
    <2> SUFFICES ASSUME NEW n \in E, a <= pos[n], pos[n] < b PROVE Key[x] < Key[n]
      OBVIOUS
    <2>1. CASE n = f
      BY <2>1
    <2>2. CASE n # f
      <3>1. pos[n] # a
        BY <1>1, <1>4, <2>2, OnePlace
      <3>2. pos[f] < pos[n]
        BY <1>1, <3>1
      <3>3. Key[f] <= Key[n]
        BY <1>4, <1>5, <3>2
      <3> QED
        BY <1>1, <1>4, <3>3
    <2> QED
      BY <2>1, <2>2
  <1>7. ASSUME NEW n \in E, n # x
        PROVE  /\ pos2[n] <= a => pos[n] < a /\ pos2[n] = pos[n]
               /\ pos2[n] >= a + 1 /\ pos2[n] < b + 1 => a <= pos[n] /\ pos[n] < b /\ pos2[n] = pos[n] + 1
               /\ pos2[n] >= b + 1 => pos[n] >= b + 1 /\ pos2[n] = pos[n]
               /\ pos2[n] \in Nat
    <2>1. pos[n] \in Nat /\ pos[n] # b
      BY <1>1, <1>2, <1>7
    <2>2. pos2[n] = IF a <= pos[n] /\ pos[n] < b THEN pos[n] + 1 ELSE pos[n]
      BY <1>3, <1>7
    <2> QED
      BY <2>1, <2>2
  <1>8. pos2[x] = a
    BY <1>3, <1>4
  <1>9. OrderedBetween(own, pos2, l, a + 1, b + 1)
    <2> SUFFICES ASSUME NEW n \in E, NEW h \in E, a + 1 <= pos2[n], pos2[n] < pos2[h], pos2[h] < b + 1
                 PROVE  Key[n] <= Key[h]
      BY DEF OrderedBetween
    <2>1. n # x /\ h # x
      <3>1. n # x
        BY <1>8
      <3>2. pos2[n] \in Nat
        BY <1>7, <3>1
      <3> QED
        BY <1>8, <3>1, <3>2
    <2>2. pos2[h] \in Nat /\ pos2[n] \in Nat
      BY <1>7, <2>1
    <2>3. a <= pos[n] /\ pos[n] < b /\ pos2[n] = pos[n] + 1
      BY <1>7, <2>1, <2>2
    <2>4. a <= pos[h] /\ pos[h] < b /\ pos2[h] = pos[h] + 1
      BY <1>7, <2>1, <2>2
    <2>5. pos[n] < pos[h]
      BY <1>1, <2>3, <2>4
    <2> QED
      BY <1>5, <2>3, <2>4, <2>5
  <1>10. ASSUME OrderedBetween(own, pos, l, 1, a), OrderedBetween(own, pos, l, b, c), Below(own, pos, l, a, c)
         PROVE  /\ OrderedBetween(own, pos2, l, 1, a + 1) /\ OrderedBetween(own, pos2, l, b + 1, c)
                /\ Below(own, pos2, l, a + 1, c)
    <2>1. \A n, h \in E : 1 <= pos[n] /\ pos[n] < pos[h] /\ pos[h] < a => Key[n] <= Key[h]
      BY <1>10 DEF OrderedBetween
    <2>2. \A n, h \in E : b <= pos[n] /\ pos[n] < pos[h] /\ pos[h] < c => Key[n] <= Key[h]
      BY <1>10 DEF OrderedBetween
    <2>3. \A n, h \in E : pos[n] < a /\ a <= pos[h] /\ pos[h] < c => Key[n] <= Key[h]
      BY <1>10 DEF Below
    <2>4. OrderedBetween(own, pos2, l, 1, a + 1)
      <3> SUFFICES ASSUME NEW n \in E, NEW h \in E, 1 <= pos2[n], pos2[n] < pos2[h], pos2[h] < a + 1
                   PROVE  Key[n] <= Key[h]
        BY DEF OrderedBetween
      <3>1. pos2[n] \in Nat /\ pos2[h] \in Nat
        BY <1>7, <1>8
      <3>2. pos2[h] <= a /\ pos2[n] < a /\ n # x
        BY <1>8, <3>1
      <3>3. pos[n] < a /\ pos2[n] = pos[n]
        BY <1>7, <3>1, <3>2
      <3>4. CASE h = x
        BY <1>4, <2>3, <3>3, <3>4
      <3>5. CASE h # x
        <4>1. pos[h] < a /\ pos2[h] = pos[h]
          BY <1>7, <3>2, <3>5
        <4> QED
          BY <2>1, <3>3, <4>1
      <3> QED
        BY <3>4, <3>5
    <2>5. OrderedBetween(own, pos2, l, b + 1, c)
      <3> SUFFICES ASSUME NEW n \in E, NEW h \in E, b + 1 <= pos2[n], pos2[n] < pos2[h], pos2[h] < c
                   PROVE  Key[n] <= Key[h]
        BY DEF OrderedBetween
      <3>1. pos2[n] \in Nat /\ pos2[h] \in Nat
        BY <1>7, <1>8
      <3>2. n # x /\ h # x /\ pos2[h] >= b + 1
        BY <1>8, <3>1
      <3>3. pos2[n] = pos[n] /\ pos2[h] = pos[h] /\ pos[n] >= b + 1
        BY <1>7, <3>1, <3>2
      <3>4. b <= pos[n]
        BY <1>1, <3>3
      <3> QED
        BY <2>2, <3>3, <3>4
    <2>6. Below(own, pos2, l, a + 1, c)
      <3> SUFFICES ASSUME NEW n \in E, NEW h \in E, pos2[n] < a + 1, a + 1 <= pos2[h], pos2[h] < c
                   PROVE  Key[n] <= Key[h]
        BY DEF Below
      <3>1. pos2[n] \in Nat /\ pos2[h] \in Nat
        BY <1>7, <1>8
      <3>2. h # x
        BY <1>8, <3>1
      <3>3. a <= pos[h] /\ pos[h] < c /\ (pos[h] < b \/ pos[h] >= b + 1)
        BY <1>1, <1>7, <3>1, <3>2
      <3>4. CASE n = x
        <4>1. CASE pos[h] < b
          BY <1>1, <1>4, <1>6, <3>3, <3>4, <4>1
        <4>2. CASE pos[h] >= b + 1
          <5>1. b <= pos[x] /\ pos[x] < pos[h]
            BY <1>1, <4>2
          <5> QED
            BY <1>4, <2>2, <3>3, <3>4, <5>1
        <4> QED
          BY <3>3, <4>1, <4>2
      <3>5. CASE n # x
        <4>1. pos[n] < a
          BY <1>7, <3>1, <3>5
        <4> QED
          BY <2>3, <3>3, <4>1
      <3> QED
        BY <3>4, <3>5
    <2> QED
      BY <2>4, <2>5, <2>6
  <1>11. ASSUME NEW s, NEW was, Stable(s, l, own, pos, was), c <= pos[Tail_(l)]
         PROVE  Stable(s, l, own, pos2, was)
    <2>1. \A n, h \in E : Key[n] = Key[h] /\ pos[n] < pos[h] => was[n] < was[h]
      BY <1>11 DEF Stable
    <2>2. ASSUME NEW n \in E, NEW h \in E, Key[n] = Key[h], pos2[n] < pos2[h] PROVE was[n] < was[h]
      <3>1. n # x \/ pos[h] >= b + 1
        <4> SUFFICES ASSUME n = x PROVE pos[h] >= b + 1
          OBVIOUS
        <4>1. h # x
          BY <1>8, <2>2
        <4>2. pos2[h] \in Nat /\ pos2[h] >= a + 1
          BY <1>7, <1>8, <2>2, <4>1
        <4>3. ~(a <= pos[h] /\ pos[h] < b)
          BY <1>1, <1>4, <1>6, <2>2
        <4> QED
          BY <1>7, <4>1, <4>2, <4>3
      <3>2. pos[n] < pos[h]
        <4>1. CASE n = x
          BY <1>1, <3>1, <4>1
        <4>2. CASE h = x
          <5>1. n # x /\ pos2[n] < a
            BY <1>8, <2>2, <4>2
          <5>2. pos[n] < a
            BY <1>7, <5>1
          <5> QED
            BY <1>1, <4>2, <5>2
        <4>3. CASE n # x /\ h # x
          <5>1. pos[n] \in Nat /\ pos[h] \in Nat /\ pos[n] # b /\ pos[h] # b
            BY <1>1, <1>2, <4>3
          <5>2. /\ pos2[n] = IF a <= pos[n] /\ pos[n] < b THEN pos[n] + 1 ELSE pos[n]
                /\ pos2[h] = IF a <= pos[h] /\ pos[h] < b THEN pos[h] + 1 ELSE pos[h]
            BY <1>3, <4>3
          <5> QED
            BY <2>2, <5>1, <5>2
        <4> QED
          BY <4>1, <4>2, <4>3
      <3> QED
        BY <2>1, <2>2, <3>2
    <2>3. ASSUME NEW n \in Node, own[n] # l \/ n = Tail_(l) PROVE pos2[n] = pos[n]
      <3>1. n # x
        BY <2>3, NodeLemma
      <3>2. pos2[n] = IF own[n] = l /\ a <= pos[n] /\ pos[n] < b THEN pos[n] + 1 ELSE pos[n]
        BY <3>1 DEF MovePos
      <3>3. pos[Tail_(l)] \in Nat
        BY NodeLemma DEF Rep, Placed
      <3>4. n = Tail_(l) => ~(pos[n] < b)
        BY <1>11, <3>3
      <3> QED
        BY <2>3, <3>2, <3>4
    <2> QED
      BY <1>11, <2>2, <2>3 DEF Stable
  <1> QED
    BY <1>9, <1>10, <1>11

LEMMA MergeStep ==
    ASSUME Inv, Merge
    PROVE  Inv'
  <1>1. PICK own, pos : Rep(links, own, pos) /\ JobOK(job, before, links, own, pos)
    BY DEF Inv
  <1>2. job.doing = "merge" /\ Remembered
    BY DEF Merge
  <1>3. SortingOK(job, before, own, pos)
    BY <1>1, <1>2 DEF JobOK, NoJob, UniquingOK, UniqueOK, UniqueJob
  <1>4. PICK l, a0, a1b0, b1, runs :
            /\ l = job.list /\ a0 = job.a0 /\ a1b0 = job.a1b0 /\ b1 = job.b1
            /\ runs = job.output_run_cnt
    OBVIOUS
  <1>5. /\ job \in SortJob /\ l \in List
        /\ InPlace(own, pos, l, a0) /\ InPlace(own, pos, l, a1b0) /\ InPlace(own, pos, l, b1)
        /\ pos[a0] <= pos[a1b0] /\ pos[a1b0] <= pos[b1]
    BY <1>2, <1>3, <1>4 DEF SortingOK, SortOK, SortJob
  <1>6. a0 \in Node /\ a1b0 \in Node /\ b1 \in Node /\ own[a0] = l /\ own[a1b0] = l /\ own[b1] = l
    BY <1>5 DEF InPlace
  <1>7. \A n \in Node : pos[n] \in Nat
    BY <1>1 DEF Rep, Placed
  <1>8. PICK a \in Nat, b \in Nat, c \in Nat : a = pos[a0] /\ b = pos[a1b0] /\ c = pos[b1] /\ a > 0
    BY <1>5, <1>6, <1>7 DEF InPlace
  <1>9. /\ runs >= 1 /\ runs \in Nat /\ OrderedBetween(own, pos, l, a, b)
        /\ runs = 1 => /\ OrderedBetween(own, pos, l, 1, a) /\ OrderedBetween(own, pos, l, b, c)
                       /\ Below(own, pos, l, a, c)
    BY <1>2, <1>3, <1>4, <1>5, <1>8 DEF SortingOK, PassOK, SortJob
  <1>10. PICK was : Stable(before, l, own, pos, was)
    BY <1>3, <1>4 DEF SortingOK
  <1>11. c <= pos[Tail_(l)] /\ Tail_(l) \in Node /\ pos[Tail_(l)] \in Nat
    BY <1>1, <1>5, <1>6, <1>8, NodeLemma DEF Rep, Placed
  <1>12. \A n \in Elem : Key[n] \in Int /\ pos[n] \in Nat
    BY <1>7, NodeLemma, LinkedListsAssumption
  \* What is left to show of a step.
  <1>13. ASSUME NEW pos2, Rep(links', own, pos2), SortOK(job', own, pos2), PassOK(job', own, pos2),
                Stable(before, job'.list, own, pos2, was)
         PROVE  Inv'
    <2>1. JobOK(job', before, links', own, pos2)
      BY <1>13 DEF JobOK, SortingOK
    <2>2. JobOK(job', before', links', own, pos2)
      BY <1>2, <2>1, RememberedLemma
    <2> QED
      BY <1>13, <2>2 DEF Inv
  <1>14. CASE a0 = a1b0 \/ a1b0 = b1
    <2>1. job' = [job EXCEPT !.doing = "runs", !.a0 = b1] /\ links' = links
      BY <1>4, <1>14 DEF Merge
    <2>2. /\ job' \in SortJob /\ job'.a0 = b1 /\ job'.list = l /\ job'.doing = "runs"
          /\ job'.output_run_cnt = runs
      BY <1>4, <1>5, <1>6, <2>1 DEF SortJob
    <2>3. SortOK(job', own, pos)
      BY <1>5, <2>2 DEF SortOK
    <2>4. runs = 1 => OrderedBetween(own, pos, l, 1, c)
      <3> SUFFICES ASSUME runs = 1, NEW n \in Elem, NEW h \in Elem, own[n] = l, own[h] = l,
                          1 <= pos[n], pos[n] < pos[h], pos[h] < c
                   PROVE  Key[n] <= Key[h]
        BY DEF OrderedBetween
      <3>1. CASE pos[h] < a
        BY <1>9, <3>1 DEF OrderedBetween
      <3>2. CASE pos[n] < a /\ a <= pos[h]
        BY <1>9, <3>2 DEF Below
      <3>3. CASE a <= pos[n]
        <4>1. a = b \/ b = c
          BY <1>8, <1>14
        <4> QED
          BY <1>9, <3>3, <4>1 DEF OrderedBetween
      <3> QED
        BY <1>12, <3>1, <3>2, <3>3
    <2>5. PassOK(job', own, pos)
      BY <1>8, <1>9, <2>2, <2>4 DEF PassOK
    <2> QED
      BY <1>1, <1>10, <1>13, <2>1, <2>2, <2>3, <2>5
  <1>15. CASE ~(a0 = a1b0 \/ a1b0 = b1)
    <2>1. a < b /\ b < c
      <3>1. pos[a0] # pos[a1b0] /\ pos[a1b0] # pos[b1]
        BY <1>1, <1>5, <1>6, <1>15, OnePlace
      <3> QED
        BY <1>5, <1>8, <3>1
    <2>2. a0 \in Elem /\ a1b0 \in Elem
      <3>1. a0 # Tail_(l) /\ a1b0 # Tail_(l)
        BY <1>8, <1>11, <2>1
      <3>2. a0 # Head_(l) /\ a1b0 # Head_(l)
        BY <1>1, <1>5, <1>8, <2>1 DEF Rep, Placed
      <3> QED
        BY <1>1, <1>5, <1>6, <3>1, <3>2, EndsLemma
    <2>3. CASE ~GoesFirst(a1b0, a0)
      <3>1. PICK n : n = links.next[a0]
        OBVIOUS
      <3>2. job' = [job EXCEPT !.a0 = n] /\ links' = links
        BY <1>4, <1>15, <2>3, <3>1 DEF Merge
      <3>3. n \in Node /\ own[n] = l /\ pos[n] = a + 1
        <4>1. a0 # Tail_(l)
          BY <1>5, <2>2, NodeLemma
        <4> QED
          BY <1>1, <1>5, <1>6, <1>8, <3>1, <4>1 DEF Rep, Linked
      <3>4. /\ job' \in SortJob /\ job'.a0 = n /\ job'.list = l /\ job'.doing = "merge"
            /\ job'.a1b0 = a1b0 /\ job'.b1 = b1 /\ job'.output_run_cnt = runs
        BY <1>2, <1>4, <1>5, <3>2, <3>3 DEF SortJob
      <3>5. SortOK(job', own, pos)
        <4>1. pos[n] > 0 /\ pos[n] <= pos[a1b0]
          BY <1>8, <2>1, <3>3
        <4> QED
          BY <1>5, <3>3, <3>4, <4>1 DEF SortOK, InPlace
      <3>6. Key[a0] <= Key[a1b0]
        BY <1>12, <2>2, <2>3 DEF GoesFirst, less
      <3>7. OrderedBetween(own, pos, l, a + 1, b)
        BY <1>9, <1>12 DEF OrderedBetween
      <3>8. \A n1 \in Elem : own[n1] = l /\ pos[n1] = a => n1 = a0
        BY <1>1, <1>5, <1>6, <1>8, NodeLemma, OnePlace
      <3>9. ASSUME runs = 1
            PROVE  OrderedBetween(own, pos, l, 1, a + 1) /\ Below(own, pos, l, a + 1, c)
        <4>1. OrderedBetween(own, pos, l, 1, a + 1)
          <5> SUFFICES ASSUME NEW n1 \in Elem, NEW h \in Elem, own[n1] = l, own[h] = l,
                              1 <= pos[n1], pos[n1] < pos[h], pos[h] < a + 1
                       PROVE  Key[n1] <= Key[h]
            BY DEF OrderedBetween
          <5>1. CASE pos[h] < a
            BY <1>9, <3>9, <5>1 DEF OrderedBetween
          <5>2. CASE pos[h] = a
            <6>1. pos[n1] < a /\ a <= pos[h] /\ pos[h] < c
              BY <2>1, <5>2
            <6> QED
              BY <1>9, <3>9, <6>1 DEF Below
          <5> QED
            BY <1>12, <5>1, <5>2
        <4>2. ASSUME NEW h \in Elem, own[h] = l, a < pos[h], pos[h] < c PROVE Key[a0] <= Key[h]
          <5>1. CASE pos[h] < b
            BY <1>6, <1>8, <1>9, <2>2, <4>2, <5>1 DEF OrderedBetween
          <5>2. CASE pos[h] = b
            <6>1. h = a1b0
              BY <1>1, <1>5, <1>6, <1>8, <4>2, <5>2, NodeLemma, OnePlace
            <6> QED
              BY <3>6, <6>1
          <5>3. CASE b < pos[h]
            <6>1. Key[a1b0] <= Key[h]
              BY <1>6, <1>8, <1>9, <2>2, <3>9, <4>2, <5>3 DEF OrderedBetween
            <6> QED
              BY <1>12, <2>2, <3>6, <6>1
          <5> QED
            BY <1>12, <5>1, <5>2, <5>3
        <4>3. Below(own, pos, l, a + 1, c)
          <5> SUFFICES ASSUME NEW n1 \in Elem, NEW h \in Elem, own[n1] = l, own[h] = l,
                              pos[n1] < a + 1, a + 1 <= pos[h], pos[h] < c
                       PROVE  Key[n1] <= Key[h]
            BY DEF Below
          <5>1. a < pos[h] /\ a <= pos[h]
            BY <1>12
          <5>2. CASE pos[n1] < a
            BY <1>9, <3>9, <5>1, <5>2 DEF Below
          <5>3. CASE pos[n1] = a
            BY <3>8, <4>2, <5>1, <5>3
          <5> QED
            BY <1>12, <5>2, <5>3
        <4> QED
          BY <4>1, <4>3
      <3>10. PassOK(job', own, pos)
        BY <1>8, <1>9, <3>3, <3>4, <3>7, <3>9 DEF PassOK
      <3> QED
        BY <1>1, <1>10, <1>13, <3>2, <3>4, <3>5, <3>10
    <2>4. CASE GoesFirst(a1b0, a0)
      <3>1. PICK n : n = links.next[a1b0]
        OBVIOUS
      <3>2. job' = [job EXCEPT !.a1b0 = n] /\ links' = list_splice(links, a0, a1b0, n)
        BY <1>4, <1>15, <2>4, <3>1 DEF Merge
      <3>3. PICK pos2 : pos2 = MovePos(own, pos, l, a0, a1b0)
        OBVIOUS
      <3>4. Rep(links', own, pos2) /\ n \in Node /\ own[n] = l /\ pos[n] = b + 1
        BY <1>1, <1>5, <1>8, <2>1, <2>2, <3>1, <3>2, <3>3, MoveLemma DEF InPlace
      <3>5. pos2[a0] = a + 1 /\ pos2[n] = b + 1 /\ pos2[b1] = c
        <4>1. n # a1b0 /\ b1 # a1b0 /\ a0 # a1b0
          BY <1>8, <2>1, <3>4
        <4> QED
          BY <1>6, <1>8, <2>1, <3>3, <3>4, <4>1 DEF MovePos
      <3>6. /\ job' \in SortJob /\ job'.a0 = a0 /\ job'.list = l /\ job'.doing = "merge"
            /\ job'.a1b0 = n /\ job'.b1 = b1 /\ job'.output_run_cnt = runs
        BY <1>2, <1>4, <1>5, <3>2, <3>4 DEF SortJob
      <3>7. SortOK(job', own, pos2)
        <4>1. /\ InPlace(own, pos2, l, a0) /\ InPlace(own, pos2, l, n) /\ InPlace(own, pos2, l, b1)
              /\ pos2[a0] <= pos2[n] /\ pos2[n] <= pos2[b1]
          BY <1>6, <1>8, <2>1, <3>4, <3>5 DEF InPlace
        <4> QED
          BY <3>6, <4>1 DEF SortOK
      <3>8. Key[a1b0] < Key[a0]
        BY <2>4 DEF GoesFirst, less
      <3>9. /\ OrderedBetween(own, pos2, l, a + 1, b + 1)
            /\ runs = 1 => /\ OrderedBetween(own, pos2, l, 1, a + 1)
                           /\ OrderedBetween(own, pos2, l, b + 1, c)
                           /\ Below(own, pos2, l, a + 1, c)
            /\ Stable(before, l, own, pos2, was)
        BY <1>1, <1>5, <1>6, <1>8, <1>9, <1>10, <1>11, <2>1, <2>2, <3>3, <3>8, MovedLemma
      <3>10. PassOK(job', own, pos2)
        BY <1>9, <3>5, <3>6, <3>9 DEF PassOK
      <3> QED
        BY <1>13, <3>4, <3>6, <3>7, <3>9, <3>10
    <2> QED
      BY <2>3, <2>4
  <1> QED
    BY <1>14, <1>15

--------------------------------------------------------------------------------
(***************************************************************************)
(* list_unique.                                                            *)
(***************************************************************************)

LEMMA PickedLemma ==
    ASSUME NEW u \in Seq(Elem), NEW at \in Seq(Nat), \A k \in 1 .. Len(at) : at[k] \in 1 .. Len(u)
    PROVE  /\ Picked(u, at) \in Seq(Elem) /\ Len(Picked(u, at)) = Len(at)
           /\ \A k \in 1 .. Len(at) : Picked(u, at)[k] = u[at[k]]
           /\ \A i \in 1 .. Len(u) : Picked(u, Append(at, i)) = Append(Picked(u, at), u[i])
  <1>1. PICK N \in Nat : N = Len(at)
    OBVIOUS
  <1>2. PICK t : t = Picked(u, at)
    OBVIOUS
  <1>3. t = [k \in 1 .. N |-> u[at[k]]] /\ \A k \in 1 .. Len(u) : u[k] \in Elem
    BY <1>1, <1>2 DEF Picked
  <1>4. t \in [1 .. N -> Elem]
    BY <1>1, <1>3
  <1>5. t \in Seq(Elem) /\ Len(t) = N
    BY <1>4
  <1>6. ASSUME NEW i \in 1 .. Len(u) PROVE Picked(u, Append(at, i)) = Append(t, u[i])
    <2>1. PICK b : b = Append(at, i)
      OBVIOUS
    <2>2. i \in Nat /\ u[i] \in Elem
      BY <1>3
    <2>3. /\ b \in Seq(Nat) /\ Len(b) = N + 1 /\ b[N + 1] = i
          /\ \A k \in 1 .. N : b[k] = at[k]
      BY <1>1, <2>1, <2>2, AppendProperties
    <2>4. PICK v : v = Append(t, u[i])
      OBVIOUS
    <2>5. /\ v \in Seq(Elem) /\ Len(v) = N + 1 /\ v[N + 1] = u[i]
          /\ \A k \in 1 .. N : v[k] = t[k]
      BY <1>5, <2>2, <2>4, AppendProperties
    <2>6. v = [k \in 1 .. N + 1 |-> v[k]]
      BY <2>5
    <2>7. ASSUME NEW k \in 1 .. N + 1 PROVE v[k] = u[b[k]]
      <3>1. CASE k = N + 1
        BY <2>3, <2>5, <3>1
      <3>2. CASE k # N + 1
        <4>1. k \in 1 .. N
          BY <3>2
        <4> QED
          BY <1>3, <2>3, <2>5, <4>1
      <3> QED
        BY <3>1, <3>2
    <2>8. Picked(u, b) = [k \in 1 .. N + 1 |-> u[b[k]]]
      BY <2>3 DEF Picked
    <2> QED
      BY <2>1, <2>4, <2>6, <2>7, <2>8
  <1> QED
    BY <1>1, <1>2, <1>3, <1>5, <1>6

LEMMA RestLemma ==
    ASSUME NEW a \in Seq(Elem), NEW u \in Seq(Elem), NEW w \in 0 .. Len(u)
    PROVE  /\ Rest(a, u, w) \in Seq(Elem) /\ Len(Rest(a, u, w)) = Len(a) + (Len(u) - w)
           /\ \A k \in 1 .. Len(a) + (Len(u) - w) :
                 Rest(a, u, w)[k] = IF k <= Len(a) THEN a[k] ELSE u[w + (k - Len(a))]
           /\ w = Len(u) => Rest(a, u, w) = a
  <1>1. PICK N \in Nat, L \in Nat : N = Len(u) /\ L = Len(a) /\ \A k \in 1 .. N : u[k] \in Elem
    OBVIOUS
  <1>2. PICK b, h : h = w + 1 /\ b = SubSeq(u, h, N)
    OBVIOUS
  <1>3. w \in 0 .. N /\ w \in Nat /\ h \in 1 .. N + 1 /\ N - w \in Nat
    BY <1>1, <1>2
  <1>4. b \in Seq(Elem) /\ Len(b) = N - w /\ \A k \in 1 .. N - w : b[k] = u[w + k]
    <2>1. \A k \in h .. N : u[k] \in Elem
      BY <1>1, <1>3
    <2>2. /\ b \in Seq(Elem) /\ Len(b) = (IF h <= N THEN N - h + 1 ELSE 0)
          /\ \A k \in 1 .. N - h + 1 : b[k] = u[h + k - 1]
      BY <1>2, <1>3, <2>1, SubSeqProperties
    <2>3. \A k \in 1 .. N - w : k \in 1 .. N - h + 1 /\ h + k - 1 = w + k
      BY <1>2, <1>3
    <2> QED
      BY <1>2, <1>3, <2>2, <2>3
  <1>5. PICK t : t = a \o b
    OBVIOUS
  <1>6. /\ t \in Seq(Elem) /\ Len(t) = L + (N - w)
        /\ \A k \in 1 .. L + (N - w) : t[k] = IF k <= L THEN a[k] ELSE b[k - L]
    <2>1. /\ t \in Seq(Elem) /\ Len(t) = Len(a) + Len(b)
          /\ \A k \in 1 .. Len(a) + Len(b) : t[k] = IF k <= Len(a) THEN a[k] ELSE b[k - Len(a)]
      BY <1>4, <1>5, ConcatProperties
    <2> QED
      BY <1>1, <1>4, <2>1
  <1>7. ASSUME NEW k \in 1 .. L + (N - w) PROVE t[k] = IF k <= L THEN a[k] ELSE u[w + (k - L)]
    <2>1. CASE k <= L
      BY <1>6, <2>1
    <2>2. CASE ~(k <= L)
      <3>1. PICK i \in 1 .. N - w : i = k - L
        BY <1>1, <1>3, <2>2
      <3> QED
        BY <1>4, <1>6, <2>2, <3>1
    <2> QED
      BY <2>1, <2>2
  <1>8. ASSUME w = N PROVE t = a
    <2>1. Len(t) = L /\ \A k \in 1 .. L : t[k] = a[k]
      BY <1>1, <1>3, <1>6, <1>8
    <2> QED
      BY <1>1, <1>6, <2>1, SeqEqual
  <1>9. Rest(a, u, w) = t
    BY <1>1, <1>2, <1>5 DEF Rest
  <1> QED
    BY <1>1, <1>6, <1>7, <1>8, <1>9

\* The next element stays, or goes.
LEMMA RestStays ==
    ASSUME NEW a \in Seq(Elem), NEW u \in Seq(Elem), NEW w \in 0 .. Len(u) - 1
    PROVE  Rest(Append(a, u[w + 1]), u, w + 1) = Rest(a, u, w)
  <1>1. PICK N \in Nat, L \in Nat : N = Len(u) /\ L = Len(a) /\ \A k \in 1 .. N : u[k] \in Elem
    OBVIOUS
  <1>2. PICK h \in 1 .. N : h = w + 1 /\ w \in 0 .. N
    BY <1>1
  <1>3. PICK b : b = Append(a, u[h])
    OBVIOUS
  <1>4. /\ b \in Seq(Elem) /\ Len(b) = L + 1 /\ b[L + 1] = u[h]
        /\ \A k \in 1 .. L : b[k] = a[k]
    BY <1>1, <1>3, AppendProperties
  <1>5. PICK s, t : s = Rest(a, u, w) /\ t = Rest(b, u, h)
    OBVIOUS
  <1>6. /\ s \in Seq(Elem) /\ Len(s) = L + (N - w)
        /\ \A k \in 1 .. L + (N - w) : s[k] = IF k <= L THEN a[k] ELSE u[w + (k - L)]
    BY <1>1, <1>2, <1>5, RestLemma, Zenon
  <1>7. /\ t \in Seq(Elem) /\ Len(t) = (L + 1) + (N - h)
        /\ \A k \in 1 .. (L + 1) + (N - h) : t[k] = IF k <= L + 1 THEN b[k] ELSE u[h + (k - (L + 1))]
    <2>1. h \in 0 .. Len(u)
      BY <1>1, <1>2
    <2>2. /\ t \in Seq(Elem) /\ Len(t) = Len(b) + (Len(u) - h)
          /\ \A k \in 1 .. Len(b) + (Len(u) - h) :
                t[k] = IF k <= Len(b) THEN b[k] ELSE u[h + (k - Len(b))]
      BY <1>4, <1>5, <2>1, RestLemma, Zenon
    <2> QED
      BY <1>1, <1>4, <2>2
  <1>8. PICK M \in Nat : M = L + (N - w) /\ M = (L + 1) + (N - h)
    <2>1. L + (N - w) \in Nat /\ L + (N - w) = (L + 1) + (N - h)
      BY <1>1, <1>2
    <2> QED
      BY <2>1
  <1>9. ASSUME NEW k \in 1 .. M PROVE t[k] = s[k]
    <2>1. CASE k <= L
      <3>1. k \in 1 .. L /\ k <= L + 1
        BY <1>1, <2>1
      <3> QED
        BY <1>4, <1>6, <1>7, <1>8, <2>1, <3>1
    <2>2. CASE k = L + 1
      <3>1. k <= L + 1 /\ ~(k <= L) /\ w + (k - L) = h
        BY <1>1, <1>2, <2>2
      <3>2. t[k] = b[k] /\ s[k] = u[h]
        BY <1>6, <1>7, <1>8, <3>1
      <3> QED
        BY <1>4, <2>2, <3>2
    <2>3. CASE ~(k <= L + 1)
      <3>1. ~(k <= L) /\ w + (k - L) = h + (k - (L + 1))
        BY <1>1, <1>2, <2>3
      <3> QED
        BY <1>6, <1>7, <1>8, <2>3, <3>1
    <2> QED
      BY <1>1, <2>1, <2>2, <2>3
  <1>10. s = t
    BY <1>6, <1>7, <1>8, <1>9, SeqEqual
  <1> QED
    BY <1>2, <1>3, <1>5, <1>10

LEMMA RestGoes ==
    ASSUME NEW a \in Seq(Elem), NEW u \in Seq(Elem), NEW w \in 0 .. Len(u) - 1
    PROVE  Abstract!Without(Rest(a, u, w), Len(a) + 1, Len(a) + 1) = Rest(a, u, w + 1)
  <1>1. PICK N \in Nat, L \in Nat : N = Len(u) /\ L = Len(a)
    OBVIOUS
  <1>2. PICK h \in 1 .. N : h = w + 1 /\ w \in 0 .. N
    BY <1>1
  <1>3. PICK s, t : s = Rest(a, u, w) /\ t = Rest(a, u, h)
    OBVIOUS
  <1>4. /\ s \in Seq(Elem) /\ Len(s) = L + (N - w)
        /\ \A k \in 1 .. L + (N - w) : s[k] = IF k <= L THEN a[k] ELSE u[w + (k - L)]
    <2>1. w \in 0 .. Len(u)
      BY <1>1, <1>2
    <2>2. /\ s \in Seq(Elem) /\ Len(s) = Len(a) + (Len(u) - w)
          /\ \A k \in 1 .. Len(a) + (Len(u) - w) : s[k] = IF k <= Len(a) THEN a[k] ELSE u[w + (k - Len(a))]
      BY <1>3, <2>1, RestLemma, Zenon
    <2> QED
      BY <1>1, <2>2
  <1>5. /\ t \in Seq(Elem) /\ Len(t) = L + (N - h)
        /\ \A k \in 1 .. L + (N - h) : t[k] = IF k <= L THEN a[k] ELSE u[h + (k - L)]
    <2>1. h \in 0 .. Len(u)
      BY <1>1, <1>2
    <2> QED
      BY <1>1, <1>3, <2>1, RestLemma, Zenon
  <1>6. PICK M \in Nat : M = L + (N - h) /\ M + 1 = Len(s)
    <2>1. L + (N - h) \in Nat /\ L + (N - h) + 1 = L + (N - w)
      BY <1>1, <1>2
    <2> QED
      BY <1>4, <2>1
  <1>7. PICK i \in 1 .. Len(s) : i = L + 1
    BY <1>1, <1>2, <1>4
  <1>8. PICK v : v = Abstract!Without(s, i, i)
    OBVIOUS
  <1>9. /\ v \in Seq(Elem) /\ Len(v) = M
        /\ \A k \in 1 .. M : v[k] = IF k < i THEN s[k] ELSE s[k + 1]
    <2>1. i \in i .. Len(s) /\ i - i + 1 = 1 /\ Len(s) - 1 = M
      BY <1>6, <1>7
    <2>2. /\ v \in Seq(Elem) /\ Len(v) = Len(s) - (i - i + 1)
          /\ \A k \in 1 .. Len(s) - (i - i + 1) :
                v[k] = IF k < i THEN s[k] ELSE s[k + (i - i + 1)]
      BY <1>4, <1>8, <2>1, WithoutLemma
    <2> QED
      BY <2>1, <2>2
  <1>10. ASSUME NEW k \in 1 .. M PROVE v[k] = t[k]
    <2>1. CASE k <= L
      <3>1. k < i /\ k \in 1 .. L + (N - w)
        BY <1>1, <1>4, <1>6, <1>7, <2>1
      <3> QED
        BY <1>4, <1>5, <1>6, <1>9, <2>1, <3>1
    <2>2. CASE ~(k <= L)
      <3>1. /\ ~(k < i) /\ k + 1 \in 1 .. L + (N - w) /\ ~(k + 1 <= L)
            /\ w + ((k + 1) - L) = h + (k - L)
        BY <1>1, <1>2, <1>4, <1>6, <1>7, <2>2
      <3> QED
        BY <1>4, <1>5, <1>6, <1>9, <2>2, <3>1
    <2> QED
      BY <2>1, <2>2
  <1>11. v = t
    BY <1>5, <1>6, <1>9, <1>10, SeqEqual
  <1> QED
    BY <1>1, <1>2, <1>3, <1>7, <1>8, <1>11

\* An element comes to the end of s with a run behind it.
LEMMA InsertedLast ==
    ASSUME NEW s \in Seq(Elem), NEW r \in Seq(Elem), NEW e \in Elem
    PROVE  Abstract!Inserted(s \o r, Len(s \o r) + 1, <<e>>) = s \o Append(r, e)
  <1>1. PICK N \in Nat, L \in Nat : N = Len(s) /\ L = Len(r)
    OBVIOUS
  <1>2. PICK t, a, x : t = s \o r /\ a = Append(r, e) /\ x = <<e>>
    OBVIOUS
  <1>3. /\ t \in Seq(Elem) /\ Len(t) = N + L
        /\ \A k \in 1 .. N + L : t[k] = IF k <= N THEN s[k] ELSE r[k - N]
    BY <1>1, <1>2, ConcatProperties
  <1>4. a \in Seq(Elem) /\ Len(a) = L + 1 /\ a[L + 1] = e /\ \A k \in 1 .. L : a[k] = r[k]
    BY <1>1, <1>2, AppendProperties
  <1>5. x \in Seq(Elem) /\ Len(x) = 1 /\ x[1] = e
    BY <1>2
  <1>6. PICK i \in 1 .. Len(t) + 1 : i = N + L + 1 /\ i = Len(t) + 1
    BY <1>1, <1>3
  <1>7. PICK v : v = Abstract!Inserted(t, i, x)
    OBVIOUS
  <1>8. /\ v \in Seq(Elem) /\ Len(v) = N + L + 1
        /\ \A k \in 1 .. N + L + 1 : v[k] = IF k < i THEN t[k] ELSE IF k < i + 1 THEN x[k - i + 1] ELSE t[k - 1]
    <2>1. /\ v \in Seq(Elem) /\ Len(v) = Len(t) + Len(x)
          /\ \A k \in 1 .. Len(t) + Len(x) : v[k] = IF k < i THEN t[k]
                                                   ELSE IF k < i + Len(x) THEN x[k - i + 1]
                                                   ELSE t[k - Len(x)]
      BY <1>3, <1>5, <1>7, InsertedLemma
    <2> QED
      BY <1>3, <1>5, <2>1
  <1>9. PICK z : z = s \o a
    OBVIOUS
  <1>10. /\ z \in Seq(Elem) /\ Len(z) = N + (L + 1)
         /\ \A k \in 1 .. N + (L + 1) : z[k] = IF k <= N THEN s[k] ELSE a[k - N]
    <2>1. /\ z \in Seq(Elem) /\ Len(z) = Len(s) + Len(a)
          /\ \A k \in 1 .. Len(s) + Len(a) : z[k] = IF k <= Len(s) THEN s[k] ELSE a[k - Len(s)]
      <3>1. PICK b : b = a
        OBVIOUS
      <3>2. b \in Seq(Elem) /\ z = s \o b
        BY <1>4, <1>9, <3>1
      <3>3. /\ z \in Seq(Elem) /\ Len(z) = Len(s) + Len(b)
            /\ \A k \in 1 .. Len(s) + Len(b) : z[k] = IF k <= Len(s) THEN s[k] ELSE b[k - Len(s)]
        BY <3>2, ConcatProperties
      <3> QED
        BY <3>1, <3>3
    <2> QED
      BY <1>1, <1>4, <2>1
  <1>11. ASSUME NEW k \in 1 .. N + L + 1 PROVE v[k] = z[k]
    <2>1. CASE k = i
      <3>1. k - i + 1 = 1 /\ ~(k < i) /\ k < i + 1 /\ ~(k <= N) /\ k - N = L + 1
        BY <1>1, <1>6, <2>1
      <3>2. v[k] = x[k - i + 1] /\ z[k] = a[k - N]
        BY <1>1, <1>8, <1>10, <3>1
      <3> QED
        BY <1>4, <1>5, <3>1, <3>2
    <2>2. CASE k # i
      <3>1. k < i /\ k \in 1 .. N + L
        BY <1>1, <1>6, <2>2
      <3>2. v[k] = t[k]
        BY <1>8, <3>1
      <3>3. CASE k <= N
        BY <1>1, <1>3, <1>10, <3>1, <3>2, <3>3
      <3>4. CASE ~(k <= N)
        <4>1. k - N \in 1 .. L /\ k \in 1 .. N + (L + 1)
          BY <1>1, <3>1, <3>4
        <4>2. t[k] = r[k - N] /\ z[k] = a[k - N] /\ a[k - N] = r[k - N]
          BY <1>3, <1>4, <1>10, <3>1, <3>4, <4>1
        <4> QED
          BY <3>2, <4>2
      <3> QED
        BY <3>3, <3>4
    <2> QED
      BY <2>1, <2>2
  <1>12. v = z
    <2>1. Len(v) = Len(z) /\ \A k \in 1 .. Len(v) : v[k] = z[k]
      BY <1>1, <1>8, <1>10, <1>11
    <2> QED
      BY <1>8, <1>10, <2>1, SeqEqual
  <1>13. Len(t) + 1 = i
    BY <1>6
  <1> QED
    BY <1>2, <1>7, <1>9, <1>12, <1>13

\* One more place.
LEMMA NextPlace ==
    ASSUME NEW at \in Seq(Nat), NEW w \in Nat, NEW P \in SUBSET (1 .. w), Enumerates(at, Len(at), P),
           NEW h, h = w + 1
    PROVE  /\ Append(at, h) \in Seq(Nat) /\ Len(Append(at, h)) = Len(at) + 1
           /\ Enumerates(Append(at, h), Len(Append(at, h)), P \cup {h})
  <1>1. PICK N \in Nat : N = Len(at)
    OBVIOUS
  <1>2. PICK b : b = Append(at, h)
    OBVIOUS
  <1>3. b \in Seq(Nat) /\ Len(b) = N + 1 /\ b[N + 1] = h /\ \A k \in 1 .. N : b[k] = at[k]
    BY <1>1, <1>2, AppendProperties
  <1>4. \A k \in 1 .. N : at[k] \in P /\ at[k] < h
    BY <1>1 DEF Enumerates
  <1>5. \A k \in 1 .. N + 1 : b[k] \in P \cup {h}
    <2> SUFFICES ASSUME NEW k \in 1 .. N + 1 PROVE b[k] \in P \cup {h}
      OBVIOUS
    <2>1. k = N + 1 \/ k \in 1 .. N
      OBVIOUS
    <2> QED
      BY <1>3, <1>4, <2>1
  <1>6. \A i, k \in 1 .. N + 1 : i < k => b[i] < b[k]
    <2> SUFFICES ASSUME NEW i \in 1 .. N + 1, NEW k \in 1 .. N + 1, i < k PROVE b[i] < b[k]
      OBVIOUS
    <2>1. i \in 1 .. N /\ (k = N + 1 \/ k \in 1 .. N)
      OBVIOUS
    <2>2. CASE k = N + 1
      BY <1>3, <1>4, <2>1, <2>2
    <2>3. CASE k \in 1 .. N
      BY <1>1, <1>3, <2>1, <2>3 DEF Enumerates
    <2> QED
      BY <2>1, <2>2, <2>3
  <1>7. \A i \in P \cup {h} : \E k \in 1 .. N + 1 : b[k] = i
    <2> SUFFICES ASSUME NEW i \in P \cup {h} PROVE \E k \in 1 .. N + 1 : b[k] = i
      OBVIOUS
    <2>1. CASE i = h
      BY <1>3, <2>1
    <2>2. CASE i \in P
      <3>1. PICK k \in 1 .. N : at[k] = i
        BY <1>1, <2>2 DEF Enumerates
      <3>2. k \in 1 .. N + 1
        OBVIOUS
      <3> QED
        BY <1>3, <3>1, <3>2
    <2> QED
      BY <2>1, <2>2
  <1>8. Enumerates(b, N + 1, P \cup {h})
    BY <1>5, <1>6, <1>7 DEF Enumerates
  <1> QED
    BY <1>1, <1>2, <1>3, <1>8

LEMMA LookedNext ==
    ASSUME NEW u, NEW w, NEW kept, NEW gone, Looked(u, w, kept, gone), w < Len(u), NEW h, h = w + 1
    PROVE  /\ h \in Abstract!Repeats(u) => Looked(u, h, kept, Append(gone, h))
           /\ h \notin Abstract!Repeats(u) => Looked(u, h, Append(kept, h), gone)
  <1>1. PICK R : R = Abstract!Repeats(u)
    OBVIOUS
  <1>2. PICK P, Q : P = (1 .. w) \ R /\ Q = (1 .. w) \cap R
    OBVIOUS
  <1>3. /\ u \in Seq(Elem) /\ w \in Nat /\ h \in 1 .. Len(u) /\ kept \in Seq(Nat) /\ gone \in Seq(Nat)
        /\ Enumerates(kept, Len(kept), P) /\ Enumerates(gone, Len(gone), Q)
        /\ P \in SUBSET (1 .. w) /\ Q \in SUBSET (1 .. w)
    BY <1>1, <1>2 DEF Looked
  <1>4. 1 .. h = (1 .. w) \cup {h} /\ h \notin 1 .. w
    BY <1>3
  <1>5. CASE h \in R
    <2>1. (1 .. h) \ R = P /\ (1 .. h) \cap R = Q \cup {h}
      BY <1>2, <1>4, <1>5
    <2>2. Append(gone, h) \in Seq(Nat) /\ Enumerates(Append(gone, h), Len(Append(gone, h)), Q \cup {h})
      BY <1>3, NextPlace
    <2>3. Looked(u, h, kept, Append(gone, h))
      BY <1>1, <1>3, <2>1, <2>2 DEF Looked
    <2> QED
      BY <1>1, <1>5, <2>3
  <1>6. CASE h \notin R
    <2>1. (1 .. h) \cap R = Q /\ (1 .. h) \ R = P \cup {h}
      BY <1>2, <1>4, <1>6
    <2>2. Append(kept, h) \in Seq(Nat) /\ Enumerates(Append(kept, h), Len(Append(kept, h)), P \cup {h})
      BY <1>3, NextPlace
    <2>3. Looked(u, h, Append(kept, h), gone)
      BY <1>1, <1>3, <2>1, <2>2 DEF Looked
    <2> QED
      BY <1>1, <1>6, <2>3
  <1> QED
    BY <1>1, <1>5, <1>6

LEMMA LookedRange ==
    ASSUME NEW u, NEW w, NEW kept, NEW gone, Looked(u, w, kept, gone)
    PROVE  /\ u \in Seq(Elem) /\ w \in 1 .. Len(u) /\ w \in 0 .. Len(u)
           /\ kept \in Seq(Nat) /\ \A k \in 1 .. Len(kept) : kept[k] \in 1 .. Len(u)
           /\ gone \in Seq(Nat) /\ \A k \in 1 .. Len(gone) : gone[k] \in 1 .. Len(u)
           /\ Picked(u, kept) \in Seq(Elem) /\ Len(Picked(u, kept)) = Len(kept)
           /\ Picked(u, gone) \in Seq(Elem)
  <1>1. u \in Seq(Elem) /\ w \in 1 .. Len(u) /\ w \in 0 .. Len(u) /\ kept \in Seq(Nat) /\ gone \in Seq(Nat)
    BY DEF Looked
  <1>2. \A k \in 1 .. Len(kept) : kept[k] \in 1 .. w
    BY DEF Looked, Enumerates
  <1>3. \A k \in 1 .. Len(gone) : gone[k] \in 1 .. w
    BY DEF Looked, Enumerates
  <1>4. \A k \in 1 .. w : k \in 1 .. Len(u)
    BY <1>1
  <1>5. \A k \in 1 .. Len(kept) : kept[k] \in 1 .. Len(u)
    BY <1>2, <1>4
  <1>6. \A k \in 1 .. Len(gone) : gone[k] \in 1 .. Len(u)
    BY <1>3, <1>4
  <1>7. Picked(u, kept) \in Seq(Elem) /\ Len(Picked(u, kept)) = Len(kept)
    BY <1>1, <1>5, PickedLemma
  <1>8. Picked(u, gone) \in Seq(Elem)
    BY <1>1, <1>6, PickedLemma
  <1> QED
    BY <1>1, <1>5, <1>6, <1>7, <1>8

\* The first element stays.
LEMMA LookedFirst ==
    ASSUME NEW u \in Seq(Elem), u # <<>>
    PROVE  /\ Looked(u, 1, <<1>>, <<>>) /\ Rest(Picked(u, <<1>>), u, 1) = u
           /\ \A s \in Seq(Elem) : s \o Picked(u, <<>>) = s
  <1>1. PICK N \in Nat \ {0} : N = Len(u)
    OBVIOUS
  <1>2. PICK one, none : one = <<1>> /\ none = <<>>
    OBVIOUS
  <1>3. /\ one \in Seq(Nat) /\ Len(one) = 1 /\ one[1] = 1 /\ none \in Seq(Nat) /\ Len(none) = 0
    BY <1>2
  <1>4. PICK R : R = Abstract!Repeats(u)
    OBVIOUS
  <1>5. 1 \notin R
    BY <1>4 DEF Abstract!Repeats
  <1>6. (1 .. 1) \ R = {1} /\ (1 .. 1) \cap R = {}
    BY <1>5
  <1>7. Enumerates(one, 1, {1}) /\ Enumerates(none, 0, {})
    BY <1>3 DEF Enumerates
  <1>8. Looked(u, 1, one, none)
    <2>1. 1 \in 1 .. Len(u)
      BY <1>1
    <2> QED
      BY <1>3, <1>4, <1>6, <1>7, <2>1 DEF Looked
  <1>9. Picked(u, one) = Append(<<>>, u[1])
    <2>1. Picked(u, one) = [k \in 1 .. 1 |-> u[one[k]]]
      BY <1>3 DEF Picked
    <2>2. [k \in 1 .. 1 |-> u[one[k]]] = [k \in 1 .. 1 |-> u[1]]
      BY <1>3
    <2>3. [k \in 1 .. 1 |-> u[1]] = <<u[1]>>
      OBVIOUS
    <2> QED
      BY <2>1, <2>2, <2>3
  <1>10. PICK a : a = <<>>
    OBVIOUS
  <1>11. a \in Seq(Elem) /\ Len(a) = 0
    BY <1>10
  <1>12. Rest(a, u, 0) = u
    <2>1. PICK z \in 0 .. Len(u) : z = 0
      BY <1>1
    <2>2. PICK t : t = Rest(a, u, z)
      OBVIOUS
    <2>3. /\ t \in Seq(Elem) /\ Len(t) = Len(a) + (Len(u) - z)
          /\ \A k \in 1 .. Len(a) + (Len(u) - z) :
                t[k] = IF k <= Len(a) THEN a[k] ELSE u[z + (k - Len(a))]
      <3>1. a \in Seq(Elem) /\ u \in Seq(Elem) /\ z \in 0 .. Len(u)
        BY <1>11, <2>1
      <3> QED
        BY ONLY <2>2, <3>1, RestLemma, Zenon
    <2>4. Len(t) = N /\ \A k \in 1 .. N : t[k] = u[k]
      BY <1>1, <1>11, <2>1, <2>3
    <2>5. t = u
      BY <1>1, <2>3, <2>4, SeqEqual
    <2> QED
      BY <2>1, <2>2, <2>5
  <1>13. Rest(Picked(u, one), u, 1) = u
    <2>1. PICK z : z = 0
      OBVIOUS
    <2>2. z \in 0 .. Len(u) - 1 /\ z + 1 = 1
      BY <1>1, <2>1
    <2>3. Rest(Append(a, u[z + 1]), u, z + 1) = Rest(a, u, z)
      BY <1>11, <2>2, RestStays
    <2> QED
      BY <1>9, <1>10, <1>12, <2>1, <2>2, <2>3
  <1>14. Picked(u, none) = <<>>
    BY <1>3 DEF Picked
  <1>15. ASSUME NEW s \in Seq(Elem) PROVE s \o Picked(u, none) = s
    BY <1>14, ConcatEmptySeq
  <1> QED
    BY <1>2, <1>8, <1>13, <1>15

LEMMA UniqueBegins ==
    ASSUME Inv, NEW l \in List, NEW d \in (List \ {l}) \cup {NULL}, Unique(l, d)
    PROVE  Inv'
  <1>1. PICK own, pos : Rep(links, own, pos)
    BY DEF Inv
  <1>2. PICK e : e = list_begin(l)
    OBVIOUS
  <1>3. e \in Elem /\ own[e] = l /\ e \in Node /\ pos[e] = 1
    BY <1>1, <1>2, BeginLemma DEF Unique
  <1>4. /\ links' = links /\ before' = Content
        /\ job' = [doing |-> "unique", list |-> l, duplicates |-> d, elem |-> e]
        /\ Forward(l) # <<>>
    BY <1>2 DEF Unique
  <1>5. UniqueOK(job', own)
    BY <1>3, <1>4 DEF UniqueOK, UniqueJob
  <1>6. PICK s : s = Walks(links)
    OBVIOUS
  <1>7. /\ before' = s /\ s = [k \in List |-> s[k]]
        /\ \A k \in List : s[k] \in Seq(Elem) /\ s[k] = Walk(links, k)
    BY <1>1, <1>4, <1>6, ContentWalks, PlacesLemma DEF Walks
  <1>8. PICK u : u = s[l]
    OBVIOUS
  <1>9. u \in Seq(Elem) /\ u # <<>> /\ u[1] = e
    <2>1. u = Walk(links, l) /\ u = Forward(l)
      BY <1>7, <1>8 DEF Forward, Walk, list_begin
    <2>2. Walk(links, l)[pos[e]] = e
      BY <1>1, <1>3, WalkPlacesLemma
    <2> QED
      BY <1>3, <1>4, <1>7, <1>8, <2>1, <2>2
  <1>10. /\ Looked(u, 1, <<1>>, <<>>) /\ Rest(Picked(u, <<1>>), u, 1) = u
         /\ \A t \in Seq(Elem) : t \o Picked(u, <<>>) = t
    BY <1>9, LookedFirst
  <1>11. Walks(links') = Halfway(s, l, d, 1, <<1>>, <<>>)
    <2>1. Halfway(s, l, d, 1, <<1>>, <<>>) = [k \in List |-> s[k]]
      BY <1>7, <1>8, <1>10 DEF Halfway
    <2> QED
      BY <1>4, <1>6, <1>7, <2>1
  <1>12. Len(<<1>>) = 1 /\ job'.list = l /\ job'.duplicates = d /\ job'.elem = e
    BY <1>4
  <1>13. PICK kept, gone : kept = <<1>> /\ gone = <<>>
    OBVIOUS
  <1>14. /\ Looked(s[job'.list], 1, kept, gone)
         /\ Walks(links') = Halfway(s, job'.list, job'.duplicates, 1, kept, gone)
         /\ pos[job'.elem] = Len(kept) /\ Key[job'.elem] = Key[s[job'.list][1]]
    BY <1>3, <1>8, <1>9, <1>10, <1>11, <1>12, <1>13
  <1>15. UniquingOK(job', s, links', own, pos)
    BY <1>5, <1>7, <1>14 DEF UniquingOK
  <1> QED
    BY <1>1, <1>4, <1>7, <1>15 DEF Inv, JobOK

\* Where list_unique is in its list.
LEMMA HalfwayLemma ==
    ASSUME NEW m, NEW own, NEW pos, Rep(m, own, pos), NEW l \in List, NEW d, NEW s,
           NEW w, NEW kept, NEW gone, Looked(s[l], w, kept, gone),
           Walks(m) = Halfway(s, l, d, w, kept, gone),
           NEW e \in Elem, own[e] = l, pos[e] = Len(kept), NEW n, n = m.next[e]
    PROVE  /\ n \in Node /\ own[n] = l /\ pos[n] = Len(kept) + 1 /\ n # e
           /\ Walk(m, l) = Rest(Picked(s[l], kept), s[l], w)
           /\ n = Tail_(l) => w = Len(s[l])
           /\ n # Tail_(l) => n \in Elem /\ w < Len(s[l]) /\ n = s[l][w + 1]
  <1>1. PICK u, a, t : u = s[l] /\ a = Picked(u, kept) /\ t = Rest(a, u, w)
    OBVIOUS
  <1>2. /\ u \in Seq(Elem) /\ w \in 1 .. Len(u) /\ w \in 0 .. Len(u)
        /\ kept \in Seq(Nat) /\ a \in Seq(Elem) /\ Len(a) = Len(kept)
    <2>1. Looked(u, w, kept, gone)
      BY <1>1
    <2> QED
      BY <1>1, <2>1, LookedRange
  <1>3. PICK N \in Nat, L \in Nat : N = Len(u) /\ L = Len(kept) /\ w \in 1 .. N
    BY <1>2
  <1>4. Walk(m, l) = t
    <2>1. Walks(m)[l] = Walk(m, l) /\ Halfway(s, l, d, w, kept, gone)[l] = t
      BY <1>1 DEF Walks, Halfway
    <2> QED
      BY <2>1
  <1>5. /\ Len(t) = L + (N - w)
        /\ \A k \in 1 .. L + (N - w) : t[k] = IF k <= L THEN a[k] ELSE u[w + (k - L)]
    <2>1. /\ Len(t) = Len(a) + (Len(u) - w)
          /\ \A k \in 1 .. Len(a) + (Len(u) - w) :
                t[k] = IF k <= Len(a) THEN a[k] ELSE u[w + (k - Len(a))]
      <3>1. t = Rest(a, u, w) /\ a \in Seq(Elem) /\ u \in Seq(Elem) /\ w \in 0 .. Len(u)
        BY <1>1, <1>2
      <3> QED
        BY <3>1, RestLemma, Zenon
    <2> QED
      BY <1>2, <1>3, <2>1
  <1>6. e \in Node /\ e # Tail_(l)
    BY NodeLemma
  <1>7. n \in Node /\ own[n] = l /\ pos[n] = L + 1
    BY <1>3, <1>6 DEF Rep, Linked
  <1>8. n # e
    BY <1>3, <1>7
  <1>9. pos[Tail_(l)] - 1 = L + (N - w) /\ pos[Tail_(l)] \in Nat
    BY <1>4, <1>5, PlacesLemma, WalkPlacesLemma
  <1>10. n = Tail_(l) => w = N
    BY <1>3, <1>7, <1>9
  <1>11. ASSUME n # Tail_(l) PROVE n \in Elem /\ w < N /\ n = u[w + 1]
    <2>1. n # Head_(l)
      BY <1>3, <1>7 DEF Rep, Placed
    <2>2. n \in Elem
      BY <1>7, <1>11, <2>1, EndsLemma
    <2>3. L + 1 \in 1 .. L + (N - w) /\ t[L + 1] = n
      BY <1>4, <1>7, <1>9, <2>2, WalkPlacesLemma
    <2>4. w < N /\ ~(L + 1 <= L) /\ w + ((L + 1) - L) = w + 1
      BY <1>3, <2>3
    <2> QED
      BY <1>5, <2>2, <2>3, <2>4
  <1> QED
    BY <1>1, <1>3, <1>4, <1>7, <1>8, <1>10, <1>11

\* The element is compared with the last one kept.
LEMMA RepeatIsEqual ==
    ASSUME NEW u \in Seq(Elem), NEW w \in 1 .. Len(u), w < Len(u), NEW e \in Elem, Key[e] = Key[u[w]],
           NEW h, h = w + 1
    PROVE  /\ h \in 1 .. Len(u) /\ (Equal(e, u[h]) <=> h \in Abstract!Repeats(u))
           /\ Equal(e, u[h]) => Key[e] = Key[u[h]]
  <1>1. h \in 1 .. Len(u) /\ h > 1 /\ h - 1 = w /\ DOMAIN u = 1 .. Len(u)
    OBVIOUS
  <1>2. u[h] \in Elem /\ Key[u[h]] \in Int /\ Key[e] \in Int
    BY <1>1, LinkedListsAssumption
  <1>3. Equal(e, u[h]) <=> Key[e] = Key[u[h]]
    BY <1>2 DEF Equal, less
  <1>4. h \in Abstract!Repeats(u) <=> Key[u[h]] = Key[u[w]]
    BY <1>1 DEF Abstract!Repeats
  <1> QED
    BY <1>1, <1>3, <1>4

\* At the end of the list.
LEMMA UniqueEnds ==
    ASSUME NEW m, NEW l \in List, NEW d \in List \cup {NULL}, d # NULL => d # l, NEW s,
           s = [k \in List |-> s[k]], NEW w, NEW kept, NEW gone,
           Looked(s[l], w, kept, gone), w = Len(s[l]), Walks(m) = Halfway(s, l, d, w, kept, gone)
    PROVE  Abstract!RemoveRepeats(s, Walks(m))
  <1>1. PICK u : u = s[l]
    OBVIOUS
  <1>2. Looked(u, w, kept, gone)
    BY <1>1
  <1>3. /\ u \in Seq(Elem) /\ w \in 0 .. Len(u) /\ kept \in Seq(Nat) /\ gone \in Seq(Nat)
        /\ Picked(u, kept) \in Seq(Elem)
    BY <1>2, LookedRange
  <1>4. PICK R : R = Abstract!Repeats(u)
    OBVIOUS
  <1>5. 1 .. w = DOMAIN u /\ (1 .. w) \cap R = R
    BY <1>1, <1>3, <1>4 DEF Abstract!Repeats
  <1>6. /\ Enumerates(kept, Len(kept), DOMAIN u \ R) /\ Enumerates(gone, Len(gone), R)
    <2>1. Enumerates(kept, Len(kept), (1 .. w) \ R) /\ Enumerates(gone, Len(gone), (1 .. w) \cap R)
      BY <1>2, <1>4 DEF Looked
    <2> QED
      BY <1>5, <2>1
  <1>7. DOMAIN u \ R \in SUBSET Nat /\ R \in SUBSET Nat
    <2>1. \A k \in 1 .. w : k \in Nat
      OBVIOUS
    <2> QED
      BY <1>5, <2>1
  <1>8. PICK P : P = DOMAIN u \ R
    OBVIOUS
  <1>9. Abstract!Chosen(u, P) = Picked(u, kept) /\ Abstract!Chosen(u, R) = Picked(u, gone)
    BY <1>3, <1>6, <1>7, <1>8, ChosenLemma
  <1>10. Rest(Picked(u, kept), u, w) = Picked(u, kept)
    BY <1>1, <1>3, RestLemma
  <1>11. CASE d = NULL
    <2>1. Walks(m) = [s EXCEPT ![l] = Abstract!Chosen(u, P)]
      BY <1>1, <1>9, <1>10, <1>11 DEF Halfway
    <2> QED
      BY <1>1, <1>4, <1>8, <2>1 DEF Abstract!RemoveRepeats
  <1>12. CASE d # NULL
    <2>1. d \in List \ {l}
      BY <1>12
    <2>2. Walks(m) = [s EXCEPT ![l] = Abstract!Chosen(u, P), ![d] = s[d] \o Abstract!Chosen(u, R)]
      BY <1>1, <1>9, <1>10, <1>12, <2>1 DEF Halfway
    <2>3. Walks(m) = [s EXCEPT ![l] = Abstract!Chosen(@, DOMAIN @ \ Abstract!Repeats(@)),
                               ![d] = @ \o Abstract!Chosen(s[l], Abstract!Repeats(s[l]))]
      BY <1>1, <1>4, <1>8, <2>1, <2>2
    <2> QED
      BY <2>1, <2>3 DEF Abstract!RemoveRepeats
  <1> QED
    BY <1>11, <1>12

\* list_unique has come to element e.
At(m, own, pos, l, d, s, w, kept, gone, e) ==
    /\ Rep(m, own, pos) /\ l \in List /\ d \in List \cup {NULL} /\ (d # NULL => d # l)
    /\ \A k \in List : s[k] \in Seq(Elem)
    /\ Looked(s[l], w, kept, gone) /\ Walks(m) = Halfway(s, l, d, w, kept, gone)
    /\ e \in Elem /\ own[e] = l /\ pos[e] = Len(kept)

\* A repeated element leaves its list.
LEMMA UniqueTakes ==
    ASSUME NEW m, NEW own, NEW pos, NEW l, NEW d, NEW s, NEW w, NEW kept, NEW gone, NEW e,
           At(m, own, pos, l, d, s, w, kept, gone, e), NEW n, n = m.next[e], n # Tail_(l),
           NEW h, h = w + 1,
           NEW m2, m2 = IF d = NULL THEN Freed(list_remove(m, n), n)
                        ELSE list_insert(list_remove(m, n), Tail_(d), n)
    PROVE  \E own2, pos2 : /\ Rep(m2, own2, pos2) /\ own2[e] = l /\ pos2[e] = Len(kept)
                           /\ Walks(m2) = Halfway(s, l, d, h, kept, Append(gone, h))
  <1> USE DEF At
  <1>1. PICK u, a : u = s[l] /\ a = Picked(u, kept)
    OBVIOUS
  <1>2. /\ n \in Elem /\ own[n] = l /\ pos[n] = Len(kept) + 1 /\ n # e
        /\ Walk(m, l) = Rest(a, u, w) /\ w < Len(u) /\ n = u[h]
    BY <1>1, HalfwayLemma
  <1>3. /\ u \in Seq(Elem) /\ w \in 1 .. Len(u) /\ kept \in Seq(Nat)
        /\ a \in Seq(Elem) /\ Len(a) = Len(kept)
        /\ gone \in Seq(Nat) /\ \A k \in 1 .. Len(gone) : gone[k] \in 1 .. Len(u)
        /\ Picked(u, gone) \in Seq(Elem)
    <2>1. Looked(u, w, kept, gone)
      BY <1>1
    <2> QED
      BY <1>1, <2>1, LookedRange
  <1>4. PICK p \in Nat : p = Len(kept) /\ pos[e] = p /\ pos[n] = p + 1 /\ Len(a) = p
    BY <1>2, <1>3
  <1>5. e \in Node /\ n \in Node
    BY <1>2, NodeLemma
  <1>6. PICK q, own2, pos2 : /\ q = list_remove(m, n) /\ own2 = OwnBy(own, {n}, Nobody)
                             /\ pos2 = RemPos(own, pos, n)
    OBVIOUS
  <1>7. Rep(q, own2, pos2)
    BY <1>2, <1>6, RemoveLemma
  <1>8. own2[e] = l /\ own2[n] \notin List /\ pos2[e] = p
    <2>1. ~(pos[e] > pos[n])
      BY <1>4
    <2> QED
      BY <1>2, <1>4, <1>5, <1>6, <2>1, NodeLemma DEF OwnBy, RemPos
  <1>9. Abstract!Without(Rest(a, u, w), p + 1, p + 1) = Rest(a, u, h)
    <2>1. w \in 0 .. Len(u) - 1
      BY <1>2, <1>3
    <2> QED
      BY <1>3, <1>4, <2>1, RestGoes
  \* What the lists hold when the element is out.
  <1>10. ASSUME NEW z, Rep(z, own2, pos2)
         PROVE  Walks(z) = [k \in List |-> IF k = l THEN Rest(a, u, h) ELSE Walk(m, k)]
    <2>1. Walks(z) = [Walks(m) EXCEPT ![l] = Abstract!Without(@, pos[n], pos[n])]
      BY <1>2, <1>6, <1>10, RemoveRefines
    <2> QED
      BY <1>2, <1>4, <1>9, <2>1 DEF Walks
  <1>11. ASSUME NEW k \in List
         PROVE  Walk(m, k) = IF k = l THEN Rest(a, u, w)
                             ELSE IF k = d /\ d # NULL THEN s[k] \o Picked(u, gone) ELSE s[k]
    <2>1. Walks(m)[k] = Halfway(s, l, d, w, kept, gone)[k]
      OBVIOUS
    <2> QED
      BY <1>1, <2>1 DEF Walks, Halfway
  <1>12. CASE d = NULL
    <2>1. Rep(m2, own2, pos2)
      BY <1>2, <1>6, <1>12, TakeAndFree
    <2>2. Walks(m2) = Halfway(s, l, d, h, kept, Append(gone, h))
      BY <1>1, <1>10, <1>11, <1>12, <2>1 DEF Halfway
    <2> QED
      BY <1>4, <1>8, <2>1, <2>2
  <1>13. CASE d # NULL
    <2>1. PICK t : t = Tail_(d)
      OBVIOUS
    <2>2. d \in List /\ d # l
      BY <1>13
    <2>3. t \in Node /\ own[t] = d /\ t # Head_(d) /\ t # n
      BY <1>2, <2>1, <2>2, NodeLemma DEF Rep, Placed
    <2>4. own2[t] = d
      BY <1>6, <2>3 DEF OwnBy
    <2>5. m2 = list_insert(q, t, n)
      BY <1>6, <1>13, <2>1
    <2>6. PICK own3, pos3 : own3 = OwnBy(own2, {n}, d) /\ pos3 = InsPos(own2, pos2, t, n)
      OBVIOUS
    <2>7. Rep(m2, own3, pos3)
      BY <1>2, <1>7, <1>8, <2>2, <2>3, <2>4, <2>5, <2>6, InsertLemma
    <2>8. Walks(m2) = [Walks(q) EXCEPT ![d] = Abstract!Inserted(@, pos2[t], <<n>>)]
      <3>0. PICK run : run = <<n>>
        OBVIOUS
      <3>1. PutBefore(q, own2, pos2, t, d, n, m2)
        BY <1>2, <1>7, <1>8, <2>2, <2>3, <2>4, <2>6, <2>7 DEF PutBefore
      <3> QED
        BY <3>0, <3>1, InsertRefines
    <2>9. PICK v : v = s[d] \o Picked(u, gone)
      OBVIOUS
    <2>10. Walks(q) = [k \in List |-> IF k = l THEN Rest(a, u, h) ELSE Walk(m, k)]
      BY <1>7, <1>10
    <2>11. Walk(q, d) = v
      <3>1. Walks(q)[d] = Walk(q, d)
        BY <2>2 DEF Walks
      <3> QED
        BY <1>11, <1>13, <2>2, <2>9, <2>10, <3>1
    <2>12. v \in Seq(Elem) /\ pos2[t] = Len(v) + 1
      <3>1. Walk(q, d) \in Seq(Elem) /\ Len(Walk(q, d)) = pos2[Tail_(d)] - 1
        BY <1>7, <2>2, PlacesLemma
      <3>2. pos2[t] \in Nat
        BY <1>7, <2>3 DEF Rep, Placed
      <3> QED
        BY <2>1, <2>11, <3>1, <3>2
    <2>13. Abstract!Inserted(v, Len(v) + 1, <<n>>) = s[d] \o Append(Picked(u, gone), n)
      BY <1>2, <1>3, <2>2, <2>9, InsertedLast, Zenon
    <2>14. Picked(u, Append(gone, h)) = Append(Picked(u, gone), n)
      <3>1. h \in 1 .. Len(u)
        BY <1>2, <1>3
      <3>2. Picked(u, Append(gone, h)) = Append(Picked(u, gone), u[h])
        BY <1>3, <3>1, PickedLemma
      <3> QED
        BY <1>2, <3>2
    <2>15. Walks(m2) = Halfway(s, l, d, h, kept, Append(gone, h))
      <3>1. ASSUME NEW k \in List
            PROVE  Walks(m2)[k] = Halfway(s, l, d, h, kept, Append(gone, h))[k]
        <4>1. CASE k = d
          <5>1. Walks(m2)[d] = s[d] \o Picked(u, Append(gone, h))
            BY <2>2, <2>8, <2>10, <2>11, <2>12, <2>13, <2>14 DEF Walks
          <5> QED
            BY <1>1, <1>13, <2>2, <4>1, <5>1 DEF Halfway
        <4>2. CASE k # d
          <5>1. Walks(m2)[k] = Walks(q)[k]
            BY <2>8, <4>2 DEF Walks
          <5> QED
            BY <1>1, <1>11, <2>10, <4>2, <5>1 DEF Halfway
        <4> QED
          BY <4>1, <4>2
      <3> QED
        BY <3>1 DEF Walks, Halfway
    <2>16. own3[e] = l /\ pos3[e] = p
      BY <1>2, <1>5, <1>8, <2>2, <2>4, <2>6 DEF OwnBy, InsPos
    <2> QED
      BY <1>4, <2>7, <2>15, <2>16
  <1> QED
    BY <1>12, <1>13

\* An element that is none stays.
LEMMA UniqueKeeps ==
    ASSUME NEW m, NEW own, NEW pos, Rep(m, own, pos), NEW l \in List, NEW d, NEW s,
           NEW w, NEW kept, NEW gone, Looked(s[l], w, kept, gone),
           Walks(m) = Halfway(s, l, d, w, kept, gone), w < Len(s[l]), NEW h, h = w + 1
    PROVE  Walks(m) = Halfway(s, l, d, h, Append(kept, h), gone) /\ Len(Append(kept, h)) = Len(kept) + 1
  <1>1. PICK u, a : u = s[l] /\ a = Picked(u, kept)
    OBVIOUS
  <1>2. Looked(u, w, kept, gone)
    BY <1>1
  <1>3. /\ u \in Seq(Elem) /\ w \in 1 .. Len(u) /\ kept \in Seq(Nat) /\ a \in Seq(Elem)
        /\ \A k \in 1 .. Len(kept) : kept[k] \in 1 .. Len(u)
    BY <1>1, <1>2, LookedRange
  <1>4. h \in 1 .. Len(u) /\ h \in Nat /\ w \in 0 .. Len(u) - 1
    BY <1>1, <1>3
  <1>5. Len(Append(kept, h)) = Len(kept) + 1
    BY <1>3, <1>4, AppendProperties
  <1>6. Picked(u, Append(kept, h)) = Append(a, u[h])
    BY <1>1, <1>3, <1>4, PickedLemma
  <1>7. Rest(Append(a, u[h]), u, h) = Rest(a, u, w)
    BY <1>3, <1>4, RestStays
  <1>8. Halfway(s, l, d, h, Append(kept, h), gone) = Halfway(s, l, d, w, kept, gone)
    BY <1>1, <1>6, <1>7 DEF Halfway
  <1> QED
    BY <1>5, <1>8

\* A step keeps the invariant; the last one has the effect of RemoveRepeats.
LEMMA UniqueStepLemma ==
    ASSUME Inv, UniqueStep
    PROVE  Inv' /\ (job' = NoJob => Abstract!RemoveRepeats(before, Walks(links')))
  <1>1. PICK own, pos : Rep(links, own, pos) /\ JobOK(job, before, links, own, pos)
    BY DEF Inv
  <1>2. job.doing = "unique" /\ Remembered
    BY DEF UniqueStep
  <1>3. UniquingOK(job, before, links, own, pos)
    BY <1>1, <1>2 DEF JobOK, NoJob, SortingOK, SortOK, SortJob
  <1>4. PICK l, d, e, s : l = job.list /\ d = job.duplicates /\ e = job.elem /\ s = before
    OBVIOUS
  <1>5. /\ job \in UniqueJob /\ l \in List /\ d \in List \cup {NULL} /\ (d # NULL => d # l)
        /\ e \in Elem /\ own[e] = l /\ UniqueOK(job, own)
    BY <1>3, <1>4 DEF UniquingOK, UniqueOK, UniqueJob
  <1>6. /\ \A k \in List : s[k] \in Seq(Elem)
        /\ s = [k \in List |-> s[k]]
    BY <1>3, <1>4 DEF UniquingOK
  <1>7. PICK w, kept, gone : /\ Looked(s[l], w, kept, gone)
                             /\ Walks(links) = Halfway(s, l, d, w, kept, gone)
                             /\ pos[e] = Len(kept) /\ Key[e] = Key[s[l][w]]
    BY <1>3, <1>4 DEF UniquingOK
  <1>8. PICK n, h : n = links.next[e] /\ h = w + 1
    OBVIOUS
  <1>9. /\ n \in Node /\ own[n] = l /\ pos[n] = Len(kept) + 1
        /\ n = Tail_(l) => w = Len(s[l])
        /\ n # Tail_(l) => n \in Elem /\ w < Len(s[l]) /\ n = s[l][h]
    BY <1>1, <1>5, <1>7, <1>8, HalfwayLemma
  \* What is left to show of a step that is not the last.
  <1>10. ASSUME NEW own2, NEW pos2, Rep(links', own2, pos2), UniquingOK(job', s, links', own2, pos2)
         PROVE  Inv' /\ job' # NoJob
    <2>1. job' # NoJob
      BY <1>10 DEF UniquingOK, UniqueOK, UniqueJob, NoJob
    <2>2. before' = s
      BY <1>2, <1>4, <2>1 DEF Remembered
    <2> QED
      BY <1>10, <2>1, <2>2 DEF Inv, JobOK
  <1>11. CASE n = Tail_(l)
    <2>1. job' = NoJob /\ links' = links
      BY <1>4, <1>8, <1>11 DEF UniqueStep
    <2>2. Inv'
      BY <1>1, <2>1 DEF Inv, JobOK
    <2>3. Abstract!RemoveRepeats(s, Walks(links))
      BY <1>5, <1>6, <1>7, <1>9, <1>11, UniqueEnds
    <2> QED
      BY <1>4, <2>1, <2>2, <2>3
  <1>12. ASSUME n # Tail_(l)
         PROVE  /\ Equal(e, n) <=> h \in Abstract!Repeats(s[l])
                /\ Equal(e, n) => Key[e] = Key[s[l][h]]
    <2>1. PICK u : u = s[l]
      OBVIOUS
    <2>2. u \in Seq(Elem) /\ w \in 1 .. Len(u) /\ w < Len(u) /\ Key[e] = Key[u[w]] /\ n = u[h]
      BY <1>7, <1>9, <1>12, <2>1 DEF Looked
    <2>3. (Equal(e, u[h]) <=> h \in Abstract!Repeats(u)) /\ (Equal(e, u[h]) => Key[e] = Key[u[h]])
      BY <1>5, <1>8, <2>2, RepeatIsEqual
    <2> QED
      BY <2>1, <2>2, <2>3
  <1>13. CASE n # Tail_(l) /\ Equal(e, n)
    <2>1. /\ job' = job
          /\ links' = IF d = NULL THEN Freed(list_remove(links, n), n)
                      ELSE list_insert(list_remove(links, n), Tail_(d), n)
      BY <1>4, <1>8, <1>13 DEF UniqueStep
    <2>2. PICK m2 : m2 = links'
      OBVIOUS
    <2>3. m2 = IF d = NULL THEN Freed(list_remove(links, n), n)
               ELSE list_insert(list_remove(links, n), Tail_(d), n)
      BY <2>1, <2>2
    <2>4. PICK own2, pos2 : /\ Rep(m2, own2, pos2) /\ own2[e] = l /\ pos2[e] = Len(kept)
                            /\ Walks(m2) = Halfway(s, l, d, h, kept, Append(gone, h))
      <3>1. At(links, own, pos, l, d, s, w, kept, gone, e)
        BY <1>1, <1>5, <1>6, <1>7 DEF At
      <3> QED
        BY <1>8, <1>13, <2>3, <3>1, UniqueTakes
    <2>5. Looked(s[l], h, kept, Append(gone, h))
      BY <1>7, <1>8, <1>9, <1>12, <1>13, LookedNext
    <2>6. UniqueOK(job, own2)
      BY <1>4, <1>5, <2>4 DEF UniqueOK
    <2>7. Key[e] = Key[s[l][h]]
      BY <1>12, <1>13
    <2>8. UniquingOK(job', s, m2, own2, pos2)
      BY <1>4, <1>6, <2>1, <2>4, <2>5, <2>6, <2>7, Zenon DEF UniquingOK
    <2> QED
      BY <1>10, <2>2, <2>4, <2>8
  <1>14. CASE n # Tail_(l) /\ ~Equal(e, n)
    <2>1. job' = [job EXCEPT !.elem = n] /\ links' = links
      BY <1>4, <1>8, <1>14 DEF UniqueStep
    <2>2. /\ job' \in UniqueJob /\ job'.elem = n /\ job'.list = l /\ job'.duplicates = d
      BY <1>4, <1>5, <1>9, <2>1 DEF UniqueJob
    <2>3. UniqueOK(job', own)
      BY <1>5, <1>9, <1>14, <2>2 DEF UniqueOK
    <2>4. Looked(s[l], h, Append(kept, h), gone)
      BY <1>7, <1>8, <1>9, <1>12, <1>14, LookedNext
    <2>5. /\ Walks(links) = Halfway(s, l, d, h, Append(kept, h), gone)
          /\ Len(Append(kept, h)) = Len(kept) + 1
      BY <1>1, <1>5, <1>7, <1>8, <1>9, <1>14, UniqueKeeps
    <2>6. pos[n] = Len(Append(kept, h)) /\ Key[n] = Key[s[l][h]]
      BY <1>9, <1>14, <2>5
    <2>7. UniquingOK(job', s, links', own, pos)
      BY <1>6, <2>1, <2>2, <2>3, <2>4, <2>5, <2>6, Zenon DEF UniquingOK
    <2> QED
      BY <1>1, <1>10, <2>1, <2>7
  <1> QED
    BY <1>11, <1>13, <1>14

--------------------------------------------------------------------------------
LEMMA InvNext == Inv /\ [Next]_vars => Inv'
  <1> SUFFICES ASSUME Inv, [Next]_vars PROVE Inv'
    OBVIOUS
  <1>1. CASE FindRuns
    BY <1>1, FindRunsStep
  <1>2. CASE Merge
    BY <1>2, MergeStep
  <1>3. CASE UniqueStep
    BY <1>3, UniqueStepLemma
  <1>4. ASSUME NEW e \in Elem, Remove_(e) PROVE Inv'
    BY <1>4, RemoveStep
  <1>5. ASSUME NEW e \in Elem, NEW b \in Places, Insert(e, b) PROVE Inv'
    BY <1>5, InsertStep
  <1>6. ASSUME NEW e \in Elem, NEW l \in List, list_insert_ordered(l, e) PROVE Inv'
    BY <1>6, InsertOrderedStep
  <1>7. ASSUME NEW l \in List, RemoveTwice(l) PROVE Inv'
    BY <1>7, RemoveTwiceStep
  <1>8. ASSUME NEW l \in List, list_reverse(l) PROVE Inv'
    BY <1>8, ReverseStep
  <1>9. ASSUME NEW l \in List, Sort(l) PROVE Inv'
    BY <1>9, SortStep
  <1>10. ASSUME NEW l \in List, NEW s \in {Forward(l)}, NEW b \in Places,
                NEW i \in DOMAIN s, NEW j \in DOMAIN s, Splice(b, s, i, j)
         PROVE  Inv'
    BY <1>10, SpliceStep
  <1>11. ASSUME NEW l \in List, NEW d \in (List \ {l}) \cup {NULL}, Unique(l, d) PROVE Inv'
    BY <1>11, UniqueBegins
  <1>12. CASE UNCHANGED vars
    BY <1>12 DEF vars, Inv
  <1> QED
    BY <1>1, <1>2, <1>3, <1>4, <1>5, <1>6, <1>7, <1>8, <1>9, <1>10, <1>11, <1>12 DEF Next, Step

\* Whatever functions of list.c run, also between the steps of list_sort and
\* list_unique, every node keeps a place in at most one list, and next and prev lead
\* from each place to the ones beside it.
THEOREM LinkedListsInvariant == Spec => []Inv
  <1> QED
    BY InvInit, InvNext, PTL DEF Spec

\* Walking a list backwards meets the elements of walking it forwards in the
\* opposite order, and no element is in two lists (list.c).
THEOREM ListsBothWaysAgree == Spec => []BothWaysAgree
  <1>1. Inv => BothWaysAgree
    BY AgreeLemma DEF Inv
  <1> QED
    BY <1>1, LinkedListsInvariant, PTL

--------------------------------------------------------------------------------
(***************************************************************************)
(* What the functions leave, as ElementLists describes it.                 *)
(***************************************************************************)

\* Place k of t holds what place p[k] of s held, and place q[k] what place k held.
Permuted(s, t, p, q) ==
    /\ s \in Seq(Elem) /\ t \in Seq(Elem) /\ Len(t) = Len(s)
    /\ \A k \in 1 .. Len(s) : /\ p[k] \in 1 .. Len(s) /\ t[k] = s[p[k]]
                              /\ q[k] \in 1 .. Len(s) /\ p[q[k]] = k /\ q[p[k]] = k

\* The only rearrangement in which equal keys keep their order is the sorted one.
LEMMA SortedLemma ==
    ASSUME NEW s, NEW t, NEW p, NEW q, Permuted(s, t, p, q),
           \A i, k \in 1 .. Len(s) : i < k => Abstract!GoesBefore(s, p[i], p[k])
    PROVE  t = Abstract!Sorted(s)
  <1>1. PICK N \in Nat : N = Len(s) /\ DOMAIN s = 1 .. N /\ Len(t) = N /\ DOMAIN t = 1 .. N
    BY DEF Permuted
  <1>2. \A k \in 1 .. N : /\ p[k] \in 1 .. N /\ t[k] = s[p[k]]
                          /\ q[k] \in 1 .. N /\ p[q[k]] = k /\ q[p[k]] = k
    BY <1>1 DEF Permuted
  <1>3. \A i \in 1 .. N : s[i] \in Elem /\ Key[s[i]] \in Int
    BY <1>1, LinkedListsAssumption DEF Permuted
  <1>4. \A i, j \in 1 .. N : Abstract!GoesBefore(s, i, j) => ~Abstract!GoesBefore(s, j, i)
    BY <1>3 DEF Abstract!GoesBefore
  <1>5. ASSUME NEW k \in 1 .. N PROVE Abstract!Rank(s, p[k]) = k
    <2>1. PICK j \in Nat : j = k - 1
      OBVIOUS
    <2>2. PICK S : S = {i \in DOMAIN s : Abstract!GoesBefore(s, i, p[k])}
      OBVIOUS
    <2>3. \A i \in 1 .. N : i \in S <=> q[i] < k
      <3> SUFFICES ASSUME NEW i \in 1 .. N PROVE i \in S <=> q[i] < k
        OBVIOUS
      <3>1. PICK h \in 1 .. N : h = q[i] /\ p[h] = i
        BY <1>2
      <3>2. h < k => Abstract!GoesBefore(s, i, p[k])
        BY <1>1, <3>1
      <3>3. h = k => ~Abstract!GoesBefore(s, i, p[k])
        BY <1>2, <1>4, <3>1
      <3>4. k < h => ~Abstract!GoesBefore(s, i, p[k])
        BY <1>1, <1>2, <1>4, <3>1
      <3> QED
        BY <1>1, <2>2, <3>1, <3>2, <3>3, <3>4
    <2>4. PICK f : f = [i \in 1 .. j |-> p[i]]
      OBVIOUS
    <2>5. f \in Bijection(1 .. j, S)
      <3>1. \A i \in 1 .. j : i \in 1 .. N /\ i < k /\ f[i] = p[i]
        BY <2>1, <2>4
      <3>2. \A i \in 1 .. j : f[i] \in S
        BY <1>2, <2>3, <3>1
      <3>3. \A i, h \in 1 .. j : f[i] = f[h] => i = h
        BY <1>2, <3>1
      <3>4. \A i \in S : \E h \in 1 .. j : f[h] = i
        <4> SUFFICES ASSUME NEW i \in S PROVE \E h \in 1 .. j : f[h] = i
          OBVIOUS
        <4>1. i \in 1 .. N
          BY <1>1, <2>2
        <4>2. q[i] \in 1 .. N /\ q[i] < k /\ p[q[i]] = i
          BY <1>2, <2>3, <4>1
        <4>3. q[i] \in 1 .. j
          BY <2>1, <4>2
        <4> QED
          BY <3>1, <4>2, <4>3
      <3> QED
        BY <2>4, <3>2, <3>3, <3>4 DEF Bijection, Injection, Surjection, IsInjective
    <2>6. Cardinality(S) = j
      <3>1. IsFiniteSet(1 .. j) /\ Cardinality(1 .. j) = IF 1 > j THEN 0 ELSE j - 1 + 1
        BY FS_Interval
      <3>2. Cardinality(1 .. j) = j
        BY <3>1
      <3>3. ExistsBijection(1 .. j, S)
        BY <2>5 DEF ExistsBijection
      <3> QED
        BY <3>1, <3>2, <3>3, FS_Bijection
    <2> QED
      BY <2>1, <2>2, <2>6, SameCardinality DEF Abstract!Rank
  <1>6. ASSUME NEW k \in 1 .. N
        PROVE  (CHOOSE i \in DOMAIN s : Abstract!Rank(s, i) = k) = p[k]
    <2>1. p[k] \in DOMAIN s /\ Abstract!Rank(s, p[k]) = k
      BY <1>1, <1>2, <1>5
    <2>2. ASSUME NEW i \in DOMAIN s, Abstract!Rank(s, i) = k PROVE i = p[k]
      <3>1. q[i] \in 1 .. N /\ p[q[i]] = i
        BY <1>1, <1>2
      <3>2. Abstract!Rank(s, i) = q[i]
        BY <1>5, <3>1
      <3> QED
        BY <2>2, <3>1, <3>2
    <2> QED
      BY <2>1, <2>2
  <1>7. Abstract!Sorted(s) = [k \in 1 .. N |-> s[p[k]]]
    <2>1. ASSUME NEW k \in 1 .. N PROVE Abstract!Sorted(s)[k] = s[p[k]]
      BY <1>1, <1>6 DEF Abstract!Sorted
    <2>2. Abstract!Sorted(s) = [k \in 1 .. N |-> Abstract!Sorted(s)[k]]
      BY <1>1 DEF Abstract!Sorted
    <2> QED
      BY <2>1, <2>2
  <1>8. t = [k \in 1 .. N |-> t[k]]
    BY <1>1 DEF Permuted
  <1> QED
    BY <1>2, <1>7, <1>8

\* Elements of u that now are in the order of their keys, or of their places at in u.
LEMMA RearrangedLemma ==
    ASSUME NEW m, NEW own, NEW pos, Rep(m, own, pos), NEW l \in List,
           NEW u \in Seq(Elem), Len(u) = pos[Tail_(l)] - 1, NEW at,
           \A k \in 1 .. Len(u) : own[u[k]] = l /\ at[u[k]] = k,
           \A n \in Elem : own[n] = l => at[n] \in 1 .. Len(u) /\ u[at[n]] = n,
           \A n, h \in Elem : own[n] = l /\ own[h] = l /\ pos[n] < pos[h]
                                 => Key[n] < Key[h] \/ (Key[n] = Key[h] /\ at[n] < at[h])
    PROVE  Walk(m, l) = Abstract!Sorted(u)
  <1>1. PICK N \in Nat : N = Len(u) /\ N = pos[Tail_(l)] - 1
    OBVIOUS
  <1>2. PICK t : t = Walk(m, l)
    OBVIOUS
  <1>3. /\ t \in Seq(Elem) /\ Len(t) = N
        /\ \A k \in 1 .. N : t[k] \in Elem /\ own[t[k]] = l /\ pos[t[k]] = k
        /\ \A n \in Elem : own[n] = l => pos[n] \in 1 .. N /\ t[pos[n]] = n
    BY <1>1, <1>2, PlacesLemma, WalkPlacesLemma
  <1>4. PICK p, q : p = [k \in 1 .. N |-> at[t[k]]] /\ q = [k \in 1 .. N |-> pos[u[k]]]
    OBVIOUS
  <1>5. \A k \in 1 .. N : u[k] \in Elem /\ own[u[k]] = l /\ at[u[k]] = k
    BY <1>1
  <1>6. \A k \in 1 .. N : p[k] \in 1 .. N /\ u[p[k]] = t[k] /\ q[p[k]] = k
    <2> SUFFICES ASSUME NEW k \in 1 .. N
                 PROVE  p[k] \in 1 .. N /\ u[p[k]] = t[k] /\ q[p[k]] = k
      OBVIOUS
    <2>1. p[k] = at[t[k]] /\ t[k] \in Elem /\ own[t[k]] = l /\ pos[t[k]] = k
      BY <1>3, <1>4
    <2>2. p[k] \in 1 .. N /\ u[p[k]] = t[k]
      BY <1>1, <2>1
    <2> QED
      BY <1>4, <2>1, <2>2
  <1>7. \A k \in 1 .. N : q[k] \in 1 .. N /\ p[q[k]] = k
    <2> SUFFICES ASSUME NEW k \in 1 .. N PROVE q[k] \in 1 .. N /\ p[q[k]] = k
      OBVIOUS
    <2>1. q[k] = pos[u[k]] /\ q[k] \in 1 .. N /\ t[q[k]] = u[k]
      BY <1>3, <1>4, <1>5
    <2> QED
      BY <1>4, <1>5, <2>1
  <1>8. Permuted(u, t, p, q)
    BY <1>1, <1>3, <1>6, <1>7 DEF Permuted
  <1>9. ASSUME NEW i \in 1 .. N, NEW k \in 1 .. N, i < k
        PROVE  Abstract!GoesBefore(u, p[i], p[k])
    <2>1. PICK n, h : n = t[i] /\ h = t[k]
      OBVIOUS
    <2>2. /\ n \in Elem /\ own[n] = l /\ pos[n] = i /\ h \in Elem /\ own[h] = l /\ pos[h] = k
      BY <1>3, <2>1
    <2>3. Key[n] < Key[h] \/ (Key[n] = Key[h] /\ at[n] < at[h])
      BY <1>9, <2>2
    <2>4. u[p[i]] = n /\ u[p[k]] = h /\ p[i] = at[n] /\ p[k] = at[h]
      BY <1>4, <1>6, <2>1
    <2> QED
      BY <2>3, <2>4 DEF Abstract!GoesBefore
  <1>10. t = Abstract!Sorted(u)
    BY <1>1, <1>8, <1>9, SortedLemma
  <1> QED
    BY <1>2, <1>10

\* A list that is in order, its equal elements in the order they had, is sorted.
LEMMA OrderedLemma ==
    ASSUME NEW own, NEW pos, Rep(links, own, pos), NEW l \in List, NEW s, NEW was,
           Stable(s, l, own, pos, was), OrderedBetween(own, pos, l, 1, pos[Tail_(l)])
    PROVE  Walk(links, l) = Abstract!Sorted(s[l])
  <1>1. PICK m : Rep(m, own, was) /\ s = [k \in List |-> Walk(m, k)]
    BY DEF Stable
  <1>2. was[Tail_(l)] = pos[Tail_(l)]
    BY NodeLemma DEF Stable
  <1>3. PICK u : u = Walk(m, l)
    OBVIOUS
  <1>4. PICK N \in Nat : N = pos[Tail_(l)] - 1 /\ N + 1 = pos[Tail_(l)]
    BY NodeAtLemma
  <1>5. /\ u \in Seq(Elem) /\ Len(u) = N
        /\ \A k \in 1 .. N : u[k] \in Elem /\ own[u[k]] = l /\ was[u[k]] = k
        /\ \A n \in Elem : own[n] = l => was[n] \in 1 .. N /\ u[was[n]] = n
    BY <1>1, <1>2, <1>3, <1>4, PlacesLemma, WalkPlacesLemma
  <1>6. \A n \in Elem : own[n] = l => pos[n] \in 1 .. N
    BY <1>4, WalkPlacesLemma
  <1>7. ASSUME NEW n \in Elem, NEW h \in Elem, own[n] = l, own[h] = l, pos[n] < pos[h]
        PROVE  Key[n] < Key[h] \/ (Key[n] = Key[h] /\ was[n] < was[h])
    <2>1. Key[n] \in Int /\ Key[h] \in Int
      BY LinkedListsAssumption
    <2>2. 1 <= pos[n] /\ pos[h] < pos[Tail_(l)]
      BY <1>4, <1>6, <1>7
    <2>3. Key[n] <= Key[h]
      BY <1>7, <2>2 DEF OrderedBetween
    <2>4. Key[n] = Key[h] => was[n] < was[h]
      BY <1>7 DEF Stable
    <2> QED
      BY <2>1, <2>3, <2>4
  <1>8. Walk(links, l) = Abstract!Sorted(u)
    <2>1. u \in Seq(Elem) /\ Len(u) = pos[Tail_(l)] - 1
      BY <1>4, <1>5
    <2>2. \A k \in 1 .. Len(u) : own[u[k]] = l /\ was[u[k]] = k
      BY <1>5
    <2>3. \A n \in Elem : own[n] = l => was[n] \in 1 .. Len(u) /\ u[was[n]] = n
      BY <1>5
    <2> QED
      BY <1>7, <2>1, <2>2, <2>3, RearrangedLemma
  <1> QED
    BY <1>1, <1>3, <1>8

\* The last step of list_sort.
LEMMA SortedAtEnd ==
    ASSUME Inv, FindRuns, job' = NoJob, NEW l \in List, job.list = l
    PROVE  Forward(l)' = Abstract!Sorted(before[l])
  <1>1. PICK own, pos : Rep(links, own, pos) /\ JobOK(job, before, links, own, pos)
    BY DEF Inv
  <1>2. job.doing = "runs" /\ links' = links
    BY DEF FindRuns
  <1>3. SortingOK(job, before, own, pos)
    BY <1>1, <1>2 DEF JobOK, NoJob, UniquingOK, UniqueOK, UniqueJob
  <1>4. /\ job \in SortJob /\ job.output_run_cnt \in Nat
        /\ InPlace(own, pos, l, job.a0) /\ PassOK(job, own, pos)
    BY <1>3 DEF SortingOK, SortOK, SortJob
  <1>5. PICK was : Stable(before, l, own, pos, was)
    BY <1>3 DEF SortingOK
  <1>6. PICK tail, middle : tail = Tail_(l) /\ middle = find_end_of_run(l, job.a0)
    OBVIOUS
  <1>7. \A n \in Elem : own[n] = l => 1 <= pos[n] /\ pos[n] < pos[tail] /\ pos[n] \in Nat
    <2> SUFFICES ASSUME NEW n \in Elem, own[n] = l
                 PROVE  1 <= pos[n] /\ pos[n] < pos[tail] /\ pos[n] \in Nat
      OBVIOUS
    <2>1. pos[tail] \in Nat /\ pos[n] \in 1 .. pos[tail] - 1
      BY <1>1, <1>6, WalkPlacesLemma
    <2> QED
      BY <2>1
  <1>8. ASSUME NEW runs, AfterPass(runs) = NoJob PROVE ~(runs > 1)
    <2>1. PICK a : a = list_begin(job.list)
      OBVIOUS
    <2>2. [job EXCEPT !.a0 = a, !.output_run_cnt = 0].doing = "runs"
      BY <1>2, <1>4 DEF SortJob
    <2> QED
      BY <1>8, <2>1, <2>2 DEF AfterPass, NoJob
  <1>9. OrderedBetween(own, pos, l, 1, pos[tail])
    <2>1. CASE job.a0 = tail
      <3>1. AfterPass(job.output_run_cnt) = NoJob
        BY <1>6, <2>1 DEF FindRuns
      <3>2. job.output_run_cnt = 0 \/ job.output_run_cnt = 1
        BY <1>4, <1>8, <3>1
      <3>3. CASE job.output_run_cnt = 1
        BY <1>4, <2>1, <3>3 DEF PassOK
      <3>4. CASE job.output_run_cnt = 0
        <4>1. pos[tail] = 1
          BY <1>2, <1>4, <2>1, <3>4 DEF PassOK
        <4> QED
          BY <1>7, <4>1 DEF OrderedBetween
      <3> QED
        BY <3>2, <3>3, <3>4
    <2>2. CASE job.a0 # tail /\ middle = tail
      <3>1. AfterPass(job.output_run_cnt + 1) = NoJob
        BY <1>6, <2>2 DEF FindRuns
      <3>2. job.output_run_cnt = 0
        BY <1>4, <1>8, <3>1
      <3>3. pos[job.a0] = 1
        BY <1>2, <1>4, <3>2 DEF PassOK
      <3>4. OrderedBetween(own, pos, l, pos[job.a0], pos[middle])
        BY <1>1, <1>4, <1>6, <2>2, FindLemma
      <3> QED
        BY <2>2, <3>3, <3>4
    <2>3. CASE job.a0 # tail /\ middle # tail
      <3>1. job'.doing = "merge"
        BY <1>4, <1>6, <2>3 DEF FindRuns, SortJob
      <3> QED
        BY <3>1 DEF NoJob
    <2> QED
      BY <2>1, <2>2, <2>3
  <1>10. Walk(links, l) = Abstract!Sorted(before[l])
    BY <1>1, <1>5, <1>6, <1>9, OrderedLemma
  <1>11. Forward(l)' = Walk(links', l)
    BY DEF Forward, Walk, list_begin
  <1> QED
    BY <1>2, <1>10, <1>11

\* A list in order stays so, and the new element is behind those of the same key.
LEMMA InsertedInOrder ==
    ASSUME Inv, NEW e \in Elem, NEW l \in List, list_insert_ordered(l, e)
    PROVE  Forward(l)' = Abstract!Sorted(Append(Forward(l), e))
  <1>1. PICK own, pos : Rep(links, own, pos)
    BY DEF Inv
  <1>2. PICK b : b = Stop(l, e)
    OBVIOUS
  <1>3. links' = list_insert(links, b, e) /\ IsOrdered(Forward(l))
    BY <1>2 DEF list_insert_ordered
  <1>4. /\ b \in Node /\ own[b] = l /\ b # Head_(l) /\ pos[b] \in 1 .. pos[Tail_(l)]
        /\ b = Tail_(l) \/ (b \in Elem /\ less(e, b))
        /\ \A n \in Elem : own[n] = l /\ pos[n] < pos[b] => ~less(e, n)
    BY <1>1, <1>2, StopLemma
  <1>5. own[e] \notin List
    BY <1>1, ListedLemma DEF list_insert_ordered
  <1>6. PICK own2, pos2 : own2 = OwnBy(own, {e}, l) /\ pos2 = InsPos(own, pos, b, e)
    OBVIOUS
  <1>7. Rep(links', own2, pos2)
    BY <1>1, <1>3, <1>4, <1>5, <1>6, InsertLemma
  <1>8. PICK s : s = Forward(l) /\ s = Walk(links, l)
    BY DEF Forward, Walk, list_begin
  <1>9. PICK N \in Nat : N = pos[Tail_(l)] - 1 /\ N + 1 = pos[Tail_(l)]
    BY <1>1, NodeAtLemma
  <1>10. /\ s \in Seq(Elem) /\ Len(s) = N /\ DOMAIN s = 1 .. N
         /\ \A k \in 1 .. N : s[k] \in Elem /\ own[s[k]] = l /\ pos[s[k]] = k
         /\ \A n \in Elem : own[n] = l => pos[n] \in 1 .. N /\ s[pos[n]] = n
    BY <1>1, <1>8, <1>9, PlacesLemma, WalkPlacesLemma
  <1>11. PICK u : u = Append(s, e)
    OBVIOUS
  <1>12. /\ u \in Seq(Elem) /\ Len(u) = N + 1 /\ u[N + 1] = e
         /\ \A k \in 1 .. N : u[k] = s[k]
    BY <1>10, <1>11, AppendProperties
  <1>13. \A n \in Elem : n # e => (own2[n] = l <=> own[n] = l)
    BY <1>6, NodeLemma DEF OwnBy
  <1>14. own2[e] = l /\ e \in Node
    BY <1>6, NodeLemma DEF OwnBy
  <1>15. /\ pos2[e] = pos[b]
         /\ \A n \in Elem : own[n] = l => pos2[n] = IF pos[n] >= pos[b] THEN pos[n] + 1 ELSE pos[n]
    <2>1. \A n \in Elem : n \in Node
      BY NodeLemma
    <2> QED
      BY <1>4, <1>5, <1>6, <2>1 DEF InsPos
  <1>16. pos2[Tail_(l)] = N + 2
    <2>1. Tail_(l) \in Node /\ own[Tail_(l)] = l /\ Tail_(l) # e /\ pos[Tail_(l)] >= pos[b]
      BY <1>1, <1>4, <1>9, NodeLemma DEF Rep, Placed
    <2>2. pos2[Tail_(l)] = pos[Tail_(l)] + 1
      BY <1>4, <1>6, <2>1 DEF InsPos
    <2> QED
      BY <1>9, <2>2
  <1>17. PICK at : at = [n \in Elem |-> IF n = e THEN N + 1 ELSE pos[n]]
    OBVIOUS
  <1>18. ASSUME NEW k \in 1 .. Len(u) PROVE own2[u[k]] = l /\ at[u[k]] = k
    <2>1. CASE k = N + 1
      BY <1>12, <1>14, <1>17, <2>1
    <2>2. CASE k # N + 1
      <3>1. k \in 1 .. N
        BY <1>12, <2>2
      <3>2. u[k] \in Elem /\ own[u[k]] = l /\ pos[u[k]] = k /\ u[k] # e
        BY <1>5, <1>10, <1>12, <3>1
      <3> QED
        BY <1>13, <1>17, <3>2
    <2> QED
      BY <2>1, <2>2
  <1>19. ASSUME NEW n \in Elem, own2[n] = l PROVE at[n] \in 1 .. Len(u) /\ u[at[n]] = n
    <2>1. CASE n = e
      BY <1>12, <1>17, <2>1
    <2>2. CASE n # e
      <3>1. at[n] = pos[n] /\ pos[n] \in 1 .. N /\ s[pos[n]] = n
        BY <1>10, <1>13, <1>17, <1>19, <2>2
      <3> QED
        BY <1>12, <3>1
    <2> QED
      BY <2>1, <2>2
  <1>20. \A n, h \in Elem : own[n] = l /\ own[h] = l /\ pos[n] < pos[h] => ~less(h, n)
    <2> SUFFICES ASSUME NEW n \in Elem, NEW h \in Elem, own[n] = l, own[h] = l, pos[n] < pos[h]
                 PROVE  ~less(h, n)
      OBVIOUS
    <2>1. /\ pos[n] \in DOMAIN s /\ pos[h] \in DOMAIN s /\ s[pos[n]] = n /\ s[pos[h]] = h
      BY <1>10
    <2>2. ~less(s[pos[h]], s[pos[n]])
      BY <1>3, <1>8, <2>1 DEF IsOrdered
    <2> QED
      BY <2>1, <2>2
  <1>21. ASSUME NEW n \in Elem, NEW h \in Elem, own2[n] = l, own2[h] = l, pos2[n] < pos2[h]
         PROVE  Key[n] < Key[h] \/ (Key[n] = Key[h] /\ at[n] < at[h])
    <2>1. Key[n] \in Int /\ Key[h] \in Int /\ Key[e] \in Int
      BY LinkedListsAssumption
    <2>2. pos[b] \in 1 .. N + 1
      BY <1>4, <1>9
    <2>3. CASE n = e
      <3>1. h # e
        BY <1>15, <1>21, <2>2, <2>3
      <3>2. own[h] = l /\ pos[h] \in 1 .. N
        BY <1>10, <1>13, <1>21, <3>1
      <3>3. pos[h] >= pos[b]
        BY <1>15, <1>21, <2>2, <2>3, <3>2
      <3>4. b \in Elem /\ Key[e] < Key[b] /\ Key[b] \in Int
        BY <1>4, <1>9, <2>2, <3>2, <3>3, LinkedListsAssumption DEF less
      <3>5. Key[b] <= Key[h]
        <4>1. CASE h = b
          BY <4>1, <3>4
        <4>2. CASE h # b
          <5>1. pos[b] \in 1 .. N /\ s[pos[b]] = b /\ s[pos[h]] = h
            BY <1>4, <1>10, <3>2, <3>4
          <5>2. pos[b] < pos[h]
            BY <3>2, <3>3, <4>2, <5>1
          <5> QED
            BY <1>4, <1>20, <2>1, <3>2, <3>4, <5>2 DEF less
        <4> QED
          BY <4>1, <4>2
      <3> QED
        BY <2>1, <2>3, <3>4, <3>5
    <2>4. CASE n # e /\ h = e
      <3>1. own[n] = l /\ pos[n] \in 1 .. N /\ at[n] = pos[n] /\ at[h] = N + 1
        BY <1>10, <1>13, <1>17, <1>21, <2>4
      <3>2. pos[n] < pos[b]
        BY <1>15, <1>21, <2>2, <2>4, <3>1
      <3>3. ~(Key[e] < Key[n])
        BY <1>4, <3>1, <3>2 DEF less
      <3> QED
        BY <2>1, <2>4, <3>1, <3>3
    <2>5. CASE n # e /\ h # e
      <3>1. /\ own[n] = l /\ pos[n] \in 1 .. N /\ at[n] = pos[n]
            /\ own[h] = l /\ pos[h] \in 1 .. N /\ at[h] = pos[h]
        BY <1>10, <1>13, <1>17, <1>21, <2>5
      <3>2. pos[n] < pos[h]
        BY <1>15, <1>21, <2>2, <3>1
      <3>3. ~(Key[h] < Key[n])
        BY <1>20, <3>1, <3>2 DEF less
      <3> QED
        BY <2>1, <3>1, <3>2, <3>3
    <2> QED
      BY <2>3, <2>4, <2>5
  <1>22. u \in Seq(Elem) /\ Len(u) = pos2[Tail_(l)] - 1
    BY <1>12, <1>16
  <1>23. Walk(links', l) = Abstract!Sorted(u)
    BY <1>7, <1>18, <1>19, <1>21, <1>22, RearrangedLemma
  <1>24. Forward(l)' = Walk(links', l)
    BY DEF Forward, Walk, list_begin
  <1> QED
    BY <1>8, <1>11, <1>23, <1>24

\* list_reverse turns the sequence of elements round.
LEMMA ReversedAll ==
    ASSUME Inv, NEW l \in List, list_reverse(l)
    PROVE  Forward(l)' = Reverse(Forward(l))
  <1>1. PICK own, pos : Rep(links, own, pos)
    BY DEF Inv
  <1>2. PICK s : s = Forward(l) /\ s = Walk(links, l)
    BY DEF Forward, Walk, list_begin
  <1>3. PICK N \in Nat : N = pos[Tail_(l)] - 1 /\ N + 1 = pos[Tail_(l)]
    BY <1>1, NodeAtLemma
  <1>4. /\ s \in Seq(Elem) /\ Len(s) = N /\ DOMAIN s = 1 .. N
        /\ \A k \in 1 .. N : s[k] \in Elem /\ own[s[k]] = l /\ pos[s[k]] = k
    BY <1>1, <1>2, <1>3, PlacesLemma, WalkPlacesLemma
  <1>5. pos[Tail_(l)] > 1 /\ ToSet(s) = {n \in Elem : own[n] = l}
    <2>1. pos[Tail_(l)] > 1 /\ ToSet(Forward(l)) = {n \in Elem : own[n] = l}
      BY <1>1, ForwardLemma DEF list_reverse
    <2> QED
      BY <1>2, <2>1
  <1>6. links' = EndsExchanged(Exchanged(links, ToSet(s)), l)
    BY <1>2 DEF list_reverse
  <1>7. PICK pos2 : pos2 = RevPos(own, pos, l)
    OBVIOUS
  <1>8. Rep(links', own, pos2)
    BY <1>1, <1>5, <1>6, <1>7, ReverseLemma
  <1>9. pos2[Tail_(l)] = N + 1
    BY <1>3, <1>7, NodeLemma DEF RevPos
  <1>10. PICK t : t = Reverse(s)
    OBVIOUS
  <1>11. t = [k \in 1 .. N |-> s[(N - k) + 1]]
    BY <1>4, <1>10 DEF Reverse
  <1>12. \A k \in 1 .. N : (N - k) + 1 \in 1 .. N /\ N + 1 - ((N - k) + 1) = k
    OBVIOUS
  <1>13. t \in Seq(Elem) /\ Len(t) = N
    <2>1. t \in [1 .. N -> Elem]
      BY <1>4, <1>11, <1>12
    <2> QED
      BY <2>1
  <1>14. ASSUME NEW k \in 1 .. N PROVE own[t[k]] = l /\ pos2[t[k]] = k
    <2>1. PICK i \in 1 .. N : i = (N - k) + 1 /\ N + 1 - i = k
      BY <1>12
    <2>2. t[k] = s[i] /\ s[i] \in Elem /\ s[i] \in Node /\ own[s[i]] = l /\ pos[s[i]] = i
      BY <1>4, <1>11, <2>1, NodeLemma
    <2>3. pos2[s[i]] = pos[Tail_(l)] - i
      BY <1>7, <2>2 DEF RevPos
    <2> QED
      BY <1>3, <2>1, <2>2, <2>3
  <1>15. Walk(links', l) = t
    <2>1. Len(t) = pos2[Tail_(l)] - 1
      BY <1>9, <1>13
    <2>2. \A k \in 1 .. Len(t) : own[t[k]] = l /\ pos2[t[k]] = k
      BY <1>13, <1>14
    <2> QED
      BY <1>8, <1>13, <2>1, <2>2, ContentLemma
  <1>16. Forward(l)' = Walk(links', l)
    BY DEF Forward, Walk, list_begin
  <1> QED
    BY <1>2, <1>10, <1>15, <1>16

\* Of the first n elements of s, the candidate at each place: replaced by one of more value.
Candidates(v, s, f, n) ==
    \A k \in 1 .. n : f[k] = IF k = 1 THEN s[1] ELSE IF v[f[k - 1]] < v[s[k]] THEN s[k] ELSE f[k - 1]

Earliest(v, s, n, i) ==
    /\ i \in 1 .. n
    /\ \A j \in 1 .. n : ~(v[s[i]] < v[s[j]]) /\ (j < i => v[s[j]] < v[s[i]])

LEMMA CandidatesExist ==
    ASSUME NEW s \in Seq(Elem), NEW v
    PROVE  \E f \in [1 .. Len(s) -> Elem] : Candidates(v, s, f, Len(s))
  <1>1. PICK N \in Nat : N = Len(s) /\ \A k \in 1 .. N : s[k] \in Elem
    OBVIOUS
  <1> DEFINE S == {n \in Nat : n <= N => \E f \in [1 .. n -> Elem] : Candidates(v, s, f, n)}
  <1>2. 0 \in S
    <2>1. PICK f : f = [k \in 1 .. 0 |-> s[k]]
      OBVIOUS
    <2>2. f \in [1 .. 0 -> Elem] /\ Candidates(v, s, f, 0)
      BY <2>1 DEF Candidates
    <2> QED
      BY <2>2
  <1>3. ASSUME NEW n \in Nat, n \in S PROVE n + 1 \in S
    <2> SUFFICES ASSUME n + 1 <= N
                 PROVE  \E f \in [1 .. n + 1 -> Elem] : Candidates(v, s, f, n + 1)
      OBVIOUS
    <2>1. PICK f \in [1 .. n -> Elem] : Candidates(v, s, f, n)
      BY <1>3
    <2>2. PICK e : e = IF n = 0 THEN s[1] ELSE IF v[f[n]] < v[s[n + 1]] THEN s[n + 1] ELSE f[n]
      OBVIOUS
    <2>3. e \in Elem
      <3>1. s[1] \in Elem /\ s[n + 1] \in Elem /\ (n # 0 => f[n] \in Elem)
        BY <1>1
      <3> QED
        BY <2>2, <3>1
    <2>4. PICK g : g = [k \in 1 .. n + 1 |-> IF k = n + 1 THEN e ELSE f[k]]
      OBVIOUS
    <2>5. g \in [1 .. n + 1 -> Elem]
      BY <2>3, <2>4
    <2>6. ASSUME NEW k \in 1 .. n + 1
          PROVE  g[k] = IF k = 1 THEN s[1] ELSE IF v[g[k - 1]] < v[s[k]] THEN s[k] ELSE g[k - 1]
      <3>1. CASE k = n + 1
        <4>1. k = 1 <=> n = 0
          BY <3>1
        <4>2. k # 1 => g[k - 1] = f[n] /\ s[k] = s[n + 1]
          BY <2>4, <3>1
        <4> QED
          BY <2>2, <2>4, <3>1, <4>1, <4>2
      <3>2. CASE k # n + 1
        <4>1. k \in 1 .. n /\ g[k] = f[k]
          BY <2>4, <3>2
        <4>2. k # 1 => g[k - 1] = f[k - 1]
          BY <2>4, <4>1
        <4>3. f[k] = IF k = 1 THEN s[1] ELSE IF v[f[k - 1]] < v[s[k]] THEN s[k] ELSE f[k - 1]
          BY <2>1, <4>1 DEF Candidates
        <4> QED
          BY <4>1, <4>2, <4>3
      <3> QED
        BY <3>1, <3>2
    <2> QED
      BY <2>5, <2>6 DEF Candidates
  <1> HIDE DEF S
  <1>4. N \in S
    BY <1>2, <1>3, Induction
  <1> QED
    BY <1>1, <1>4 DEF S

\* The last candidate is the earliest element of the greatest value.
LEMMA CandidateLemma ==
    ASSUME NEW s \in Seq(Elem), s # <<>>, NEW v \in [Elem -> Int], NEW f,
           \A k \in 1 .. Len(s) : k = 1 => f[k] = s[1],
           \A k \in 1 .. Len(s) : k # 1 /\ f[k - 1] \in Elem
                => f[k] = IF v[f[k - 1]] < v[s[k]] THEN s[k] ELSE f[k - 1]
    PROVE  \E i \in DOMAIN s : f[Len(s)] = s[i] /\ Earliest(v, s, Len(s), i)
  <1>1. PICK N \in Nat : /\ N = Len(s) /\ N > 0 /\ DOMAIN s = 1 .. N
                         /\ \A k \in 1 .. N : s[k] \in Elem /\ v[s[k]] \in Int
    OBVIOUS
  <1> DEFINE S == {n \in Nat : n + 1 <= N => \E i \in 1 .. N : f[n + 1] = s[i] /\ Earliest(v, s, n + 1, i)}
  <1>2. 0 \in S
    <2>1. f[1] = s[1] /\ Earliest(v, s, 1, 1)
      BY <1>1 DEF Earliest
    <2> QED
      BY <1>1, <2>1
  <1>3. ASSUME NEW n \in Nat, n \in S PROVE n + 1 \in S
    <2>1. PICK k \in Nat : k = n + 1
      OBVIOUS
    <2> SUFFICES ASSUME k + 1 <= N
                 PROVE  \E i \in 1 .. N : f[k + 1] = s[i] /\ Earliest(v, s, k + 1, i)
      BY <2>1
    <2>2. PICK i \in 1 .. N : f[k] = s[i] /\ Earliest(v, s, k, i)
      BY <1>3, <2>1
    <2>3. f[k + 1] = IF v[s[i]] < v[s[k + 1]] THEN s[k + 1] ELSE s[i]
      <3>1. k + 1 \in 1 .. Len(s) /\ k + 1 # 1 /\ (k + 1) - 1 = k
        BY <1>1, <2>1
      <3> QED
        BY <1>1, <2>2, <3>1
    <2>4. /\ k + 1 \in 1 .. N /\ i \in 1 .. k /\ v[s[i]] \in Int /\ v[s[k + 1]] \in Int
          /\ \A j \in 1 .. k : /\ v[s[j]] \in Int /\ ~(v[s[i]] < v[s[j]])
                               /\ j < i => v[s[j]] < v[s[i]]
      BY <1>1, <2>1, <2>2 DEF Earliest
    <2>5. CASE v[s[i]] < v[s[k + 1]]
      <3>1. Earliest(v, s, k + 1, k + 1)
        BY <2>4, <2>5 DEF Earliest
      <3> QED
        BY <2>3, <2>4, <2>5, <3>1
    <2>6. CASE ~(v[s[i]] < v[s[k + 1]])
      <3>1. ASSUME NEW j \in 1 .. k + 1
            PROVE  ~(v[s[i]] < v[s[j]]) /\ (j < i => v[s[j]] < v[s[i]])
        <4>1. CASE j = k + 1
          BY <2>4, <2>6, <4>1
        <4>2. CASE j # k + 1
          <5>1. j \in 1 .. k
            BY <4>2
          <5> QED
            BY <2>4, <5>1
        <4> QED
          BY <4>1, <4>2
      <3>2. Earliest(v, s, k + 1, i)
        BY <2>4, <3>1 DEF Earliest
      <3> QED
        BY <2>3, <2>6, <3>2
    <2> QED
      BY <2>5, <2>6
  <1> HIDE DEF S
  <1>4. N - 1 \in S
    <2>1. N - 1 \in Nat
      BY <1>1
    <2> QED
      BY <1>2, <1>3, <2>1, Induction
  <1>5. (N - 1) + 1 = N
    BY <1>1
  <1> QED
    BY <1>1, <1>4, <1>5 DEF S

\* Of several elements of the greatest or the least key the earliest one is returned.
LEMMA MaxLemma ==
    ASSUME Inv, NEW l \in List, NEW s, s = Forward(l), s # <<>>
    PROVE  \E i \in DOMAIN s : /\ list_max(l) = s[i]
                               /\ \A j \in DOMAIN s : ~less(s[i], s[j]) /\ (j < i => less(s[j], s[i]))
  <1>1. s \in Seq(Elem)
    BY ForwardLemma DEF Inv
  <1>2. PICK N \in Nat : N = Len(s) /\ N > 0 /\ DOMAIN s = 1 .. N
    BY <1>1
  <1>3. PICK f : f = [k \in DOMAIN s |-> IF k = 1 THEN s[1] ELSE Greater(f[k - 1], s[k])]
    <2>1. PICK g \in [1 .. N -> Elem] : Candidates(Key, s, g, N)
      BY <1>1, <1>2, CandidatesExist
    <2>2. g = [k \in DOMAIN s |-> IF k = 1 THEN s[1] ELSE Greater(g[k - 1], s[k])]
      BY <1>2, <2>1 DEF Candidates, Greater, less
    <2> QED
      BY <2>2
  <1> DEFINE max[k \in DOMAIN s] == IF k = 1 THEN s[1] ELSE Greater(max[k - 1], s[k])
  <1>4. max = [k \in DOMAIN s |-> IF k = 1 THEN s[1] ELSE Greater(max[k - 1], s[k])]
    BY <1>3
  <1>5. list_max(l) = max[N]
    BY <1>2 DEF list_max
  <1> HIDE DEF max
  <1>6. \A k \in 1 .. N : k = 1 => max[k] = s[1]
    BY <1>2, <1>4
  <1>7. \A k \in 1 .. N : k # 1 => max[k] = IF Key[max[k - 1]] < Key[s[k]] THEN s[k] ELSE max[k - 1]
    BY <1>2, <1>4 DEF Greater, less
  <1>8. PICK i \in DOMAIN s : max[N] = s[i] /\ Earliest(Key, s, N, i)
    BY <1>1, <1>2, <1>6, <1>7, CandidateLemma, LinkedListsAssumption
  <1> QED
    BY <1>2, <1>5, <1>8 DEF Earliest, less

LEMMA MinLemma ==
    ASSUME Inv, NEW l \in List, NEW s, s = Forward(l), s # <<>>
    PROVE  \E i \in DOMAIN s : /\ list_min(l) = s[i]
                               /\ \A j \in DOMAIN s : ~less(s[j], s[i]) /\ (j < i => less(s[i], s[j]))
  <1>1. s \in Seq(Elem)
    BY ForwardLemma DEF Inv
  <1>2. PICK N \in Nat : N = Len(s) /\ N > 0 /\ DOMAIN s = 1 .. N /\ \A k \in 1 .. N : s[k] \in Elem
    BY <1>1
  <1>3. PICK v : v = [e \in Elem |-> 0 - Key[e]]
    OBVIOUS
  <1>4. v \in [Elem -> Int] /\ \A a, b \in Elem : v[a] < v[b] <=> less(b, a)
    BY <1>3, LinkedListsAssumption DEF less
  <1>5. PICK f : f = [k \in DOMAIN s |-> IF k = 1 THEN s[1] ELSE Lesser(f[k - 1], s[k])]
    <2>1. PICK g \in [1 .. N -> Elem] : Candidates(v, s, g, N)
      BY <1>1, <1>2, CandidatesExist
    <2>2. ASSUME NEW k \in 1 .. N PROVE g[k] = IF k = 1 THEN s[1] ELSE Lesser(g[k - 1], s[k])
      <3>1. g[k] = IF k = 1 THEN s[1] ELSE IF v[g[k - 1]] < v[s[k]] THEN s[k] ELSE g[k - 1]
        BY <2>1 DEF Candidates
      <3>2. k # 1 => g[k - 1] \in Elem /\ s[k] \in Elem
        BY <1>2
      <3> QED
        BY <1>4, <3>1, <3>2 DEF Lesser
    <2>3. g = [k \in DOMAIN s |-> IF k = 1 THEN s[1] ELSE Lesser(g[k - 1], s[k])]
      BY <1>2, <2>2
    <2> QED
      BY <2>3
  <1> DEFINE min[k \in DOMAIN s] == IF k = 1 THEN s[1] ELSE Lesser(min[k - 1], s[k])
  <1>6. min = [k \in DOMAIN s |-> IF k = 1 THEN s[1] ELSE Lesser(min[k - 1], s[k])]
    BY <1>5
  <1>7. list_min(l) = min[N]
    BY <1>2 DEF list_min
  <1> HIDE DEF min
  <1>8. \A k \in 1 .. N : k = 1 => min[k] = s[1]
    BY <1>2, <1>6
  <1>9. \A k \in 1 .. N : k # 1 /\ min[k - 1] \in Elem
           => min[k] = IF v[min[k - 1]] < v[s[k]] THEN s[k] ELSE min[k - 1]
    BY <1>2, <1>4, <1>6 DEF Lesser
  <1>10. PICK i \in DOMAIN s : min[N] = s[i] /\ Earliest(v, s, N, i)
    <2>1. \A k \in 1 .. Len(s) : k = 1 => min[k] = s[1]
      BY <1>2, <1>8
    <2>2. \A k \in 1 .. Len(s) : k # 1 /\ min[k - 1] \in Elem
             => min[k] = IF v[min[k - 1]] < v[s[k]] THEN s[k] ELSE min[k - 1]
      BY <1>2, <1>9
    <2>3. PICK g : g = min
      OBVIOUS
    <2>4. \E i \in DOMAIN s : g[Len(s)] = s[i] /\ Earliest(v, s, Len(s), i)
      BY <1>1, <1>4, <2>1, <2>2, <2>3, CandidateLemma
    <2> QED
      BY <1>2, <2>3, <2>4
  <1> QED
    BY <1>2, <1>4, <1>7, <1>10 DEF Earliest

\* list_insert_ordered puts an element behind those of the same key, list_reverse turns
\* the list round, list_sort leaves what a stable sort of the list it was given leaves,
\* and list_max and list_min return the earliest of the best elements (list.c).
THEOREM ListsAsDescribed == Spec => EachAsDescribed
  <1>1. Inv => AsDescribed
    <2> SUFFICES ASSUME Inv, NEW l \in List, NEW s, s = Forward(l)
                 PROVE  /\ \A e \in Elem : list_insert_ordered(l, e)
                                             => Forward(l)' = Abstract!Sorted(Append(s, e))
                        /\ list_reverse(l) => Forward(l)' = Reverse(s)
                        /\ FindRuns /\ job' = NoJob /\ job.list = l
                              => Forward(l)' = Abstract!Sorted(before[l])
                        /\ s # <<>> => \E i, k \in DOMAIN s :
                              /\ list_max(l) = s[i] /\ list_min(l) = s[k]
                              /\ \A j \in DOMAIN s : /\ ~less(s[i], s[j]) /\ (j < i => less(s[j], s[i]))
                                                     /\ ~less(s[j], s[k]) /\ (j < k => less(s[k], s[j]))
      BY DEF AsDescribed
    <2>1. ASSUME NEW e \in Elem, list_insert_ordered(l, e)
          PROVE  Forward(l)' = Abstract!Sorted(Append(s, e))
      BY <2>1, InsertedInOrder
    <2>2. list_reverse(l) => Forward(l)' = Reverse(s)
      BY ReversedAll
    <2>3. FindRuns /\ job' = NoJob /\ job.list = l => Forward(l)' = Abstract!Sorted(before[l])
      BY SortedAtEnd
    <2>4. s # <<>> => \E i, k \in DOMAIN s :
             /\ list_max(l) = s[i] /\ list_min(l) = s[k]
             /\ \A j \in DOMAIN s : /\ ~less(s[i], s[j]) /\ (j < i => less(s[j], s[i]))
                                    /\ ~less(s[j], s[k]) /\ (j < k => less(s[k], s[j]))
      BY MaxLemma, MinLemma
    <2> QED
      BY <2>1, <2>2, <2>3, <2>4
  <1> QED
    BY <1>1, LinkedListsInvariant, PTL DEF EachAsDescribed

--------------------------------------------------------------------------------
(***************************************************************************)
(* The functions implement ElementLists.                                   *)
(***************************************************************************)

LEMMA InsertHeld ==
    ASSUME Inv, NEW e \in Elem, NEW b \in Places, Insert(e, b)
    PROVE  Abstract!InsertElem(Walks(links), Walks(links'))
  <1>1. PICK own, pos : Rep(links, own, pos)
    BY DEF Inv
  <1>2. PICK l, run, m2 : l = own[b] /\ run = <<e>> /\ m2 = list_insert(links, b, e)
    OBVIOUS
  <1>3. own[e] \notin List /\ b \in Node /\ l \in List /\ b # Head_(l)
    BY <1>1, <1>2, ListedLemma DEF Insert
  <1>4. Rep(m2, OwnBy(own, {e}, own[b]), InsPos(own, pos, b, e))
    BY <1>1, <1>2, <1>3, InsertLemma
  <1>5. PutBefore(links, own, pos, b, l, e, m2)
    BY <1>1, <1>2, <1>3, <1>4 DEF PutBefore
  <1>6. Abstract!InsertElem(Walks(links), Walks(m2))
    BY <1>2, <1>5, InsertRefines
  <1>7. links' = m2
    BY <1>2 DEF Insert
  <1> QED
    BY <1>6, <1>7

LEMMA InsertOrderedHeld ==
    ASSUME Inv, NEW e \in Elem, NEW l \in List, list_insert_ordered(l, e)
    PROVE  Abstract!InsertElem(Walks(links), Walks(links'))
  <1>1. PICK own, pos : Rep(links, own, pos)
    BY DEF Inv
  <1>2. PICK b, run, m2 : b = Stop(l, e) /\ run = <<e>> /\ m2 = list_insert(links, b, e)
    OBVIOUS
  <1>3. own[e] \notin List /\ b \in Node /\ own[b] = l /\ b # Head_(l)
    BY <1>1, <1>2, StopLemma, ListedLemma DEF list_insert_ordered
  <1>4. Rep(m2, OwnBy(own, {e}, own[b]), InsPos(own, pos, b, e))
    BY <1>1, <1>2, <1>3, InsertLemma
  <1>5. PutBefore(links, own, pos, b, l, e, m2)
    BY <1>1, <1>3, <1>4 DEF PutBefore
  <1>6. Abstract!InsertElem(Walks(links), Walks(m2))
    BY <1>2, <1>5, InsertRefines
  <1>7. links' = m2
    BY <1>2 DEF list_insert_ordered
  <1> QED
    BY <1>6, <1>7

LEMMA TakeAndFreeHeld ==
    ASSUME NEW own, NEW pos, Rep(links, own, pos), NEW e \in Elem, own[e] \in List,
           NEW m2, m2 = Freed(list_remove(links, e), e)
    PROVE  Abstract!RemoveElem(Walks(links), Walks(m2))
  <1>1. Rep(m2, OwnBy(own, {e}, Nobody), RemPos(own, pos, e))
    BY TakeAndFree
  <1> QED
    BY <1>1, RemoveRefines

LEMMA RemoveHeld ==
    ASSUME Inv, NEW e \in Elem, Remove_(e)
    PROVE  Abstract!RemoveElem(Walks(links), Walks(links'))
  <1>1. PICK own, pos : Rep(links, own, pos)
    BY DEF Inv
  <1>2. own[e] \in List
    BY <1>1, ListedLemma DEF Remove_
  <1>3. links' = Freed(list_remove(links, e), e)
    BY DEF Remove_
  <1>4. PICK m2 : m2 = Freed(list_remove(links, e), e)
    OBVIOUS
  <1> QED
    BY <1>1, <1>2, <1>3, <1>4, TakeAndFreeHeld

LEMMA RemoveTwiceHeld ==
    ASSUME Inv, NEW l \in List, RemoveTwice(l)
    PROVE  Abstract!RemoveElem(Walks(links), Walks(links'))
  <1>1. PICK own, pos : Rep(links, own, pos)
    BY DEF Inv
  <1>2. PICK e : e = list_begin(l)
    OBVIOUS
  <1>3. e \in Elem /\ own[e] \in List
    BY <1>1, <1>2, BeginLemma DEF RemoveTwice
  <1>4. links' = Freed(list_remove(list_remove(links, e), e), e)
    BY <1>2 DEF RemoveTwice
  <1>5. list_remove(list_remove(links, e), e) = list_remove(links, e)
    BY <1>1, <1>3, RemoveLemma
  <1>6. PICK m2 : m2 = Freed(list_remove(links, e), e)
    OBVIOUS
  <1> QED
    BY <1>1, <1>3, <1>4, <1>5, <1>6, TakeAndFreeHeld

LEMMA SpliceHeld ==
    ASSUME Inv, NEW l \in List, NEW s, s = Forward(l), NEW b \in Places,
           NEW i \in DOMAIN s, NEW j \in DOMAIN s, Splice(b, s, i, j)
    PROVE  Abstract!MoveRun(Walks(links), Walks(links'))
  <1>1. PICK own, pos : Rep(links, own, pos)
    BY DEF Inv
  <1>2. PICK first, last, end : first = s[i] /\ last = s[j] /\ end = links.next[last]
    OBVIOUS
  <1>3. /\ first \in Elem /\ own[first] = l /\ last \in Elem /\ own[last] = l /\ pos[first] <= pos[last]
        /\ links.prev[end] = last /\ first # end
        /\ b \in Node /\ own[b] \in List /\ b # Head_(own[b]) /\ b \notin Between(own, pos, first, last)
    BY <1>1, <1>2, SpliceWhere DEF Splice
  <1>4. PICK h, R, m2 : /\ h = own[b] /\ R = Between(own, pos, first, last)
                        /\ m2 = PutIn(TakenOut(links, first, last), b, first, last)
    OBVIOUS
  <1>5. links' = m2
    <2>1. links' = list_splice(links, b, first, end)
      BY <1>2 DEF Splice
    <2> QED
      BY <1>3, <1>4, <2>1 DEF list_splice
  <1>6. Abstract!MoveRun(Walks(links), Walks(m2))
    BY <1>1, <1>3, <1>4, MoveRefines
  <1> QED
    BY <1>5, <1>6

LEMMA ReverseHeld ==
    ASSUME Inv, NEW l \in List, list_reverse(l)
    PROVE  Abstract!ReverseList(Walks(links), Walks(links'))
  <1>1. PICK own, pos : Rep(links, own, pos)
    BY DEF Inv
  <1>2. pos[Tail_(l)] > 1 /\ ToSet(Forward(l)) = {n \in Elem : own[n] = l}
    BY <1>1, ForwardLemma DEF list_reverse
  <1>3. PICK E, pos2, m2 : /\ E = ToSet(Forward(l)) /\ pos2 = RevPos(own, pos, l)
                           /\ m2 = EndsExchanged(Exchanged(links, E), l)
    OBVIOUS
  <1>4. Rep(m2, own, pos2)
    BY <1>1, <1>2, <1>3, ReverseLemma
  <1>5. links' = m2
    BY <1>3 DEF list_reverse
  <1>6. ASSUME NEW k \in List, k # l PROVE Walk(m2, k) = Walk(links, k)
    <2>1. \A n \in Node : own[n] = k => own[n] = k /\ pos2[n] = pos[n]
      BY <1>3, <1>6 DEF RevPos
    <2> QED
      BY <1>1, <1>4, <2>1, SameWalk
  <1>7. Walk(m2, l) = Reverse(Walk(links, l))
    <2>1. Forward(l)' = Reverse(Forward(l))
      BY ReversedAll
    <2>2. Forward(l)' = Walk(links', l) /\ Forward(l) = Walk(links, l)
      BY DEF Forward, Walk, list_begin
    <2> QED
      BY <1>5, <2>1, <2>2
  <1>8. \A x : Reverse(x) = Abstract!Reverse(x)
    BY DEF Reverse, Abstract!Reverse
  <1>9. Walks(m2) = [Walks(links) EXCEPT ![l] = Abstract!Reverse(@)]
    BY <1>6, <1>7, <1>8 DEF Walks
  <1>10. Abstract!ReverseList(Walks(links), Walks(m2))
    BY <1>9 DEF Abstract!ReverseList
  <1> QED
    BY <1>5, <1>10

\* list_sort returns.
LEMMA SortHeld ==
    ASSUME Inv, FindRuns, job' = NoJob
    PROVE  Abstract!SortList(before, Walks(links'))
  <1>1. PICK own, pos : Rep(links, own, pos) /\ JobOK(job, before, links, own, pos)
    BY DEF Inv
  <1>2. job.doing = "runs" /\ links' = links
    BY DEF FindRuns
  <1>3. SortingOK(job, before, own, pos)
    BY <1>1, <1>2 DEF JobOK, NoJob, UniquingOK, UniqueOK, UniqueJob
  <1>4. PICK l : l = job.list
    OBVIOUS
  <1>5. l \in List
    BY <1>3, <1>4 DEF SortingOK, SortOK, SortJob
  <1>6. PICK was : Stable(before, l, own, pos, was)
    BY <1>3, <1>4 DEF SortingOK
  <1>7. PICK m : Rep(m, own, was) /\ before = Walks(m)
    BY <1>6 DEF Stable, Walks
  <1>8. ASSUME NEW k \in List, k # l PROVE Walk(links, k) = Walk(m, k)
    <2>1. \A n \in Node : own[n] = k => own[n] = k /\ pos[n] = was[n]
      BY <1>6, <1>8 DEF Stable
    <2> QED
      BY <1>1, <1>7, <2>1, SameWalk
  <1>9. Walk(links, l) = Abstract!Sorted(before[l])
    <2>1. Forward(l)' = Abstract!Sorted(before[l])
      BY <1>4, <1>5, SortedAtEnd
    <2>2. Forward(l)' = Walk(links', l)
      BY DEF Forward, Walk, list_begin
    <2> QED
      BY <1>2, <2>1, <2>2
  <1>10. Walks(links) = [before EXCEPT ![l] = Abstract!Sorted(@)]
    BY <1>5, <1>7, <1>8, <1>9 DEF Walks
  <1> QED
    BY <1>2, <1>5, <1>10 DEF Abstract!SortList

\* What users see is the content, or while list_sort or list_unique runs what it was.
Seen == IF Idle THEN Content ELSE before

LEMMA SeenInit == Init => Abstract!Init
  <1> SUFFICES ASSUME Init PROVE Abstract!Init
    OBVIOUS
  <1>1. Idle
    BY DEF Init, Idle, NoJob
  <1>2. ASSUME NEW l \in List PROVE Forward(l) = <<>>
    <2>1. Head_(l) \in Node /\ Tail_(l) \in Node /\ Head_(l).list = l
      BY NodeLemma DEF Head_, Tail_
    <2>2. links.next = [n \in Node |-> IF \E k \in List : n = Head_(k) THEN Tail_(n.list) ELSE NULL]
      BY DEF Init, llist_init
    <2>3. list_begin(l) = Tail_(l)
      BY <2>1, <2>2 DEF list_begin
    <2>4. Cardinality(Elem) \in Nat
      BY LinkedListsAssumption, FS_CardinalityType
    <2>5. PICK t : t = <<>>
      OBVIOUS
    <2>6. t = [k \in 1 .. 0 |-> t[k]]
      BY <2>5
    <2>7. 0 \in 0 .. Cardinality(Elem) /\ 1 .. 0 = {}
      BY <2>4
    <2>8. IsWalk(links.next, list_begin(l), Tail_(l), 0, t)
      BY <2>1, <2>3, <2>6, <2>7 DEF IsWalk
    <2>9. Along(links.next, list_begin(l), Tail_(l)) = t
      BY <2>8, WalkLemma
    <2> QED
      BY <2>5, <2>9 DEF Forward
  <1>3. Content = [l \in List |-> <<>>]
    BY <1>2 DEF Content
  <1> QED
    BY <1>1, <1>3 DEF Abstract!Init

\* Only a state without list_sort and list_unique is Idle.
LEMMA IdleStates ==
    /\ Inv => (Idle <=> job = NoJob)
    /\ Inv' => (Idle' <=> job' = NoJob)
  <1>1. NoJob.doing = "nothing"
    BY DEF NoJob
  <1>2. ASSUME NEW j, NEW s, NEW m, NEW own, NEW pos, JobOK(j, s, m, own, pos), j.doing = "nothing"
        PROVE  j = NoJob
    BY <1>2 DEF JobOK, SortingOK, SortOK, SortJob, UniquingOK, UniqueOK, UniqueJob
  <1> QED
    BY <1>1, <1>2 DEF Inv, Idle

\* Between two states in which nothing runs, the lists change as the function says.
LEMMA SeenByOne ==
    ASSUME Inv, Inv', Idle, UNCHANGED job, Abstract!Step(Walks(links), Walks(links'))
    PROVE  Abstract!Step(Seen, Seen')
  <1>1. Idle'
    BY DEF Idle
  <1>2. Seen = Walks(links) /\ Seen' = Walks(links')
    BY <1>1, ContentWalks DEF Seen
  <1> QED
    BY <1>2

\* The beginning of list_sort and list_unique is not seen.
LEMMA SeenBegins ==
    ASSUME Inv, Inv', Idle, job' # NoJob, before' = Content
    PROVE  Seen' = Seen
  BY IdleStates DEF Seen

\* Nor are their steps, up to the last one.
LEMMA SeenRuns ==
    ASSUME Inv, Inv', ~Idle, job' # NoJob, Remembered
    PROVE  Seen' = Seen
  BY IdleStates DEF Seen, Remembered

LEMMA SeenEnds ==
    ASSUME Inv, Inv', ~Idle, job' = NoJob, Abstract!Step(before, Walks(links'))
    PROVE  Abstract!Step(Seen, Seen')
  <1>1. Idle'
    BY IdleStates
  <1>2. Seen = before /\ Seen' = Walks(links')
    BY <1>1, ContentWalks DEF Seen
  <1> QED
    BY <1>2

LEMMA SeenNext == Inv /\ Inv' /\ [Next]_vars => Abstract!Step(Seen, Seen') \/ Seen' = Seen
  <1> SUFFICES ASSUME Inv, Inv', [Next]_vars PROVE Abstract!Step(Seen, Seen') \/ Seen' = Seen
    OBVIOUS
  <1>1. CASE FindRuns
    <2>1. ~Idle /\ Remembered
      BY <1>1 DEF FindRuns, Idle
    <2>2. CASE job' = NoJob
      <3>1. Abstract!SortList(before, Walks(links'))
        BY <1>1, <2>2, SortHeld
      <3>2. Abstract!Step(before, Walks(links'))
        BY <3>1 DEF Abstract!Step
      <3> QED
        BY <2>1, <2>2, <3>2, SeenEnds
    <2> QED
      BY <2>1, <2>2, SeenRuns
  <1>2. CASE Merge
    <2>1. ~Idle /\ Remembered
      BY <1>2 DEF Merge, Idle
    <2>2. job' # NoJob
      <3>1. PICK own, pos : Rep(links, own, pos) /\ JobOK(job, before, links, own, pos)
        BY DEF Inv
      <3>2. job \in SortJob
        BY <1>2, <3>1 DEF Merge, JobOK, SortingOK, SortOK, NoJob, UniquingOK, UniqueOK, UniqueJob
      <3>3. job'.doing \in {"runs", "merge"}
        BY <1>2, <3>2 DEF Merge, SortJob
      <3> QED
        BY <3>3 DEF NoJob
    <2> QED
      BY <2>1, <2>2, SeenRuns
  <1>3. CASE UniqueStep
    <2>1. ~Idle /\ Remembered
      BY <1>3 DEF UniqueStep, Idle
    <2>2. CASE job' = NoJob
      <3>1. Abstract!RemoveRepeats(before, Walks(links'))
        BY <1>3, <2>2, UniqueStepLemma
      <3>2. Abstract!Step(before, Walks(links'))
        BY <3>1 DEF Abstract!Step
      <3> QED
        BY <2>1, <2>2, <3>2, SeenEnds
    <2> QED
      BY <2>1, <2>2, SeenRuns
  <1>4. ASSUME NEW e \in Elem, Remove_(e) PROVE Abstract!Step(Seen, Seen')
    <2>1. Abstract!Step(Walks(links), Walks(links'))
      BY <1>4, RemoveHeld DEF Abstract!Step
    <2> QED
      BY <1>4, <2>1, SeenByOne DEF Remove_
  <1>5. ASSUME NEW e \in Elem, NEW b \in Places, Insert(e, b) PROVE Abstract!Step(Seen, Seen')
    <2>1. Abstract!Step(Walks(links), Walks(links'))
      BY <1>5, InsertHeld DEF Abstract!Step
    <2> QED
      BY <1>5, <2>1, SeenByOne DEF Insert
  <1>6. ASSUME NEW e \in Elem, NEW l \in List, list_insert_ordered(l, e)
        PROVE  Abstract!Step(Seen, Seen')
    <2>1. Abstract!Step(Walks(links), Walks(links'))
      BY <1>6, InsertOrderedHeld DEF Abstract!Step
    <2> QED
      BY <1>6, <2>1, SeenByOne DEF list_insert_ordered
  <1>7. ASSUME NEW l \in List, RemoveTwice(l) PROVE Abstract!Step(Seen, Seen')
    <2>1. Abstract!Step(Walks(links), Walks(links'))
      BY <1>7, RemoveTwiceHeld DEF Abstract!Step
    <2> QED
      BY <1>7, <2>1, SeenByOne DEF RemoveTwice
  <1>8. ASSUME NEW l \in List, list_reverse(l) PROVE Abstract!Step(Seen, Seen')
    <2>1. Abstract!Step(Walks(links), Walks(links'))
      BY <1>8, ReverseHeld DEF Abstract!Step
    <2> QED
      BY <1>8, <2>1, SeenByOne DEF list_reverse
  <1>9. ASSUME NEW l \in List, Sort(l) PROVE Seen' = Seen
    <2>1. Idle /\ before' = Content /\ job'.doing = "runs"
      BY <1>9 DEF Sort
    <2>2. job' # NoJob
      BY <2>1 DEF NoJob
    <2> QED
      BY <2>1, <2>2, SeenBegins
  <1>10. ASSUME NEW l \in List, NEW s \in {Forward(l)}, NEW b \in Places,
                NEW i \in DOMAIN s, NEW j \in DOMAIN s, Splice(b, s, i, j)
         PROVE  Abstract!Step(Seen, Seen')
    <2>1. Abstract!Step(Walks(links), Walks(links'))
      BY <1>10, SpliceHeld DEF Abstract!Step
    <2> QED
      BY <1>10, <2>1, SeenByOne DEF Splice
  <1>11. ASSUME NEW l \in List, NEW d \in (List \ {l}) \cup {NULL}, Unique(l, d) PROVE Seen' = Seen
    <2>1. Idle /\ before' = Content /\ job'.doing = "unique"
      BY <1>11 DEF Unique
    <2>2. job' # NoJob
      BY <2>1 DEF NoJob
    <2> QED
      BY <2>1, <2>2, SeenBegins
  <1>12. CASE UNCHANGED vars
    BY <1>12 DEF vars, Seen, Idle, Content, Forward, list_begin
  <1> QED
    BY <1>1, <1>2, <1>3, <1>4, <1>5, <1>6, <1>7, <1>8, <1>9, <1>10, <1>11, <1>12 DEF Next, Step

\* To their users the lists are sequences of elements: every function of list.c has
\* the effect list.h promises, list_sort a stable sort and list_unique the removal of
\* repeated neighbours, as if in one step.
THEOREM ListsImplementElementLists == Spec => ImplementsElementLists
  <1>1. Init => Abstract!Init
    BY SeenInit
  <1>2. Inv /\ Inv' /\ [Next]_vars => [Abstract!Next]_(IF Idle THEN Content ELSE before)
    BY SeenNext DEF Abstract!Next, Seen
  <1> QED
    BY <1>1, <1>2, LinkedListsInvariant, PTL DEF Spec, ImplementsElementLists, Abstract!Spec

================================================================================
