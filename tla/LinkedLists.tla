------------------------------- MODULE LinkedLists -----------------------------
(***************************************************************************)
(* Doubly linked lists with a head and a tail (a3/fs/list.c), as the open  *)
(* inodes and the file table use them.  A node has two links, and every    *)
(* function is a few assignments to links.  The users free an element when *)
(* it has left its list, and what its links were is lost.                  *)
(*                                                                         *)
(* list_sort and list_unique run step by step, with their local variables  *)
(* in job; the other functions are single actions.                         *)
(***************************************************************************)
EXTENDS Integers, Sequences, FiniteSets, SequencesExt

CONSTANTS List, Elem, Key, NULL

ASSUME LinkedListsAssumption == IsFiniteSet(Elem) /\ NULL \notin Elem /\ Key \in [Elem -> Int]

VARIABLES
    links,          \* prev and next of every node
    job,            \* the list_sort or list_unique that is running
    before          \* history: the content of the lists when it began
                    \* (Nothing when there is none)

vars == <<links, job, before>>

Head_(l) == [list |-> l, end |-> "head"]
Tail_(l) == [list |-> l, end |-> "tail"]

Node == Elem \cup {Head_(l) : l \in List} \cup {Tail_(l) : l \in List}

ASSUME EndsAssumption == \A l \in List : {Head_(l), Tail_(l)} \cap (Elem \cup {NULL}) = {}

NoJob == [doing |-> "nothing"]

Nothing == <<>>

--------------------------------------------------------------------------------
(***************************************************************************)
(* Walking.                                                                *)
(***************************************************************************)

\* The nodes from one on, along the links given, up to the end.  No list has more
\* than all the elements.
Along(link, from, end) ==
    LET size == Cardinality(Elem)
        following == [n \in Node \cup {NULL} |-> IF n \in {end, NULL} THEN end ELSE link[n]]
        at[k \in 0 .. size] == IF k = 0 THEN from ELSE following[at[k - 1]]
        length == Min({k \in 0 .. size : at[k] = end} \cup {size + 1})
    IN [k \in 1 .. length |-> at[k - 1]]

list_begin(l) == links.next[Head_(l)]

list_rbegin(l) == links.prev[Tail_(l)]

Forward(l) == Along(links.next, list_begin(l), Tail_(l))

Backward(l) == Along(links.prev, list_rbegin(l), Head_(l))

Content == [l \in List |-> Forward(l)]

Listed == UNION {ToSet(Forward(l)) : l \in List}

less(a, b) == Key[a] < Key[b]

--------------------------------------------------------------------------------
(***************************************************************************)
(* Assignments to links.                                                   *)
(***************************************************************************)

\* llist_init, for all the lists.
llist_init == [prev |-> [n \in Node |-> IF \E l \in List : n = Tail_(l)
                                        THEN Head_(n.list) ELSE NULL],
               next |-> [n \in Node |-> IF \E l \in List : n = Head_(l)
                                        THEN Tail_(n.list) ELSE NULL]]

list_insert(m, b, e) ==
    [prev |-> [m.prev EXCEPT ![e] = m.prev[b], ![b] = e],
     next |-> [m.next EXCEPT ![e] = b, ![m.prev[b]] = e]]

list_remove(m, e) ==
    [prev |-> [m.prev EXCEPT ![m.next[e]] = m.prev[e]],
     next |-> [m.next EXCEPT ![m.prev[e]] = m.next[e]]]

\* The element's memory is freed.
Freed(m, e) == [prev |-> [m.prev EXCEPT ![e] = NULL], next |-> [m.next EXCEPT ![e] = NULL]]

\* The nodes from first to last are put in before b.
PutIn(m, b, first, last) ==
    [prev |-> [m.prev EXCEPT ![first] = m.prev[b], ![b] = last],
     next |-> [m.next EXCEPT ![last] = b, ![m.prev[b]] = first]]

\* They are taken out of their list.
TakenOut(m, first, last) ==
    [prev |-> [m.prev EXCEPT ![m.next[last]] = m.prev[first]],
     next |-> [m.next EXCEPT ![m.prev[first]] = m.next[last]]]

\* end is the node behind the last one that moves.
list_splice(m, b, first, end) ==
    IF first = end THEN m
    ELSE PutIn(TakenOut(m, first, m.prev[end]), b, first, m.prev[end])

\* The loop of list_reverse: the links of every element are exchanged.
Exchanged(m, elems) ==
    [prev |-> [n \in Node |-> IF n \in elems THEN m.next[n] ELSE m.prev[n]],
     next |-> [n \in Node |-> IF n \in elems THEN m.prev[n] ELSE m.next[n]]]

\* A slip to compare with: only the list's own two links are exchanged after it.
EndsExchangedHalf(m, l) ==
    [prev |-> [m.prev EXCEPT ![Tail_(l)] = m.next[Head_(l)]],
     next |-> [m.next EXCEPT ![Head_(l)] = m.prev[Tail_(l)]]]

\* The two swaps after it: the list's ends, then their links to the list.
EndsExchanged(m, l) ==
    LET front == m.prev[Tail_(l)]
        back == m.next[Head_(l)]
    IN [prev |-> [m.prev EXCEPT ![Tail_(l)] = back, ![front] = m.next[back]],
        next |-> [m.next EXCEPT ![Head_(l)] = front, ![back] = m.prev[front]]]

--------------------------------------------------------------------------------
(***************************************************************************)
(* Functions without a loop over links they change.                        *)
(***************************************************************************)

Init == /\ links = llist_init
        /\ job = NoJob
        /\ before = Nothing

Idle == job.doing = "nothing"

\* list_insert, list_push_front and list_push_back.
Insert(e, b) == /\ Idle
                /\ e \notin Listed
                /\ links' = list_insert(links, b, e)
                /\ UNCHANGED <<job, before>>

\* list_remove, list_pop_front and list_pop_back, and the user's free.
Remove_(e) == /\ Idle
              /\ e \in Listed
              /\ links' = Freed(list_remove(links, e), e)
              /\ UNCHANGED <<job, before>>

\* free_file_table takes each entry out by list_pop_front and then once more by
\* list_remove.
RemoveTwice(l) == /\ Idle
                  /\ Forward(l) # <<>>
                  /\ \E e \in {list_begin(l)} :
                        links' = Freed(list_remove(list_remove(links, e), e), e)
                  /\ UNCHANGED <<job, before>>

\* The elements i to j of a list with the elements s move before b, which must not
\* be one of them.
Splice(b, s, i, j) == /\ Idle
                      /\ i <= j
                      /\ \A k \in i .. j : s[k] # b
                      /\ links' = list_splice(links, b, s[i], links.next[s[j]])
                      /\ UNCHANGED <<job, before>>

list_reverse(l) == /\ Idle
                   /\ Forward(l) # <<>>
                   /\ links' = EndsExchanged(Exchanged(links, ToSet(Forward(l))), l)
                   /\ UNCHANGED <<job, before>>

IsOrdered(s) == \A i, j \in DOMAIN s : i < j => ~less(s[j], s[i])

\* The element of s at the first of the places found, or the tail.
FirstOr(s, found, l) == IF found = {} THEN Tail_(l) ELSE s[Min(found)]

\* A slip to compare with: the search stops at an equal element.
StopAtEqual(l, e) == LET s == Forward(l) IN FirstOr(s, {k \in DOMAIN s : ~less(s[k], e)}, l)

\* Where list_insert_ordered stops: at the first element greater than e.
Stop(l, e) == LET s == Forward(l) IN FirstOr(s, {k \in DOMAIN s : less(e, s[k])}, l)

list_insert_ordered(l, e) == /\ Idle
                             /\ e \notin Listed
                             /\ IsOrdered(Forward(l))
                             /\ links' = list_insert(links, Stop(l, e), e)
                             /\ UNCHANGED <<job, before>>

\* list_max and list_min replace their candidate only by a better one.
Greater(m, e) == IF less(m, e) THEN e ELSE m

Lesser(m, e) == IF less(e, m) THEN e ELSE m

list_max(l) ==
    LET s == Forward(l)
        max[k \in DOMAIN s] == IF k = 1 THEN s[1] ELSE Greater(max[k - 1], s[k])
    IN IF s = <<>> THEN Tail_(l) ELSE max[Len(s)]

list_min(l) ==
    LET s == Forward(l)
        min[k \in DOMAIN s] == IF k = 1 THEN s[1] ELSE Lesser(min[k - 1], s[k])
    IN IF s = <<>> THEN Tail_(l) ELSE min[Len(s)]

--------------------------------------------------------------------------------
(***************************************************************************)
(* list_sort: passes over the list that merge neighbouring runs.           *)
(***************************************************************************)

\* The first element behind a that is less than the one before it, or the tail.
find_end_of_run(l, a) ==
    LET s == Along(links.next, a, Tail_(l))
    IN FirstOr(s, {k \in DOMAIN s \ {1} : less(s[k], links.prev[s[k]])}, l)

Sort(l) == /\ Idle
           /\ job' = [doing |-> "runs", list |-> l, a0 |-> list_begin(l), a1b0 |-> NULL,
                      b1 |-> NULL, output_run_cnt |-> 0]
           /\ before' = Content
           /\ UNCHANGED links

\* A slip to compare with: another pass follows when there has been a run.
AfterPassAgain(runs) ==
    IF runs >= 1 THEN [job EXCEPT !.a0 = list_begin(job.list), !.output_run_cnt = 0] ELSE NoJob

\* The pass is over: another one follows unless it has put out one run or none.
AfterPass(runs) ==
    IF runs > 1 THEN [job EXCEPT !.a0 = list_begin(job.list), !.output_run_cnt = 0] ELSE NoJob

\* The history is forgotten when the function returns.
Remembered == before' = IF job' = NoJob THEN Nothing ELSE before

\* The loop of a pass up to the merge.
FindRuns ==
    /\ job.doing = "runs"
    /\ \E tail \in {Tail_(job.list)}, middle \in {find_end_of_run(job.list, job.a0)} :
          job' = IF job.a0 = tail THEN AfterPass(job.output_run_cnt)
                 ELSE IF middle = tail THEN AfterPass(job.output_run_cnt + 1)
                 ELSE [job EXCEPT !.doing = "merge",
                                  !.a1b0 = middle,
                                  !.b1 = find_end_of_run(job.list, middle),
                                  !.output_run_cnt = @ + 1]
    /\ UNCHANGED links
    /\ Remembered

\* A slip to compare with: an equal element of the second run goes first.
GoesFirstIfEqual(b, a) == ~less(a, b)

GoesFirst(b, a) == less(b, a)

\* A step of inplace_merge.  The pass goes on behind the second run.
Merge ==
    /\ job.doing = "merge"
    /\ IF job.a0 = job.a1b0 \/ job.a1b0 = job.b1
       THEN job' = [job EXCEPT !.doing = "runs", !.a0 = job.b1] /\ UNCHANGED links
       ELSE IF ~GoesFirst(job.a1b0, job.a0)
       THEN job' = [job EXCEPT !.a0 = links.next[@]] /\ UNCHANGED links
       ELSE /\ job' = [job EXCEPT !.a1b0 = links.next[@]]
            /\ links' = list_splice(links, job.a0, job.a1b0, links.next[job.a1b0])
    /\ Remembered

--------------------------------------------------------------------------------
(***************************************************************************)
(* list_unique.                                                            *)
(***************************************************************************)

Unique(l, d) == /\ Idle
                /\ Forward(l) # <<>>
                /\ job' = [doing |-> "unique", list |-> l, duplicates |-> d,
                           elem |-> list_begin(l)]
                /\ before' = Content
                /\ UNCHANGED links

\* An element equal to the one before it leaves the list, for the end of duplicates
\* or, if that is NULL, for good; next is read anew.
Equal(a, b) == ~less(a, b) /\ ~less(b, a)

UniqueStep ==
    /\ job.doing = "unique"
    /\ LET next == links.next[job.elem]
       IN IF next = Tail_(job.list) THEN job' = NoJob /\ UNCHANGED links
          ELSE IF Equal(job.elem, next)
          THEN /\ links' = IF job.duplicates = NULL THEN Freed(list_remove(links, next), next)
                           ELSE list_insert(list_remove(links, next), Tail_(job.duplicates), next)
               /\ UNCHANGED job
          ELSE job' = [job EXCEPT !.elem = next] /\ UNCHANGED links
    /\ Remembered

Step == FindRuns \/ Merge \/ UniqueStep

\* The nodes something can be put before.
Places == Listed \cup {Tail_(l) : l \in List}

Next == \/ Step
        \/ \E e \in Elem : \/ Remove_(e)
                           \/ \E b \in Places : Insert(e, b)
                           \/ \E l \in List : list_insert_ordered(l, e)
        \/ \E l \in List : \/ RemoveTwice(l) \/ list_reverse(l) \/ Sort(l)
                           \/ \E s \in {Forward(l)} : \E b \in Places, i, j \in DOMAIN s :
                                 Splice(b, s, i, j)
        \/ \E l \in List : \E d \in (List \ {l}) \cup {NULL} : Unique(l, d)

Spec == Init /\ [][Next]_vars

\* A function that has been called keeps running.
FairSpec == Spec /\ WF_vars(Step)

--------------------------------------------------------------------------------
(***************************************************************************)
(* Properties.                                                             *)
(***************************************************************************)

\* Walking a list backwards meets the elements of walking it forwards in the
\* opposite order, and no element is in two lists; also while a list is sorted.
BothWaysAgree ==
    /\ \A l \in List : Backward(l) = Reverse(Forward(l)) /\ ToSet(Forward(l)) \subseteq Elem
    /\ \A l, m \in List : l # m => ToSet(Forward(l)) \cap ToSet(Forward(m)) = {}

\* Every function has the effect on the sequence of elements that its description
\* promises; list_sort sorts, keeps all elements and leaves equal ones in order.
\* Until list_sort or list_unique has returned, the lists count as unchanged.
Abstract == INSTANCE ElementLists WITH content <- IF Idle THEN Content ELSE before
ImplementsElementLists == Abstract!Spec

\* Each function has the effect of its own description, not just that of some
\* function: list_insert_ordered puts an element behind those of the same key,
\* list_reverse turns the list round, list_sort leaves what a stable sort of the
\* list it was given leaves, and of several elements of the greatest or least key
\* list_max and list_min return the earliest.
AsDescribed ==
    \A l \in List : \A s \in {Forward(l)} :
       /\ \A e \in Elem : list_insert_ordered(l, e) => Forward(l)' = Abstract!Sorted(Append(s, e))
       /\ list_reverse(l) => Forward(l)' = Reverse(s)
       /\ FindRuns /\ job' = NoJob /\ job.list = l => Forward(l)' = Abstract!Sorted(before[l])
       /\ s # <<>> => \E i, k \in DOMAIN s :
             /\ list_max(l) = s[i] /\ list_min(l) = s[k]
             /\ \A j \in DOMAIN s : /\ ~less(s[i], s[j]) /\ (j < i => less(s[j], s[i]))
                                    /\ ~less(s[j], s[k]) /\ (j < k => less(s[k], s[j]))

EachAsDescribed == [][AsDescribed]_vars

\* list_sort and list_unique return.
JobEnds == (job # NoJob) ~> Idle

================================================================================
