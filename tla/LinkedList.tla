----------------------------- MODULE LinkedList -----------------------------
(***************************************************************************)
(* The doubly linked List of lru_cache.js at the level of its pointers.   *)
(* A list is a record [front, back, next, prev, item]: front and back are *)
(* the list's fields, next/prev/item the fields of every iterator object  *)
(* (a node).  Nodes is the supply of objects "new Object()" can return;   *)
(* a node not reachable from front is garbage and may be allocated again. *)
(* Every operation is one synchronous JavaScript call.  LRUList applies  *)
(* the methods LRUCache calls (push_front, pop_back, move_to_front,     *)
(* clear); push_back, pop_front and remove are called nowhere in the    *)
(* application (pop_front is kept for a mutation of eviction).          *)
(***************************************************************************)
EXTENDS Naturals, Sequences, FiniteSets, SequencesExt


CONSTANTS
    Nodes,      \* iterator objects
    Items,      \* values stored in iter.item
    Null        \* null

ASSUME Null \notin Nodes

VARIABLE list

NodeOrNull == Nodes \cup {Null}

\* new List(): front and back null; unused node fields are null too.
Empty ==
    [front |-> Null, back |-> Null,
     next |-> [n \in Nodes |-> Null], prev |-> [n \in Nodes |-> Null],
     item |-> [n \in Nodes |-> Null]]

\* The nodes met following next from n, at most fuel of them.
RECURSIVE Walk(_, _, _)
Walk(l, n, fuel) ==
    IF n = Null \/ fuel = 0 THEN <<>> ELSE <<n>> \o Walk(l, l.next[n], fuel - 1)

\* The nodes of the list, front first (one more step than there are nodes
\* shows a cycle as a repeated node).
Chain(l)   == Walk(l, l.front, Cardinality(Nodes) + 1)
Members(l) == Range(Chain(l))
\* The items of the list, front first.
AsSeq(l)   == LET w == Chain(l) IN [i \in DOMAIN w |-> l.item[w[i]]]

\* A node that "new Object()" may return.
Fresh(l) == CHOOSE n \in Nodes : n \notin Members(l)

-----------------------------------------------------------------------------
(* The List methods, each mapping a list to the list after the call.      *)

PushFront(l, n, x) ==
    LET l1 == [l EXCEPT !.item[n] = x, !.prev[n] = Null, !.next[n] = l.front]
        l2 == IF l.front # Null THEN [l1 EXCEPT !.prev[l.front] = n] ELSE l1
        l3 == [l2 EXCEPT !.front = n]
    IN  IF l3.back = Null THEN [l3 EXCEPT !.back = n] ELSE l3

\* pop_front / pop_back of a non-empty list (on an empty one they return
\* null without a change).  The popped node keeps its pointers.
PopFront(l) ==
    LET nf == l.next[l.front]
        l1 == IF nf # Null THEN [l EXCEPT !.prev[nf] = Null] ELSE l
        l2 == IF l.front = l.back THEN [l1 EXCEPT !.back = Null] ELSE l1
    IN  [l2 EXCEPT !.front = nf]

PopBack(l) ==
    LET nb == l.prev[l.back]
        l1 == IF l.front = l.back THEN [l EXCEPT !.front = Null] ELSE l
        l2 == IF nb # Null THEN [l1 EXCEPT !.next[nb] = Null] ELSE l1
    IN  [l2 EXCEPT !.back = nb]

MoveToFront(l, n) ==
    IF n = l.front THEN l
    ELSE LET l1 == [l EXCEPT !.next[l.prev[n]] = l.next[n]]
             l2 == IF n = l.back THEN [l1 EXCEPT !.back = l.prev[n]]
                   ELSE [l1 EXCEPT !.prev[l.next[n]] = l.prev[n]]
             l3 == [l2 EXCEPT !.prev[n] = Null, !.next[n] = l.front]
         IN  [l3 EXCEPT !.prev[l.front] = n, !.front = n]

Clear(l) == [l EXCEPT !.front = Null, !.back = Null]

-----------------------------------------------------------------------------
TypeOK ==
    /\ list.front \in NodeOrNull /\ list.back \in NodeOrNull
    /\ list.next \in [Nodes -> NodeOrNull] /\ list.prev \in [Nodes -> NodeOrNull]
    /\ list.item \in [Nodes -> Items \cup {Null}]

\* The pointer structure is a proper doubly linked list: following next
\* from front reaches back without a cycle, front has no predecessor,
\* back no successor, and prev is next read backwards, however the
\* methods were interleaved.
WellFormed ==
    LET w == Chain(list) IN
    /\ (list.front = Null) <=> (list.back = Null)
    /\ Len(w) <= Cardinality(Nodes) /\ IsInjective(w)
    /\ w # <<>> => /\ list.prev[list.front] = Null
                   /\ list.back = Last(w)
                   /\ list.next[list.back] = Null
    /\ \A i \in 2..Len(w) : list.prev[w[i]] = w[i - 1]
=============================================================================
