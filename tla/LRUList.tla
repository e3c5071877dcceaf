------------------------------ MODULE LRUList -------------------------------
(***************************************************************************)
(* LRUCache of lru_cache.js as the code builds it: a List of iterator     *)
(* nodes whose items are {id, item} records, a lookup object from id to   *)
(* iterator, and a size counter.  Every method is one synchronous call.   *)
(* touched is a history variable: the ids in the order the callers last   *)
(* put or got them (a get that misses touches nothing), most recent       *)
(* first; it is not in the code and only states the promise of spec §8.   *)
(***************************************************************************)
EXTENDS Naturals, Sequences, FiniteSets, SequencesExt

CONSTANTS
    Ids,        \* keys
    Items,      \* values
    MaxSize,    \* max_size
    Nodes,      \* iterator objects
    Null        \* null (and undefined, for a missing lookup key)

ASSUME MaxSize \in Nat \ {0} /\ Cardinality(Nodes) > MaxSize

VARIABLES list, lookup, size, touched

vars == <<list, lookup, size, touched>>

Entry == [id : Ids, item : Items]

LL == INSTANCE LinkedList WITH Items <- Entry

\* The state the cache methods change, as one record.
State == [list |-> list, lookup |-> lookup, size |-> size]

\* Mutation: the evicted id stays in lookup.
EvictBackNoDelete(st) ==
    [st EXCEPT !.list = LL!PopBack(st.list), !.size = st.size - 1]

\* Mutation: the front (most recent) entry is evicted.
EvictBackFront(st) ==
    LET removed == st.list.item[st.list.front]
    IN  [list   |-> LL!PopFront(st.list),
         lookup |-> [st.lookup EXCEPT ![removed.id] = Null],
         size   |-> st.size - 1]

\* One iteration of _enforceOverflow: pop_back, delete the popped entry's
\* id from lookup, decrement size.
EvictBack(st) ==
    LET removed == st.list.item[st.list.back]
    IN  [list   |-> LL!PopBack(st.list),
         lookup |-> [st.lookup EXCEPT ![removed.id] = Null],
         size   |-> st.size - 1]

\* _enforceOverflow: evict while size > max_size.
RECURSIVE EnforceOverflow(_)
EnforceOverflow(st) ==
    IF st.size > MaxSize THEN EnforceOverflow(EvictBack(st)) ELSE st

\* Mutation: replacing an existing item does not promote it.
PutExistingNoMove(st, id, x) ==
    LET it == st.lookup[id] IN [st EXCEPT !.list.item[it].item = x]

\* put on an id already present: the item is replaced and its iterator
\* moved to the front.
PutExisting(st, id, x) ==
    LET it == st.lookup[id]
    IN  [st EXCEPT !.list = LL!MoveToFront([st.list EXCEPT !.item[it].item = x], it)]

\* Mutation: the overflow is not enforced after a new entry.
PutNewNoOverflow(st, id, x) ==
    LET n == LL!Fresh(st.list)
    IN  [list   |-> LL!PushFront(st.list, n, [id |-> id, item |-> x]),
         lookup |-> [st.lookup EXCEPT ![id] = n],
         size   |-> st.size + 1]

\* put on a new id: a node {id, item} pushed at the front, size and lookup
\* updated, then the overflow enforced.
PutNew(st, id, x) ==
    LET n == LL!Fresh(st.list)
    IN  EnforceOverflow([list   |-> LL!PushFront(st.list, n, [id |-> id, item |-> x]),
                         lookup |-> [st.lookup EXCEPT ![id] = n],
                         size   |-> st.size + 1])

PutOp(st, id, x) ==
    IF st.lookup[id] # Null THEN PutExisting(st, id, x) ELSE PutNew(st, id, x)

\* get: a hit moves the iterator to the front.
GetOp(st, id) ==
    IF st.lookup[id] # Null
    THEN [st EXCEPT !.list = LL!MoveToFront(st.list, st.lookup[id])]
    ELSE st

ClearOp(st) ==
    [size |-> 0, lookup |-> [i \in Ids |-> Null], list |-> LL!Clear(st.list)]

-----------------------------------------------------------------------------
Apply(st) == list' = st.list /\ lookup' = st.lookup /\ size' = st.size

\* touched after a call that touches id.
Touch(id) == touched' = <<id>> \o SelectSeq(touched, LAMBDA i : i # id)

Init ==
    /\ list = LL!Empty
    /\ lookup = [i \in Ids |-> Null]
    /\ size = 0
    /\ touched = <<>>

Put(id, x) == Apply(PutOp(State, id, x)) /\ Touch(id)

Get(id) ==
    /\ Apply(GetOp(State, id))
    /\ IF lookup[id] # Null THEN Touch(id) ELSE UNCHANGED touched

Clear == Apply(ClearOp(State)) /\ touched' = <<>>

Next ==
    \/ \E id \in Ids, x \in Items : Put(id, x)
    \/ \E id \in Ids : Get(id)
    \/ Clear

Spec == Init /\ [][Next]_vars

-----------------------------------------------------------------------------
TypeOK ==
    /\ LL!TypeOK
    /\ lookup \in [Ids -> LL!NodeOrNull]
    /\ size \in 0..MaxSize
    /\ touched \in Seq(Ids)

\* lookup, size and the list agree after every sequence of calls: the
\* list is well formed, size counts its nodes, every id in lookup names a
\* node of the list holding that id, and every node is reachable through
\* lookup under its own id.
LookupConsistent ==
    /\ LL!WellFormed
    /\ size = Len(LL!Chain(list))
    /\ \A i \in Ids : lookup[i] # Null =>
          lookup[i] \in LL!Members(list) /\ list.item[lookup[i]].id = i
    /\ \A n \in LL!Members(list) : lookup[list.item[n].id] = n

\* Spec §8: the cache holds exactly the MaxSize most recently touched ids
\* (all of them while fewer were touched since the last clear).
RetainsMostRecent ==
    {i \in Ids : lookup[i] # Null} =
        Range(SubSeq(touched, 1, IF Len(touched) < MaxSize THEN Len(touched) ELSE MaxSize))

\* The pointer-level cache implements the sequence-level LRUCache that
\* FrustumQuerier uses, under the mapping "items of the list, front first".
Abs == INSTANCE LRUCache WITH cache <- LL!AsSeq(list)
Refines == Abs!Spec
=============================================================================
