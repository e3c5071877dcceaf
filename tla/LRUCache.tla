----------------------------- MODULE LRUCache -----------------------------
(***************************************************************************)
(* The bounded least-recently-used cache of lru_cache.js (LRUCache), seen  *)
(* through what its callers can observe: the entries in recency order.     *)
(* cache[1] is the front of the list (most recently used), cache[Len] the  *)
(* back, the entry _enforceOverflow evicts first.  Each entry is a record  *)
(* [id, item]; the lookup table of the code is the map id -> entry.        *)
(***************************************************************************)
EXTENDS Naturals, Sequences, SequencesExt

CONSTANTS
    Ids,        \* keys (cell ids)
    Items,      \* values stored under a key
    MaxSize     \* max_size given to the constructor

ASSUME MaxSize \in Nat \ {0}

VARIABLE cache

Entry == [id : Ids, item : Items]

\* Keys present in the cache (the domain of the code's lookup object).
Keys(c) == {c[i].id : i \in DOMAIN c}

\* The position of key id in c (it is present).
PosOf(c, id) == CHOOSE i \in DOMAIN c : c[i].id = id

\* List.move_to_front applied to the entry of id: unlink it, relink at front.
MoveToFront(c, id) ==
    LET i == PosOf(c, id) IN <<c[i]>> \o RemoveAt(c, i)

\* _enforceOverflow: pop_back and delete from lookup while size > max_size.
EnforceOverflow(c) == IF Len(c) > MaxSize THEN SubSeq(c, 1, MaxSize) ELSE c

\* LRUCache.put: an existing key gets its item replaced and is moved to the
\* front; a new key is pushed at the front, then the overflow is enforced.
PutOp(c, id, item) ==
    IF id \in Keys(c)
    THEN LET i == PosOf(c, id)
         IN  <<[c[i] EXCEPT !.item = item]>> \o RemoveAt(c, i)
    ELSE EnforceOverflow(<<[id |-> id, item |-> item]>> \o c)

\* LRUCache.get: a hit moves the entry to the front; a miss changes nothing.
GetOp(c, id) == IF id \in Keys(c) THEN MoveToFront(c, id) ELSE c

\* The value get returns (null is represented by NoItem).
NoItem == CHOOSE v : v \notin Items
GetResult(c, id) == IF id \in Keys(c) THEN c[PosOf(c, id)].item ELSE NoItem

-----------------------------------------------------------------------------
Init == cache = <<>>

Put(id, item) == cache' = PutOp(cache, id, item)
Get(id)       == cache' = GetOp(cache, id)
Clear         == cache' = <<>>

Next ==
    \/ \E id \in Ids, item \in Items : Put(id, item)
    \/ \E id \in Ids : Get(id)
    \/ Clear

Spec == Init /\ [][Next]_cache

TypeOK ==
    /\ cache \in Seq(Entry)
    /\ Len(cache) <= MaxSize
=============================================================================
