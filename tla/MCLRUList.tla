----------------------------- MODULE MCLRUList ------------------------------
(* LRUCache with capacity 2, three ids, two values and three iterator     *)
(* objects: enough for every eviction order and for replacing an entry.   *)
EXTENDS LRUList

CONSTANTS a, b, c, v1, v2, n1, n2, n3
=============================================================================
