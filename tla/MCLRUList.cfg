\* put, get and clear of LRUCache in any order on a cache of capacity 2.
CONSTANTS
    a = a
    b = b
    c = c
    v1 = v1
    v2 = v2
    n1 = n1
    n2 = n2
    n3 = n3
    Null = Null
    Ids = {a, b, c}
    Items = {v1, v2}
    Nodes = {n1, n2, n3}
    MaxSize = 2

SPECIFICATION Spec

INVARIANT TypeOK
INVARIANT LookupConsistent
INVARIANT RetainsMostRecent
PROPERTY Refines
