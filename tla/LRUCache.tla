------------------------------ MODULE LRUCache ------------------------------
(***************************************************************************)
(* LRU_Cache (src/utils/LRU_Cache.h, LRU_Cache.cpp): a doubly linked list  *)
(* and a hash table that points into it.  get and put hold one mutex from  *)
(* end to end, so each is one step; within a step the pointer assignments  *)
(* are made in the order of the source, as functions from list to list.    *)
(***************************************************************************)
EXTENDS Naturals, Sequences, FiniteSets

CONSTANTS
    Keys, Values,
    Missing,     \* the empty string get returns for a key it does not find
    Nodes,       \* the CacheNode objects memory has room for
    Null,
    Capacity

ASSUME LRUAssumption ==
    /\ Null \notin Nodes
    /\ Missing \notin Values /\ Missing \notin [key : Keys, value : Values]
    /\ Capacity \in Nat
    /\ Cardinality(Nodes) > Capacity

VARIABLES
    list,     \* [head, tail, prev, next]: the pointers
    data,     \* node -> [key, value] while allocated, Missing when free
    map,      \* the hash table
    size,
    answer    \* history: what the last get returned

cacheVars == <<list, data, map, size, answer>>

Used == {n \in Nodes : data[n] # Missing}
Point(f, n, m) == IF n = Null THEN f ELSE [f EXCEPT ![n] = m]

-----------------------------------------------------------------------------
(* The private helpers.                                                    *)

\* Mutant of Unlinked: the tail pointer is not moved off the node.
UnlinkedTailKept(l, n) ==
    [head |-> l.head,
     tail |-> l.tail,
     next |-> Point(l.next, l.prev[n], l.next[n]),
     prev |-> Point(l.prev, l.next[n], l.prev[n])]

\* moveToHead, first half: take the node out of its place.
Unlinked(l, n) ==
    [head |-> l.head,
     tail |-> IF l.tail = n THEN l.prev[n] ELSE l.tail,
     next |-> Point(l.next, l.prev[n], l.next[n]),
     prev |-> Point(l.prev, l.next[n], l.prev[n])]

\* moveToHead, second half, and addToHead: make the node the head.
AtHead(l, n, tail) ==
    [head |-> n,
     tail |-> tail,
     next |-> Point(l.next, n, l.head),
     prev |-> Point(Point(l.prev, l.head, n), n, Null)]

\* Mutant of MoveToHead: a hit does not count as a use.
NotMoved(l, n) == l

MoveToHead(l, n) ==
    IF n = l.head THEN l ELSE AtHead(Unlinked(l, n), n, Unlinked(l, n).tail)

AddToHead(l, n) == AtHead(l, n, IF l.tail = Null THEN n ELSE l.tail)

RemoveTail(l) ==
    LET t == l.prev[l.tail]
    IN  [head |-> IF t = Null THEN Null ELSE l.head,
         tail |-> t,
         next |-> Point(l.next, t, Null),
         prev |-> l.prev]

-----------------------------------------------------------------------------

CacheInit ==
    /\ list = [head |-> Null, tail |-> Null,
               prev |-> [n \in Nodes |-> Null], next |-> [n \in Nodes |-> Null]]
    /\ data = [n \in Nodes |-> Missing]
    /\ map = [k \in {} |-> Null]
    /\ size = 0
    /\ answer = Missing

Miss(k) ==
    /\ k \notin DOMAIN map
    /\ answer' = Missing
    /\ UNCHANGED <<list, data, map, size>>

Hit(k) ==
    /\ k \in DOMAIN map
    /\ list' = MoveToHead(list, map[k])
    /\ answer' = data[map[k]].value
    /\ UNCHANGED <<data, map, size>>

Update(k, v) ==
    /\ k \in DOMAIN map
    /\ data' = [data EXCEPT ![map[k]] = [key |-> @.key, value |-> v]]
    /\ list' = MoveToHead(list, map[k])
    /\ UNCHANGED <<map, size, answer>>

Full(s) == s > Capacity

\* removeTail takes the key out of the hash table.
Forgotten(m, k) == [x \in DOMAIN m \ {k} |-> m[x]]

\* A new node at the head; if that is one too many, the tail is freed.
Insert(k, v) ==
    /\ k \notin DOMAIN map
    /\ UNCHANGED answer
    /\ \E n \in Nodes \ Used :
          LET grown == AddToHead(list, n)
              filled == [data EXCEPT ![n] = [key |-> k, value |-> v]]
              known == [x \in DOMAIN map \cup {k} |-> IF x = k THEN n ELSE map[x]]
          IN  IF Full(size + 1)
              THEN /\ list' = RemoveTail(grown)
                   /\ map' = Forgotten(known, filled[grown.tail].key)
                   /\ data' = [filled EXCEPT ![grown.tail] = Missing]
                   /\ size' = size
              ELSE /\ list' = grown
                   /\ map' = known
                   /\ data' = filled
                   /\ size' = size + 1

CacheNext ==
    \E k \in Keys :
        \/ Hit(k) \/ Miss(k)
        \/ \E v \in Values : Update(k, v) \/ Insert(k, v)

CacheSpec == CacheInit /\ [][CacheNext]_cacheVars

-----------------------------------------------------------------------------

Lists == [head : Nodes \cup {Null}, tail : Nodes \cup {Null},
          prev : [Nodes -> Nodes \cup {Null}], next : [Nodes -> Nodes \cup {Null}]]

\* Every variable has its type.
CacheTypeOK ==
    /\ list \in Lists
    /\ data \in [Nodes -> [key : Keys, value : Values] \cup {Missing}]
    /\ DOMAIN map \subseteq Keys /\ map \in [DOMAIN map -> Nodes]
    /\ size \in 0 .. Capacity
    /\ answer \in Values \cup {Missing}

\* The pointers are those of one doubly linked list of the allocated nodes: no
\* link leads into freed memory, both directions agree, and only the ends end.
ListSound ==
    /\ list.head = Null <=> list.tail = Null
    /\ list.head = Null <=> Used = {}
    /\ \A n \in Used :
          /\ list.next[n] \in Used \cup {Null} /\ list.prev[n] \in Used \cup {Null}
          /\ list.next[n] = Null <=> n = list.tail
          /\ list.prev[n] = Null <=> n = list.head
          /\ list.next[n] # Null => list.prev[list.next[n]] = n
          /\ list.prev[n] # Null => list.next[list.prev[n]] = n
    /\ list.head # Null => {list.head, list.tail} \subseteq Used

\* The hash table, the list and the count speak of the same entries, and the
\* cache never holds more than its capacity.
MapMatchesList ==
    /\ \A n \in Used : data[n].key \in DOMAIN map /\ map[data[n].key] = n
    /\ \A k \in DOMAIN map : map[k] \in Used /\ data[map[k]].key = k
    /\ size = Cardinality(Used)
    /\ size <= Capacity

\* After any sequence of get and put the whole structure is sound (LRU_Cache.cpp:8-66).
CacheSound == CacheTypeOK /\ ListSound /\ MapMatchesList

-----------------------------------------------------------------------------

\* The nodes of a list of n, from the head along the next pointers.
Order(l, nodes, n) ==
    CHOOSE s \in [1 .. n -> nodes] :
        \A i \in 1 .. n : s[i] = IF i = 1 THEN l.head ELSE l.next[s[i - 1]]

Entries ==
    LET order == Order(list, Used, size) IN [i \in 1 .. size |-> data[order[i]]]

Abstract == INSTANCE LRU WITH entries <- Entries

\* The cache implements LRU: the linked list is the order of last use.
ImplementsLRU == Abstract!Spec
=============================================================================
