-------------------------------- MODULE LRU --------------------------------
(***************************************************************************)
(* What a least-recently-used cache promises: at most Capacity entries,    *)
(* one for a key, in the order of their last use; get returns the value    *)
(* last put for a key unless that entry has been evicted, and what is      *)
(* evicted is the entry unused for longest.                                *)
(***************************************************************************)
EXTENDS Naturals, Sequences

CONSTANTS Keys, Values, Missing, Capacity

VARIABLES
    entries,   \* [key, value] records, the most recently used first
    answer     \* what the last get returned

vars == <<entries, answer>>

Has(k) == \E n \in DOMAIN entries : entries[n].key = k

\* Entry e comes first; those before position p move one place back, and the
\* result is length long.
Fronted(e, p, length) ==
    [n \in 1 .. length |->
        IF n = 1 THEN e ELSE IF n <= p THEN entries[n - 1] ELSE entries[n]]

Init ==
    /\ entries = <<>>
    /\ answer = Missing

\* The entry at p is used, and has the value v from now on.
Use(p, v) == entries' = Fronted([key |-> entries[p].key, value |-> v], p, Len(entries))

\* The length after one more entry: the last one goes if there are too many.
Grown == IF Len(entries) < Capacity THEN Len(entries) + 1 ELSE Capacity

Get(k) ==
    \/ \E p \in DOMAIN entries :
          /\ entries[p].key = k
          /\ answer' = entries[p].value
          /\ Use(p, entries[p].value)
    \/ /\ ~Has(k)
       /\ answer' = Missing
       /\ UNCHANGED entries

Put(k, v) ==
    /\ \/ \E p \in DOMAIN entries : entries[p].key = k /\ Use(p, v)
       \/ ~Has(k) /\ entries' = Fronted([key |-> k, value |-> v], Len(entries) + 1, Grown)
    /\ UNCHANGED answer

Next == \E k \in Keys : Get(k) \/ \E v \in Values : Put(k, v)

Spec == Init /\ [][Next]_vars
=============================================================================
