------------------------------- MODULE NameMap ------------------------------
(* What the tables of services and of descriptors promise: a name leads to *)
(* the object last created under it, and no operation on one name changes  *)
(* what another name leads to.                                             *)
CONSTANTS Name, Object, none

VARIABLE map

Init == map = [k \in Name |-> none]

Same(k) == map'[k] = map[k]

Remove(k) == map'[k] = none

\* The object is new: no name led to it.
Put(k) == map'[k] \in Object /\ \A j \in Name : map[j] # map'[k]

Next == /\ DOMAIN map' = Name
        /\ \E k \in Name : /\ Remove(k) \/ Put(k)
                           /\ \A j \in Name \ {k} : Same(j)

Spec == Init /\ [][Next]_map
=============================================================================
