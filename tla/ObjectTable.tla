----------------------------- MODULE ObjectTable ----------------------------
(***************************************************************************)
(* The tables of named objects: descriptors (fd.c) and services           *)
(* (service.c).  Both keep their objects in a list that is bounded when   *)
(* it is a pool, and find them by name in a red/black tree.  A service is *)
(* created when its name is not found; a descriptor replaces the one of   *)
(* the same name, and for a moment the tree holds both.                   *)
(*                                                                         *)
(* The code never compares the addresses of objects, so of the unused     *)
(* objects the model takes the first of the two it keeps for a name.  The *)
(* order of the list, which nothing depends on, is left out.              *)
(***************************************************************************)
EXTENDS RBTree, FiniteSets

CONSTANTS
    NAMES,   \* the number of names; they are 1..NAMES, in strseg_cmp's order
    FD_NAMES, \* the names descriptors are replaced under
    LIMIT    \* the size of the pool, fd_list_limit or svc_list_limit

ASSUME ObjectTableAssumption ==
    /\ NAMES \in Nat /\ LIMIT \in Nat /\ FD_NAMES \subseteq 1..NAMES
    /\ Node = 1..(2 * NAMES)

VARIABLES
    tree,    \* fd_by_name_index, svc_by_name_index
    used     \* the objects in the list

vars == <<tree, used>>

Name == 1..NAMES

\* STRSEG(""), where an iteration starts.
NoName == 0

Init == tree = RBTree_Init /\ used = {}

-----------------------------------------------------------------------------

\* fd_by_name, svc_by_name: NULL when the nearest node has another name.
fd_by_name(t, k) ==
    LET s == RBTree_Find(t, k) IN IF s.relation = 0 THEN s.nearest ELSE NULL

\* Mutant: the nearest node is taken for the next one, whichever side it is.
fd_iter_next_nearest(t, n, from) ==
    IF n # NULL THEN RBTreeNode_GetNext(t, n) ELSE RBTree_Find(t, from).nearest

\* fd_iter_next, svc_iter_next: the object after n or, without n, the first
\* one after a name that may be gone.
fd_iter_next(t, n, from) ==
    LET s == RBTree_Find(t, from)
    IN  IF n # NULL THEN RBTreeNode_GetNext(t, n)
        ELSE IF s.nearest = NULL \/ s.relation < 0 THEN s.nearest
        ELSE RBTreeNode_GetNext(t, s.nearest)

Unused(k) == IF k \in used THEN k + NAMES ELSE k

\* The pool has a free object, or the list could be enlarged.
HasRoom == Cardinality(used) < LIMIT

\* Memory handed back: nothing reads a node that is not in the tree.
Forget(t, n) ==
    [t EXCEPT !.child[n] = [d \in Side |-> Sentinel], !.parent[n] = Sentinel,
              !.key[n] = NoName]

\* fd_delete, svc_delete: out of the tree, then out of the list.
Removed(t, n) == Forget(RBTreeNode_Prune(t, n), n)

\* svc_by_name(name, true) on a name that has no service; svc_new may fail.
svc_new(k) ==
    /\ fd_by_name(tree, k) = NULL
    /\ HasRoom
    /\ tree' = RBTree_Add(tree, Unused(k), k)
    /\ used' = used \cup {Unused(k)}

\* svc_delete of the service found by name, fd_delete of the descriptor.
svc_delete(k) ==
    LET n == fd_by_name(tree, k)
    IN  /\ n # NULL
        /\ tree' = Removed(tree, n)
        /\ used' = used \ {n}

\* Mutant: the new descriptor is added without looking for an old one.
Superseded_kept(t, old) == t

\* fd_new_file and fd_new_pipe delete the old one once the new one exists.
Superseded(t, old) == Removed(t, old)

\* Mutant: the nearest descriptor is taken for the old one, whatever its name.
fd_new_file_nearest(k) ==
    LET old == RBTree_Find(tree, k).nearest
        new == Unused(k)
    IN  /\ old # NULL
        /\ HasRoom
        /\ tree' = Superseded(RBTree_Add(tree, new, k), old)
        /\ used' = (used \cup {new}) \ {old}

\* fd_new_file under a name that is taken: both are in the tree until the old
\* one, found before, is deleted.  A full pool refuses, although an object is
\* about to be free.
fd_new_file(k) ==
    LET old == fd_by_name(tree, k)
        new == Unused(k)
    IN  /\ old # NULL
        /\ HasRoom
        /\ tree' = Superseded(RBTree_Add(tree, new, k), old)
        /\ used' = (used \cup {new}) \ {old}

Next ==
    \/ \E k \in Name : svc_new(k) \/ svc_delete(k)
    \/ \E k \in FD_NAMES : fd_new_file(k)

Spec == Init /\ [][Next]_vars

-----------------------------------------------------------------------------
(* Properties.                                                            *)

RECURSIVE InOrder(_, _)

InOrder(t, n) ==
    IF n = Sentinel THEN <<>>
    ELSE InOrder(t, t.child[n][Left]) \o <<n>> \o InOrder(t, t.child[n][Right])

Members == InOrder(tree, tree.child[Root][Left])

RECURSIVE BlackNodes(_, _)

\* The set of the numbers of black nodes on the paths below n.
BlackNodes(t, n) ==
    IF n = Sentinel THEN {0}
    ELSE {IF Black(t, n) THEN i + 1 ELSE i :
             i \in BlackNodes(t, t.child[n][Left]) \cup BlackNodes(t, t.child[n][Right])}

\* The index keeps its promise to stay shallow, whatever the order in which
\* services and descriptors come and go: a red node has no red child, all
\* paths have the same number of black nodes (the comment in PruneLeaf), and
\* the links up agree with the links down.
RedBlack ==
    /\ tree \in Tree
    /\ Black(tree, tree.child[Root][Left])
    /\ Cardinality(BlackNodes(tree, tree.child[Root][Left])) = 1
    /\ \A n \in used : \A d \in Side :
          LET c == tree.child[n][d]
          IN  c # Sentinel => tree.parent[c] = n /\ (Red(tree, n) => Black(tree, c))

\* The list and the index hold the same objects, each once, in the order of
\* their names.
IndexMatchesList ==
    /\ {Members[i] : i \in 1..Len(Members)} = used
    /\ \A i \in 1..(Len(Members) - 1) :
          tree.key[Members[i]] < tree.key[Members[i + 1]]
    /\ \A n \in Node : n \in used <=> tree.color[n] # "unassigned"

Names == {tree.key[n] : n \in used}

\* An iteration can be resumed from a name, as statedump does: from a name
\* that is present or was deleted meanwhile, the next object is the one with
\* the least greater name, and an object leads to the one after it.
IterationResumes ==
    \A from \in Name \cup {NoName} :
        LET after == {k \in Names : k > from}
            o     == fd_by_name(tree, from)
            next  == {fd_iter_next(tree, NULL, from)} \cup
                     (IF o = NULL THEN {} ELSE {fd_iter_next(tree, o, from)})
        IN  \A n \in next :
                IF after = {} THEN n = NULL
                ELSE n \in used /\ tree.key[n] \in after
                     /\ \A k \in after : tree.key[n] <= k

\* Looking up a name finds the object last created under it, and no operation
\* on one name disturbs another: the table implements a map.
Map == INSTANCE NameMap WITH
    Object <- Node, none <- NULL,
    map <- [k \in Name |-> fd_by_name(tree, k)]

ImplementsNameMap == Map!Spec
=============================================================================
