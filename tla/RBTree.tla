------------------------------- MODULE RBTree -------------------------------
(***************************************************************************)
(* The red/black tree of Contained_RBTree.c, which indexes services by    *)
(* name and by pid and descriptors by name.  A tree is a record of the    *)
(* fields of its nodes; every operation is an operator from a tree to a   *)
(* tree.  The left and right halves of the code are one definition here,  *)
(* with the side as a parameter.                                          *)
(***************************************************************************)
EXTENDS Integers, Sequences

CONSTANT Node    \* the nodes, positive numbers

Sentinel == 0    \* the shared leaf, &Sentinel

Root == -1       \* the tree's RootSentinel: its left child is the root

NULL == -2

Left == 0

Right == 1

Side == {Left, Right}

Other(d) == 1 - d

Cell == Node \cup {Sentinel, Root}

Tree == [child : [Cell -> [Side -> Cell]], parent : [Cell -> Cell \cup {NULL}],
         color : [Cell -> {"red", "black", "unassigned"}], key : [Node -> Int]]

RBTree_Init ==
    [child  |-> [n \in Cell |-> [d \in Side |-> Sentinel]],
     parent |-> [n \in Cell |-> IF n = Root THEN NULL ELSE Sentinel],
     color  |-> [n \in Cell |-> IF n \in Node THEN "unassigned" ELSE "black"],
     key    |-> [n \in Node |-> 0]]

\* The side of its parent a node is on, as `Parent->Left == Node' tells it.
SideOf(t, n) == IF t.child[t.parent[n]][Left] = n THEN Left ELSE Right

Black(t, n) == t.color[n] = "black"

Red(t, n) == t.color[n] = "red"

Paint(t, n, c) == [t EXCEPT !.color[n] = c]

Childless(t, n) == \A d \in Side : t.child[n][d] = Sentinel

-----------------------------------------------------------------------------
(* Searching and walking.                                                 *)

RECURSIVE Descend(_, _, _)

Descend(t, k, n) ==
    LET i == k - t.key[n]
        d == IF i < 0 THEN Left ELSE Right
    IN  IF i = 0 \/ t.child[n][d] = Sentinel
        THEN [nearest |-> n, relation |-> i]
        ELSE Descend(t, k, t.child[n][d])

RBTree_Find(t, k) ==
    IF t.child[Root][Left] = Sentinel THEN [nearest |-> NULL, relation |-> -1]
    ELSE Descend(t, k, t.child[Root][Left])

RECURSIVE Furthest(_, _, _)

\* Down on one side as far as it goes.
Furthest(t, n, d) ==
    IF t.child[n][d] = Sentinel THEN n ELSE Furthest(t, t.child[n][d], d)

RECURSIVE Ascend(_, _, _)

\* Up to the first ancestor n is not on side d of; the RootSentinel has
\* nothing on its right, and no parent.
Ascend(t, n, d) ==
    LET p == t.parent[n]
    IN  IF p = NULL THEN NULL
        ELSE IF t.child[p][d] = n THEN Ascend(t, p, d)
        ELSE IF t.parent[p] = NULL THEN NULL ELSE p

RBTreeNode_GetNext(t, n) ==
    IF t.child[n][Right] # Sentinel THEN Furthest(t, t.child[n][Right], Left)
    ELSE Ascend(t, n, Right)

RBTreeNode_GetPrev(t, n) ==
    IF t.child[n][Left] # Sentinel THEN Furthest(t, t.child[n][Left], Right)
    ELSE Ascend(t, n, Left)

-----------------------------------------------------------------------------
(* Changing the tree.                                                     *)

\* Rotate n, on side s of its parent, towards d.
Rotate(t, n, s, d) ==
    LET p == t.parent[n]
        c == t.child[n][Other(d)]
        g == t.child[c][d]
    IN  [t EXCEPT !.child[p][s] = c, !.parent[c] = p,
                  !.child[n][Other(d)] = g, !.parent[g] = n,
                  !.child[c][d] = n, !.parent[n] = c]

\* RBTreeNode_LeftRotate and RBTreeNode_RightRotate find the side themselves.
RotateHere(t, n, d) == Rotate(t, n, SideOf(t, n), d)

RECURSIVE RBTreeNode_Balance(_, _)

RBTreeNode_Balance(t, n) ==
    LET p == t.parent[n]
        s == IF t.child[p][Right] = n THEN Right ELSE Left
        sibling == t.child[p][Other(s)]
        slid == IF Red(t, t.child[n][Other(s)]) THEN Rotate(t, n, s, s) ELSE t
        turned == RotateHere(slid, p, Other(s))
    IN  IF Black(t, n) THEN t
        ELSE IF Red(t, sibling)
        THEN RBTreeNode_Balance(
                [t EXCEPT !.color[sibling] = "black", !.color[n] = "black",
                          !.color[p] = "red"], t.parent[p])
        ELSE Paint(Paint(turned, p, "red"), turned.parent[p], "black")

RECURSIVE Place(_, _, _)

\* The node below which n goes; equal keys go to the right.
Place(t, k, n) ==
    LET d == IF k < t.key[n] THEN Left ELSE Right
    IN  IF t.child[n][d] = Sentinel THEN <<n, d>> ELSE Place(t, k, t.child[n][d])

Attach(t, n, p, d) == [t EXCEPT !.child[p][d] = n, !.parent[n] = p]

RBTree_Add(t, n, k) ==
    LET new == [t EXCEPT !.color[n] = "red", !.key[n] = k,
                         !.child[n] = [d \in Side |-> Sentinel]]
        top == t.child[Root][Left]
        at  == Place(t, k, top)
        bigger == IF top = Sentinel THEN Attach(new, n, Root, Left)
                  ELSE RBTreeNode_Balance(Attach(new, n, at[1], at[2]), at[1])
    IN  IF t.color[n] # "unassigned" THEN t
        ELSE Paint(bigger, bigger.child[Root][Left], "black")

\* Mutant: the near nephew is not rotated out of the way first.
Straighten_skipped(t, b, far) == t

\* Case 3 of PruneLeaf: only the near nephew is red.
Straighten(t, b, far) ==
    IF Black(t, t.child[b][far]) THEN Rotate(t, b, far, far) ELSE t

RECURSIVE Refill(_, _, _, _)

\* The loop of PruneLeaf: the paths through side s of p, where n is or was,
\* have one black node too few.
Refill(t, n, p, s) ==
    LET far == Other(s)
        b   == t.child[p][far]
        up  == Paint(Paint(t, p, "red"), b, "black")
        t3  == Straighten(t, b, far)
        b3  == t3.child[p][far]
        t4  == [t3 EXCEPT !.color[t3.child[b3][far]] = "black",
                          !.color[b3] = t.color[p], !.color[p] = "black"]
    IN  IF ~Black(t, n) \/ t.parent[p] = NULL THEN Paint(t, n, "black")
        ELSE IF Red(t, b) THEN Refill(RotateHere(up, p, s), n, p, s)
        ELSE IF \A d \in Side : Black(t, t.child[b][d])
        THEN Refill(Paint(t, b, "red"), p, t.parent[p], SideOf(t, p))
        ELSE RotateHere(t4, p, s)

\* A node with at most one child.
RBTreeNode_PruneLeaf(t, n) ==
    LET p == t.parent[n]
        s == SideOf(t, n)
        without == [t EXCEPT !.child[p][s] = Sentinel]
        only == IF t.child[n][Left] # Sentinel THEN t.child[n][Left]
                ELSE t.child[n][Right]
    IN  IF Red(t, n) THEN without
        ELSE IF only # Sentinel THEN Paint(Attach(t, only, p, s), only, "black")
        ELSE Refill(without, n, p, s)

\* m, already out of the tree, takes the place and the colour of n.
Exchange(t, n, m) ==
    LET t1 == Attach(Attach(t, t.child[n][Right], m, Right),
                     t.child[n][Left], m, Left)
    IN  Paint(Attach(t1, m, t.parent[n], SideOf(t, n)), m, t.color[n])

Successor(t, n) ==
    LET m == RBTreeNode_GetNext(t, n)
    IN  IF Black(t, m) /\ Childless(t, m) THEN RBTreeNode_GetPrev(t, n) ELSE m

RBTreeNode_Prune(t, n) ==
    LET m == Successor(t, n)
    IN  IF t.color[n] = "unassigned" THEN t
        ELSE Paint(IF \E d \in Side : t.child[n][d] = Sentinel
                   THEN RBTreeNode_PruneLeaf(t, n)
                   ELSE Exchange(RBTreeNode_PruneLeaf(t, m), n, m),
                   n, "unassigned")
=============================================================================
