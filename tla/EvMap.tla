------------------------------- MODULE EvMap --------------------------------
(***************************************************************************)
(* The intrusive red-black tree of utils/map.c, pointer by pointer.        *)
(*                                                                         *)
(* A map is a record: root, size, and the fields of the nodes (kid[n].l is *)
(* rb_left of n, kid[n].r is rb_right; __rb_parent_color is split into     *)
(* parent and red).  The mirrored halves of the C functions are one        *)
(* definition with the side d as parameter.  Following a null pointer      *)
(* applies a function outside its domain, which TLC reports.               *)
(*                                                                         *)
(* The map is documented as MT-unsafe: one call is one action.             *)
(***************************************************************************)
EXTENDS Integers, FiniteSets, Sequences

CONSTANTS Nil,         \* the null pointer
          MapNode,     \* addresses of auto_map_node_t: positive integers
          KeyOf(_),    \* the part of a node its compare function looks at
          MayReplace   \* clients call replace() with a key that is present

VARIABLES tree,     \* the map
          answer    \* what the last call returned

mapVars == <<tree, answer>>

Other(d) == IF d = "l" THEN "r" ELSE "l"
Cmp(a, b) == KeyOf(a) - KeyOf(b)

EmptyNode == [l |-> Nil, r |-> Nil]
EmptyMap == [root |-> Nil, size |-> 0,
             kid |-> [n \in MapNode |-> EmptyNode],
             parent |-> [n \in MapNode |-> Nil],
             red |-> [n \in MapNode |-> TRUE]]

IsRed(t, n) == n # Nil /\ t.red[n]
SetKid(t, n, d, m) == [t EXCEPT !.kid[n][d] = m]
SetParent(t, n, p) == [t EXCEPT !.parent[n] = p]
SetParentColor(t, n, p, red) == [t EXCEPT !.parent[n] = p, !.red[n] = red]
Blacken(t, n, p) == IF n = Nil THEN t ELSE SetParentColor(t, n, p, FALSE)

ChangeChild(t, old, new, p) ==
    IF p = Nil THEN [t EXCEPT !.root = new]
    ELSE SetKid(t, p, IF t.kid[p].l = old THEN "l" ELSE "r", new)

\* new takes the place and the colour of old, which becomes its child.
RotateSetParents(t, old, new, red) ==
    LET p == t.parent[old]
        t1 == SetParentColor(t, new, p, t.red[old])
    IN  ChangeChild(SetParentColor(t1, old, new, red), old, new, p)
-----------------------------------------------------------------------------
(***************************************************************************)
(* Rebalancing.                                                            *)
(***************************************************************************)

\* Case 2 of the insertion: node, the inner child of p, trades places with p.
RotateAtParent(t, node, p, d) ==
    LET tmp == t.kid[node][d]
        t1 == Blacken(SetKid(SetKid(t, p, Other(d), tmp), node, d, p), tmp, p)
    IN  SetParentColor(t1, p, node, TRUE)

\* Case 3 of the insertion: p, the child of g on side d, is pulled up.
RotateAtGrandparent(t, p, g, d) ==
    LET tmp == t.kid[p][Other(d)]
        t1 == Blacken(SetKid(SetKid(t, g, d, tmp), p, Other(d), g), tmp, g)
    IN  RotateSetParents(t1, g, p, TRUE)

\* Mutant of InsertColor: case 2 is taken for case 3.
RECURSIVE InsertColorNoInner(_, _, _)
InsertColorNoInner(t, node, p) ==
    IF p = Nil THEN SetParentColor(t, node, Nil, FALSE)
    ELSE IF ~t.red[p] THEN t
    ELSE LET g == t.parent[p]
             d == IF p # t.kid[g].r THEN "l" ELSE "r"
             uncle == t.kid[g][Other(d)]
         IN  IF IsRed(t, uncle)
             THEN LET t1 == Blacken(Blacken(t, uncle, g), p, g)
                  IN  InsertColorNoInner([t1 EXCEPT !.red[g] = TRUE], g, t1.parent[g])
             ELSE RotateAtGrandparent(t, p, g, d)

\* __rb_insert: node is red; its parent p may be, too.
RECURSIVE InsertColor(_, _, _)
InsertColor(t, node, p) ==
    IF p = Nil THEN SetParentColor(t, node, Nil, FALSE)
    ELSE IF ~t.red[p] THEN t
    ELSE LET g == t.parent[p]
             d == IF p # t.kid[g].r THEN "l" ELSE "r"
             uncle == t.kid[g][Other(d)]
         IN  IF IsRed(t, uncle)
             THEN LET t1 == Blacken(Blacken(t, uncle, g), p, g)
                  IN  InsertColor([t1 EXCEPT !.red[g] = TRUE], g, t1.parent[g])
             ELSE IF node = t.kid[p][Other(d)]
             THEN RotateAtGrandparent(RotateAtParent(t, node, p, d), node, g, d)
             ELSE RotateAtGrandparent(t, p, g, d)

\* The node without a left child that follows n, from the right child of n.
RECURSIVE Leftmost(_, _)
Leftmost(t, n) == IF t.kid[n].l = Nil THEN n ELSE Leftmost(t, t.kid[n].l)

RECURSIVE Rightmost(_, _)
Rightmost(t, n) == IF t.kid[n].r = Nil THEN n ELSE Rightmost(t, t.kid[n].r)

\* Result of unlinking a node: the tree, and the parent below which a black
\* node is missing (Nil if none is).
Unlinked(t, rebalance) == [tree |-> t, rebalance |-> rebalance]

\* Case 1 of __rb_erase_augmented: node has at most one child.
UnlinkSimple(t, node, child) ==
    LET p == t.parent[node]
        t1 == ChangeChild(t, node, child, p)
    IN  IF child # Nil
        THEN Unlinked(SetParentColor(t1, child, p, t.red[node]), Nil)
        ELSE Unlinked(t1, IF t.red[node] THEN Nil ELSE p)

\* Cases 2 and 3: the successor of node takes its place.
UnlinkInner(t, node) ==
    LET child == t.kid[node].r
        next == Leftmost(t, child)
        child2 == t.kid[next].r
        p == IF next = child THEN next ELSE t.parent[next]
        t1 == IF next = child THEN t
              ELSE SetParent(SetKid(SetKid(t, p, "l", child2), next, "r", child), child, next)
        left == t.kid[node].l
        t2 == SetParent(SetKid(t1, next, "l", left), left, next)
        t3 == ChangeChild(t2, node, next, t.parent[node])
        t4 == SetParentColor(t3, next, t.parent[node], t.red[node])
    IN  IF child2 # Nil
        THEN Unlinked(Blacken(t4, child2, p), Nil)
        ELSE Unlinked(t4, IF t.red[next] THEN Nil ELSE p)

Unlink(t, node) ==
    CASE t.kid[node].l = Nil -> UnlinkSimple(t, node, t.kid[node].r)
      [] t.kid[node].l # Nil /\ t.kid[node].r = Nil ->
             UnlinkSimple(t, node, t.kid[node].l)
      [] OTHER -> UnlinkInner(t, node)

\* Case 1 of ____rb_erase_color: the sibling on side d of p is red.
RotateRedSibling(t, p, sibling, d) ==
    LET tmp == t.kid[sibling][Other(d)]
        t1 == SetKid(SetKid(t, p, d, tmp), sibling, Other(d), p)
    IN  RotateSetParents(SetParentColor(t1, tmp, p, FALSE), p, sibling, TRUE)

\* Case 3: the inner child of the sibling is red, its outer child is not.
RotateAtSibling(t, p, sibling, d) ==
    LET inner == t.kid[sibling][Other(d)]
        tmp == t.kid[inner][d]
        t1 == SetKid(SetKid(SetKid(t, sibling, Other(d), tmp), inner, d, sibling), p, d, inner)
    IN  Blacken(t1, tmp, sibling)

\* Case 4: rotation at p and colour flips.
RotateAndFlip(t, p, sibling, outer, d) ==
    LET tmp == t.kid[sibling][Other(d)]
        t1 == SetKid(SetKid(t, p, d, tmp), sibling, Other(d), p)
        t2 == SetParentColor(t1, outer, sibling, FALSE)
        t3 == IF tmp = Nil THEN t2 ELSE SetParent(t2, tmp, p)
    IN  RotateSetParents(t3, p, sibling, FALSE)

\* ____rb_erase_color: paths through node, a child of p, lack a black node.
RECURSIVE EraseColor(_, _, _)
EraseColor(t, node, p) ==
    LET d == IF node # t.kid[p].r THEN "r" ELSE "l"
        old == t.kid[p][d]
        t1 == IF t.red[old] THEN RotateRedSibling(t, p, old, d) ELSE t
        sibling == t1.kid[p][d]
        outer == t1.kid[sibling][d]
        inner == t1.kid[sibling][Other(d)]
    IN  IF IsRed(t1, outer) THEN RotateAndFlip(t1, p, sibling, outer, d)
        ELSE IF IsRed(t1, inner)
        THEN RotateAndFlip(RotateAtSibling(t1, p, sibling, d), p, inner, sibling, d)
        ELSE LET t2 == SetParentColor(t1, sibling, p, TRUE)
             IN  IF t2.red[p] THEN [t2 EXCEPT !.red[p] = FALSE]
                 ELSE IF t2.parent[p] = Nil THEN t2
                 ELSE EraseColor(t2, p, t2.parent[p])
-----------------------------------------------------------------------------
(***************************************************************************)
(* The functions of the API on a map.                                      *)
(***************************************************************************)

\* The descent of insert, replace and find: where the search for key ends.
\* at is the node with that key, or Nil; parent and side say where a new
\* node would be linked.
RECURSIVE Descend(_, _, _, _, _)
Descend(t, key, n, p, d) ==
    IF n = Nil \/ Cmp(key, n) = 0 THEN [at |-> n, parent |-> p, side |-> d]
    ELSE LET down == IF Cmp(key, n) < 0 THEN "l" ELSE "r"
         IN  Descend(t, key, t.kid[n][down], n, down)

Search(t, key) == Descend(t, key, t.root, Nil, "l")

\* ev_map_low_link_node, then the rebalancing.
LinkNode(t, node, where) ==
    LET t1 == [t EXCEPT !.parent[node] = where.parent, !.red[node] = TRUE,
                        !.kid[node] = EmptyNode]
        t2 == IF where.parent = Nil THEN [t1 EXCEPT !.root = node]
              ELSE SetKid(t1, where.parent, where.side, node)
    IN  InsertColor(t2, node, where.parent)

\* Mutant of MapInsert: a node whose key is present is counted.
MapInsertCounts(t, node) ==
    LET where == Search(t, node)
        t1 == [t EXCEPT !.size = @ + 1]
    IN  [tree |-> IF where.at = Nil THEN LinkNode(t1, node, where) ELSE t1, ret |-> where.at]

\* ev_map_insert returns the node that has the key already.
MapInsert(t, node) ==
    LET where == Search(t, node)
    IN  [tree |-> IF where.at = Nil
                  THEN LinkNode([t EXCEPT !.size = @ + 1], node, where) ELSE t,
         ret |-> where.at]

\* ev_map_replace with a key that is present: the new node takes the links of
\* the old one, by way of its children and its parent, which must exist.  Then
\* the links of *new_node are cleared; the parent's link it stands for leads to
\* the new node by now.
Substitute(t, node, old) ==
    LET p == t.parent[old]
        t1 == [t EXCEPT !.kid[node] = t.kid[old], !.size = @ + 1,
                        !.parent[t.kid[old].l] = node, !.parent[t.kid[old].r] = node]
        t2 == ChangeChild(t1, old, node, p)
    IN  [t2 EXCEPT !.kid[node] = EmptyNode, !.parent[node] = Nil, !.red[node] = TRUE]

MapReplace(t, node) ==
    LET where == Search(t, node)
        old == where.at
    IN  IF old = Nil
        THEN [tree |-> LinkNode([t EXCEPT !.size = @ + 1], node, where), ret |-> Nil]
        ELSE IF Nil \in {t.kid[old].l, t.kid[old].r, t.parent[old]}
        THEN [tree |-> t, ret |-> "crash"]
        ELSE [tree |-> Substitute(t, node, old), ret |-> node]

MapErase(t, node) ==
    LET out == Unlink([t EXCEPT !.size = @ - 1], node)
        t1 == IF out.rebalance = Nil THEN out.tree
              ELSE EraseColor(out.tree, Nil, out.rebalance)
    IN  [t1 EXCEPT !.kid[node] = EmptyNode, !.parent[node] = Nil, !.red[node] = TRUE]

MapFind(t, key) == Search(t, key).at

\* ev_map_find_lower: the last node passed on the right.
RECURSIVE LowerFrom(_, _, _, _)
LowerFrom(t, key, n, lower) ==
    CASE n = Nil -> lower
      [] n # Nil /\ Cmp(key, n) < 0 -> LowerFrom(t, key, t.kid[n].l, lower)
      [] n # Nil /\ Cmp(key, n) > 0 -> LowerFrom(t, key, t.kid[n].r, n)
      [] OTHER -> n

MapFindLower(t, key) == LowerFrom(t, key, t.root, Nil)

\* ev_map_find_upper: the last node passed on the left; at the key itself the
\* right child if none was passed.
RECURSIVE UpperFrom(_, _, _, _)
UpperFrom(t, key, n, upper) ==
    CASE n = Nil -> upper
      [] n # Nil /\ Cmp(key, n) < 0 -> UpperFrom(t, key, t.kid[n].l, n)
      [] n # Nil /\ Cmp(key, n) > 0 -> UpperFrom(t, key, t.kid[n].r, upper)
      [] OTHER -> IF upper = Nil THEN t.kid[n].r ELSE upper

MapFindUpper(t, key) == UpperFrom(t, key, t.root, Nil)

MapBegin(t) == IF t.root = Nil THEN Nil ELSE Leftmost(t, t.root)
MapEnd(t) == IF t.root = Nil THEN Nil ELSE Rightmost(t, t.root)

\* The first ancestor of n that n lies below on the other side than d.
RECURSIVE Ascend(_, _, _)
Ascend(t, n, d) ==
    LET p == t.parent[n]
    IN  IF p = Nil \/ n # t.kid[p][d] THEN p ELSE Ascend(t, p, d)

\* Mutant of MapNext: the step down stops at the right child.
MapNextShallow(t, n) == IF t.kid[n].r # Nil THEN t.kid[n].r ELSE Ascend(t, n, "r")

MapNext(t, n) == IF t.kid[n].r # Nil THEN Leftmost(t, t.kid[n].r) ELSE Ascend(t, n, "r")

MapPrev(t, n) == IF t.kid[n].l # Nil THEN Rightmost(t, t.kid[n].l) ELSE Ascend(t, n, "l")

\* The nodes linked below n, in order.
RECURSIVE InOrder(_, _)
InOrder(t, n) ==
    IF n = Nil THEN <<>>
    ELSE InOrder(t, t.kid[n].l) \o <<n>> \o InOrder(t, t.kid[n].r)

Members(t) == {InOrder(t, t.root)[i] : i \in DOMAIN InOrder(t, t.root)}
-----------------------------------------------------------------------------
MapInit == tree = EmptyMap /\ answer = Nil

\* Clients insert nodes that are in no map, and erase nodes that are in it.
Insert(n) ==
    /\ n \notin Members(tree)
    /\ LET done == MapInsert(tree, n) IN tree' = done.tree /\ answer' = done.ret

Replace(n) ==
    /\ n \notin Members(tree)
    /\ MayReplace \/ MapFind(tree, n) = Nil
    /\ LET done == MapReplace(tree, n) IN tree' = done.tree /\ answer' = done.ret

Erase(n) ==
    /\ n \in Members(tree)
    /\ tree' = MapErase(tree, n)
    /\ answer' = Nil

MapStep == \E n \in MapNode : Insert(n) \/ Replace(n) \/ Erase(n)

MapSpec == MapInit /\ [][MapStep]_mapVars
-----------------------------------------------------------------------------
(***************************************************************************)
(* Properties.                                                             *)
(***************************************************************************)

\* The number of black nodes on the paths from n down to a leaf, if it is the
\* same on all of them, -1 otherwise.
RECURSIVE BlackHeight(_, _)
BlackHeight(t, n) ==
    IF n = Nil THEN 0
    ELSE LET left == BlackHeight(t, t.kid[n].l)
         IN  IF left = -1 \/ left # BlackHeight(t, t.kid[n].r) THEN -1
             ELSE left + (IF t.red[n] THEN 0 ELSE 1)

\* The five rules at the head of utils/map.c, on which the bound of every
\* search rests, and the links back: whatever sequence of insertions and
\* erasures went before, with whichever cases of the rebalancing.
RedBlack ==
    /\ ~IsRed(tree, tree.root)
    /\ BlackHeight(tree, tree.root) # -1
    /\ \A n \in Members(tree), d \in {"l", "r"} :
          LET k == tree.kid[n][d]
          IN  k # Nil => tree.parent[k] = n /\ ~(tree.red[n] /\ tree.red[k])

\* The nodes of the map below (above) a key, and the nearest of them.
Nearest(S, key, dist(_, _)) ==
    IF S = {} THEN Nil ELSE CHOOSE n \in S : \A m \in S : dist(n, key) <= dist(m, key)

LastNotAbove(key) == Nearest({n \in Members(tree) : Cmp(n, key) <= 0}, key, LAMBDA n, k : Cmp(k, n))
FirstAbove(key) == Nearest({n \in Members(tree) : Cmp(n, key) > 0}, key, Cmp)
LastBelow(key) == Nearest({n \in Members(tree) : Cmp(n, key) < 0}, key, LAMBDA n, k : Cmp(k, n))

\* Walking with next from begin, or with prev from end, passes every node once,
\* in order, and ends, so that an iterator needs no more than its own node while
\* others come and go; find returns the node with the key, and find_lower the
\* last one that is not greater, wherever the search leaves the tree.
WalkInOrder ==
    /\ MapBegin(tree) = Nearest(Members(tree), 0, Cmp)
    /\ MapEnd(tree) = Nearest(Members(tree), 0, LAMBDA n, k : Cmp(k, n))
    /\ \A n \in Members(tree) :
          MapNext(tree, n) = FirstAbove(n) /\ MapPrev(tree, n) = LastBelow(n)
    /\ \A key \in MapNode :
          /\ MapFindLower(tree, key) = LastNotAbove(key)
          /\ MapFind(tree, key) =
                IF \E n \in Members(tree) : Cmp(n, key) = 0 THEN LastNotAbove(key) ELSE Nil

\* autodo.h:347: replace returns NULL or "the replaced node", in whose stead the
\* new one is in the map.
Contents == INSTANCE OrderedSet WITH members <- Members(tree)

\* Refinement: the tree is a set of nodes with distinct keys, and size counts it.
ImplementsSet == Contents!Spec /\ [](tree.size = Cardinality(Members(tree)))
=============================================================================
