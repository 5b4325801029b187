------------------------------- MODULE RBNodes -------------------------------
(***************************************************************************)
(* The red-black trees of yc-rbtree-macros.h as values: what the macros    *)
(* that only read a tree compute, the rotations, and one round of the      *)
(* loops that repair a tree.                                               *)
(*                                                                         *)
(* A tree is its top and the fields of its nodes; a node is its key, and a *)
(* node that is not in the tree has no fields.  Where the macros are given *)
(* left and right swapped, side says which is which.  A counted tree       *)
(* (YC_RBCTREE) keeps the size of every subtree; in a plain one count is   *)
(* what it was.                                                            *)
(***************************************************************************)
EXTENDS Integers, FiniteSets

NULL == 0

Other(side)   == IF side = "left" THEN "right" ELSE "left"
Nodes(t)      == DOMAIN t.node
Parent(t, n)  == t.node[n].parent
Red(t, n)     == n # NULL /\ t.node[n].red
Count(t, n)   == IF n = NULL THEN 0 ELSE t.node[n].count
SideOf(t, n)  == IF t.node[Parent(t, n)].left = n THEN "left" ELSE "right"

Paint(t, n, red) == [t EXCEPT !.node[n].red = red]
Adopt(t, n, p)   == IF n = NULL THEN t ELSE [t EXCEPT !.node[n].parent = p]
\* What pointed at old, below p, points at new.
Hang(t, p, old, new) ==
  IF p = NULL THEN [t EXCEPT !.top = new]
  ELSE [t EXCEPT !.node[p][IF t.node[p].left = old THEN "left" ELSE "right"] = new]

-----------------------------------------------------------------------------
\* Iteration: FIRST and NEXT; with right for left, LAST and PREV.
RECURSIVE Outermost(_, _, _)
Outermost(t, side, n) ==
  IF n = NULL \/ t.node[n][side] = NULL THEN n ELSE Outermost(t, side, t.node[n][side])

First(t, side) == Outermost(t, side, t.top)

RECURSIVE Climb(_, _, _)
Climb(t, side, n) ==
  LET p == Parent(t, n)
  IN  IF p # NULL /\ n = t.node[p][Other(side)] THEN Climb(t, side, p) ELSE p

Neighbour(t, side, n) ==
  IF t.node[n][Other(side)] # NULL THEN Outermost(t, side, t.node[n][Other(side)])
  ELSE Climb(t, side, n)

NextOf(t, n) == Neighbour(t, "left", n)
PrevOf(t, n) == Neighbour(t, "right", n)

\* LOOKUP_COMPARATOR
RECURSIVE LookupFrom(_, _, _)
LookupFrom(t, n, key) ==
  IF n = NULL \/ key = n THEN n
  ELSE LookupFrom(t, IF key < n THEN t.node[n].left ELSE t.node[n].right, key)

\* LOOKUP_OR_PREV_COMPARATOR; best is the last node seen that is not after key.
RECURSIVE LookupOrPrev(_, _, _, _)
LookupOrPrev(t, n, key, best) ==
  IF n = NULL THEN best
  ELSE IF key >= n THEN LookupOrPrev(t, t.node[n].right, key, n)
  ELSE LookupOrPrev(t, t.node[n].left, key, best)

\* LOOKUP_OR_NEXT_COMPARATOR
RECURSIVE LookupOrNext(_, _, _, _)
LookupOrNext(t, n, key, best) ==
  IF n = NULL THEN best
  ELSE IF key <= n THEN LookupOrNext(t, t.node[n].left, key, n)
  ELSE LookupOrNext(t, t.node[n].right, key, best)

\* GET_BY_INDEX_UNCHECKED, from 0
RECURSIVE ByIndexFrom(_, _, _)
ByIndexFrom(t, n, index) ==
  LET before == Count(t, t.node[n].left)
  IN  IF index < before THEN ByIndexFrom(t, t.node[n].left, index)
      ELSE IF index = before THEN n
      ELSE ByIndexFrom(t, t.node[n].right, index - (before + 1))

GetByIndex(t, index) ==
  IF t.top = NULL \/ index >= Count(t, t.top) THEN NULL ELSE ByIndexFrom(t, t.top, index)

\* GET_NODE_INDEX: what is to the left of each node on the way up.
RECURSIVE IndexAbove(_, _)
IndexAbove(t, n) ==
  LET p == Parent(t, n)
  IN  IF p = NULL THEN 0
      ELSE IndexAbove(t, p) + (IF t.node[p].left = n THEN 0 ELSE Count(t, t.node[p].left) + 1)

GetNodeIndex(t, n) == Count(t, t.node[n].left) + IndexAbove(t, n)

-----------------------------------------------------------------------------
\* ROTATE_LEFT, and for side = "right" ROTATE_RIGHT
Rotate(t, side, x) ==
  LET y == t.node[x][Other(side)]
      b == t.node[y][side]
      p == Parent(t, x)
  IN  Adopt([Hang(t, p, x, y) EXCEPT !.node[x][Other(side)] = b, !.node[x].parent = y,
                                     !.node[y][side] = x, !.node[y].parent = p], b, x)

\* Mutant: the node that comes up keeps its own count.
RotateCounted_Stale(t, side, x) ==
  LET y == t.node[x][Other(side)]
      r == Rotate(t, side, x)
  IN  [r EXCEPT !.node[x].count = t.node[x].count - Count(r, r.node[y][Other(side)]) - 1]

\* YC_RBCTREE_ROTATE_LEFT
RotateCounted(t, side, x) ==
  LET y  == t.node[x][Other(side)]
      r  == Rotate(t, side, x)
      n0 == t.node[x].count
  IN  [r EXCEPT !.node[x].count = n0 - Count(r, r.node[y][Other(side)]) - 1,
                !.node[y].count = n0]

Turn(t, side, x) == IF t.counted THEN RotateCounted(t, side, x) ELSE Rotate(t, side, x)

\* _YC_RBCTREE_FIX_COUNT
FixCount(t, n) ==
  [t EXCEPT !.node[n].count = 1 + Count(t, t.node[n].left) + Count(t, t.node[n].right)]

\* _YC_RBCTREE_FIX_COUNT_AND_UP
RECURSIVE FixCountAndUp(_, _)
FixCountAndUp(t, n) == IF n = NULL THEN t ELSE FixCountAndUp(FixCount(t, n), Parent(t, n))

-----------------------------------------------------------------------------
\* Mutant: an inner child is not turned outwards first.
InsertRound_NoTurn(t, at) ==
  LET p    == Parent(t, at)
      g    == Parent(t, p)
      side == SideOf(t, p)
      y    == t.node[g][Other(side)]
  IN  IF Red(t, y)
      THEN [tree |-> Paint(Paint(Paint(t, p, FALSE), y, FALSE), g, TRUE), at |-> g]
      ELSE [tree |-> Turn(Paint(Paint(t, p, FALSE), g, TRUE), Other(side), g), at |-> at]

\* One round of the loop of an insertion, at a red node below a red parent.
InsertRound(t, at) ==
  LET p    == Parent(t, at)
      g    == Parent(t, p)
      side == SideOf(t, p)
      y    == t.node[g][Other(side)]
      inner == at = t.node[p][Other(side)]
      t1   == IF inner THEN Turn(t, side, p) ELSE t
      at1  == IF inner THEN p ELSE at
      p1   == Parent(t1, at1)
      g1   == Parent(t1, p1)
  IN  IF Red(t, y)
      THEN [tree |-> Paint(Paint(Paint(t, p, FALSE), y, FALSE), g, TRUE), at |-> g]
      ELSE [tree |-> Turn(Paint(Paint(t1, p1, FALSE), g1, TRUE), Other(side), g1), at |-> at1]

\* Mutant: a red near child of the sibling is not turned outwards first.
RemoveRound_NoTurn(t, x, nullpar) ==
  LET xp   == IF x # NULL THEN Parent(t, x) ELSE nullpar
      side == IF x = t.node[xp].left THEN "left" ELSE "right"
      w    == t.node[xp][Other(side)]
      t3   == Turn(Paint(Paint(t, w, Red(t, xp)), xp, FALSE), side, xp)
  IN  IF ~ Red(t, t.node[w].left) /\ ~ Red(t, t.node[w].right)
      THEN [tree |-> Paint(t, w, TRUE), at |-> xp]
      ELSE [tree |-> t3, at |-> t3.top]

\* One round of the loop of a removal: the paths through x (below nullpar, if x is
\* NULL) are one black node short.
RemoveRound(t, x, nullpar) ==
  LET xp   == IF x # NULL THEN Parent(t, x) ELSE nullpar
      side == IF x = t.node[xp].left THEN "left" ELSE "right"
      far  == Other(side)
      w0   == t.node[xp][far]
      t1   == IF Red(t, w0) THEN Turn(Paint(Paint(t, w0, FALSE), xp, TRUE), side, xp) ELSE t
      w    == t1.node[xp][far]
      t2   == IF Red(t1, t1.node[w][far]) THEN t1
              ELSE Turn(Paint(Paint(t1, t1.node[w][side], FALSE), w, TRUE), far, w)
      w2   == t2.node[xp][far]
      t3   == Turn(Paint(Paint(Paint(t2, w2, Red(t2, xp)), xp, FALSE), t2.node[w2][far], FALSE),
                  side, xp)
  IN  IF ~ Red(t1, t1.node[w].left) /\ ~ Red(t1, t1.node[w].right)
      THEN [tree |-> Paint(t1, w, TRUE), at |-> xp]
      ELSE [tree |-> t3, at |-> t3.top]

===============================================================================
