-------------------------------- MODULE RBTree --------------------------------
(***************************************************************************)
(* The operations of yc-rbtree-macros.h that change a tree: the plain tree *)
(* (YC_RBTREE) and the counted one (YC_RBCTREE).  An operation is its      *)
(* first step, up to the loop that repairs the tree, and then one step for *)
(* each round of the loop.                                                 *)
(***************************************************************************)
EXTENDS RBNodes

CONSTANT Keys        \* bound: the nodes there are, each its key

ASSUME KeysAssumption == Keys \subseteq Nat \ {NULL} /\ IsFiniteSet(Keys)

VARIABLES
  tree,
  op,            \* idle, or the loop that runs: insert, insert at, remove
  at, nullpar    \* where the loop is; NULL, if it does not run

vars == <<tree, op, at, nullpar>>

Init ==
  /\ tree \in [top : {NULL}, node : {<< >>}, counted : BOOLEAN]
  /\ op = "idle" /\ at = NULL /\ nullpar = NULL

-----------------------------------------------------------------------------
\* The node at which the descent of INSERT ends: k itself, or its parent to be.
RECURSIVE Descend(_, _, _)
Descend(t, n, k) ==
  LET next == t.node[n][IF k < n THEN "left" ELSE "right"]
  IN  IF k = n \/ next = NULL THEN n ELSE Descend(t, next, k)

\* A new red node k below p.
Link(t, p, side, k) ==
  [t EXCEPT !.node =
           [n \in Nodes(t) \cup {k} |->
               IF n = k THEN [parent |-> p, left |-> NULL, right |-> NULL, red |-> TRUE,
                              count |-> 1]
               ELSE IF n = p THEN [t.node[p] EXCEPT ![side] = k] ELSE t.node[n]]]

Single(t, k) == [t EXCEPT !.top = k, !.node = [n \in {k} |->
                   [parent |-> NULL, left |-> NULL, right |-> NULL, red |-> FALSE, count |-> 1]]]

Loop(name, t, from) == op' = name /\ tree' = t /\ at' = from

\* INSERT; a collision is returned and changes nothing.
Insert(k) ==
  /\ op = "idle" /\ ~ tree.counted
  /\ LET p == Descend(tree, tree.top, k)
     IN  IF tree.top = NULL THEN Loop("idle", Single(tree, k), NULL)
         ELSE p # k /\ Loop("insert", Link(tree, p, IF k < p THEN "left" ELSE "right", k), k)
  /\ UNCHANGED nullpar

\* INSERT of a counted tree: one more in every subtree above.
RECURSIVE CountUp(_, _)
CountUp(t, n) ==
  IF n = NULL THEN t ELSE CountUp([t EXCEPT !.node[n].count = @ + 1], Parent(t, n))

InsertCounted(k) ==
  /\ op = "idle" /\ tree.counted
  /\ LET p == Descend(tree, tree.top, k)
     IN  IF tree.top = NULL THEN Loop("idle", Single(tree, k), NULL)
         ELSE /\ p # k
              /\ Loop("insert", CountUp(Link(tree, p, IF k < p THEN "left" ELSE "right", k), p), k)
  /\ UNCHANGED nullpar

\* INSERT_AT: the caller says where, and is right.
InsertAt(p, side, k) ==
  /\ op = "idle" /\ ~ tree.counted
  /\ p \in Nodes(tree) /\ k \notin Nodes(tree) /\ tree.node[p][side] = NULL
  /\ IF side = "left" THEN PrevOf(tree, p) < k /\ k < p
     ELSE p < k /\ (NextOf(tree, p) = NULL \/ k < NextOf(tree, p))
  /\ Loop("insert at", Link(tree, p, side, k), k)
  /\ UNCHANGED nullpar

\* The loop of an insertion, and what follows it.
Repair(name) ==
  /\ op = name
  /\ IF at # tree.top /\ Red(tree, Parent(tree, at))
     THEN LET r == InsertRound(tree, at) IN Loop(name, r.tree, r.at)
     ELSE Loop("idle", Paint(tree, tree.top, FALSE), NULL)
  /\ UNCHANGED nullpar

InsertFixup        == ~ tree.counted /\ Repair("insert")
InsertAtFixup      == Repair("insert at")
InsertCountedFixup == tree.counted /\ Repair("insert")

-----------------------------------------------------------------------------
\* REPLACE_NODE: new sorts to where old is.
Replace(old, new) ==
  /\ op = "idle" /\ ~ tree.counted
  /\ old \in Nodes(tree) /\ new \in Keys \ Nodes(tree)
  /\ PrevOf(tree, old) < new /\ (NextOf(tree, old) = NULL \/ new < NextOf(tree, old))
  /\ LET o == tree.node[old]
         t == [tree EXCEPT !.node =
                         [n \in (Nodes(tree) \ {old}) \cup {new} |->
                           IF n = new THEN o ELSE tree.node[n]]]
     IN  Loop("idle", Adopt(Adopt(Hang(t, o.parent, old, new), o.left, new), o.right, new), NULL)
  /\ UNCHANGED nullpar

-----------------------------------------------------------------------------
\* REMOVE of z takes y out of its place: z itself, or the next node if z has both
\* children; x is the one child of y, or NULL.
Victim(t, z) == IF t.node[z].left = NULL \/ t.node[z].right = NULL THEN z ELSE NextOf(t, z)
Child(t, y)  == IF t.node[y].left # NULL THEN t.node[y].left ELSE t.node[y].right

Unlink(t, y) == Hang(Adopt(t, Child(t, y), Parent(t, y)), Parent(t, y), y, Child(t, y))

\* y comes to where z is.
TakePlace(t, y, z) ==
  LET o  == t.node[z]
      t1 == Hang([t EXCEPT !.node[y] = [o EXCEPT !.count = t.node[y].count]], o.parent, z, y)
  IN  Adopt(Adopt(t1, o.left, y), o.right, y)

Forget(t, z) == [t EXCEPT !.node = [n \in Nodes(t) \ {z} |-> t.node[n]]]

RemoveStart(z, y, t) ==
  /\ Loop(IF Red(tree, y) THEN "idle" ELSE "remove", Forget(t, z),
          IF Red(tree, y) THEN NULL ELSE Child(tree, y))
  /\ nullpar' = IF Red(tree, y) \/ Child(tree, y) # NULL THEN NULL
                ELSE IF y # z /\ Parent(tree, y) = z THEN y ELSE Parent(tree, y)

\* Mutant: a node with two children stays, and the next one goes.
Remove_Next(z) ==
  /\ op = "idle" /\ ~ tree.counted /\ z \in Nodes(tree)
  /\ LET y == Victim(tree, z) IN RemoveStart(y, y, Unlink(tree, y))

Remove(z) ==
  /\ op = "idle" /\ ~ tree.counted /\ z \in Nodes(tree)
  /\ LET y == Victim(tree, z)
         t == Unlink(tree, y)
     IN  RemoveStart(z, y, IF y = z THEN t ELSE TakePlace(t, y, z))

RemoveCounted(z) ==
  /\ op = "idle" /\ tree.counted /\ z \in Nodes(tree)
  /\ LET y == Victim(tree, z)
         t == FixCountAndUp(Unlink(tree, y), Parent(tree, y))
     IN  RemoveStart(z, y, IF y = z THEN t ELSE FixCountAndUp(TakePlace(t, y, z), y))

RepairRemove ==
  /\ op = "remove"
  /\ IF at # tree.top /\ ~ Red(tree, at)
     THEN LET r == RemoveRound(tree, at, nullpar) IN Loop("remove", r.tree, r.at)
     ELSE Loop("idle", IF at = NULL THEN tree ELSE Paint(tree, at, FALSE), NULL)
  /\ nullpar' = IF op' = "idle" THEN NULL ELSE nullpar

RemoveFixup        == ~ tree.counted /\ RepairRemove
RemoveCountedFixup == tree.counted /\ RepairRemove

Fixup == \/ InsertFixup \/ InsertAtFixup \/ InsertCountedFixup
         \/ RemoveFixup \/ RemoveCountedFixup

Next ==
  \/ \E k \in Keys : Insert(k) \/ InsertCounted(k) \/ Remove(k) \/ RemoveCounted(k)
  \/ \E p, k \in Keys, side \in {"left", "right"} : InsertAt(p, side, k)
  \/ \E old, new \in Keys : Replace(old, new)
  \/ Fixup

Spec == Init /\ [][Next]_vars

-----------------------------------------------------------------------------
RECURSIVE Below(_)
Below(n) == IF n = NULL THEN {}
            ELSE {n} \cup Below(tree.node[n].left) \cup Below(tree.node[n].right)

\* In every state, in the middle of a repair too, the tree is one search tree of all
\* its nodes, and parents and children agree about each other (the rotations, Hang
\* and Adopt of every macro).
SearchTree ==
  /\ tree.top # NULL => Parent(tree, tree.top) = NULL
  /\ \A n \in Nodes(tree) :
       LET l == tree.node[n].left  r == tree.node[n].right
       IN  /\ l # NULL => Parent(tree, l) = n
           /\ r # NULL => Parent(tree, r) = n
           /\ n # tree.top => n \in {tree.node[Parent(tree, n)].left, tree.node[Parent(tree, n)].right}
  /\ Below(tree.top) = Nodes(tree)
  /\ \A n \in Nodes(tree) : /\ \A m \in Below(tree.node[n].left) : m < n
                            /\ \A m \in Below(tree.node[n].right) : m > n

\* The number of black nodes on the way down from n, or -1 if two ways differ.
RECURSIVE BlackHeight(_)
BlackHeight(n) ==
  IF n = NULL THEN 0
  ELSE LET l == BlackHeight(tree.node[n].left)
           r == BlackHeight(tree.node[n].right)
       IN  IF l = -1 \/ l # r THEN -1 ELSE l + (IF Red(tree, n) THEN 0 ELSE 1)

\* The tree is a search tree at any time, and after an operation it is red-black: no
\* way down is more than twice as long as another (the repairing loops of INSERT,
\* INSERT_AT and REMOVE).
RedBlack ==
  /\ SearchTree
  /\ op = "idle" =>
       /\ ~ Red(tree, tree.top) /\ BlackHeight(tree.top) # -1
       /\ \A n \in Nodes(tree) : Red(tree, n) => ~ Red(tree, Parent(tree, n))

\* A counted tree knows the size of every subtree, in the middle of a repair too, and
\* so which node is the n-th (the counts of YC_RBCTREE; GET_BY_INDEX,
\* GET_NODE_INDEX).
CountsRight ==
  tree.counted =>
    /\ \A n \in Nodes(tree) : tree.node[n].count = Cardinality(Below(n))
    /\ \A n \in Nodes(tree) : LET i == Cardinality({m \in Nodes(tree) : m < n})
                              IN  GetNodeIndex(tree, n) = i /\ GetByIndex(tree, i) = n
    /\ GetByIndex(tree, Cardinality(Nodes(tree))) = NULL

\* What the reading macros answer is what the set of the nodes says (LOOKUP, FIRST,
\* LAST, NEXT, PREV, LOOKUP_OR_PREV, LOOKUP_OR_NEXT), and the counts say.
QueriesRight ==
  LET S == Nodes(tree)
      Least(T)    == IF T = {} THEN NULL ELSE CHOOSE n \in T : \A m \in T : n <= m
      Greatest(T) == IF T = {} THEN NULL ELSE CHOOSE n \in T : \A m \in T : n >= m
  IN  /\ CountsRight
      /\ op = "idle" =>
        /\ First(tree, "left") = Least(S) /\ First(tree, "right") = Greatest(S)
        /\ \A n \in S : /\ NextOf(tree, n) = Least({m \in S : m > n})
                        /\ PrevOf(tree, n) = Greatest({m \in S : m < n})
        /\ \A k \in Keys :
             /\ LookupFrom(tree, tree.top, k) = IF k \in S THEN k ELSE NULL
             /\ LookupOrPrev(tree, tree.top, k, NULL) = Greatest({m \in S : m <= k})
             /\ LookupOrNext(tree, tree.top, k, NULL) = Least({m \in S : m >= k})

\* What its user finds in the tree from the top is a set of keys, and every call does
\* to it what it says, at once; the repairs that follow change nothing of it
\* (yc-rbtree-macros.h:19-79).
Members == Below(tree.top)
ActsAsSet ==
  [][/\ \A k \in Keys :
          /\ (Insert(k) \/ InsertCounted(k)) => Members' = Members \cup {k}
          /\ (Remove(k) \/ RemoveCounted(k)) => Members' = Members \ {k}
     /\ \A p, k \in Keys, side \in {"left", "right"} :
          InsertAt(p, side, k) => Members' = Members \cup {k}
     /\ \A old, new \in Keys : Replace(old, new) => Members' = (Members \ {old}) \cup {new}
     /\ op # "idle" => Members' = Members]_vars

RECURSIVE Depth(_)
Depth(n) == IF n = tree.top THEN 0 ELSE 1 + Depth(Parent(tree, n))
LoopDepth == IF at = NULL THEN 1 + Depth(nullpar) ELSE Depth(at)
LoopEnds  == \/ at = tree.top
             \/ op = "remove" /\ Red(tree, at)
             \/ op # "remove" /\ ~ Red(tree, Parent(tree, at))

\* Every repair ends, after at most as many rounds as the tree is deep: a round moves
\* the loop nearer to the top, or is the last one (the loops of INSERT, INSERT_AT and
\* REMOVE).
RepairsClimb ==
  [][(op # "idle" /\ op' = op /\ ~ LoopEnds) => LoopDepth' < LoopDepth \/ LoopEnds']_vars
===============================================================================
