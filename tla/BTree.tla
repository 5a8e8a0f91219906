-------------------------------- MODULE BTree --------------------------------
(***************************************************************************)
(* The height balanced trees that keep conflict set entries in the order   *)
(* of conflict resolution (btree.c).                                       *)
(*                                                                         *)
(* A tree is a nested record, so the reattaching of subtrees through the   *)
(* static cur_node is the value a recursive operator returns.  "same" is   *)
(* what the C functions return: the height of the subtree did not change.  *)
(* The static foundintree is kept, because a removal reads what an earlier *)
(* operation left in it.  The allocation and deallocation routines cs.c    *)
(* passes always succeed, so _INSVIRMEM is left out.                       *)
(***************************************************************************)
EXTENDS Integers, Sequences, FiniteSets

CONSTANTS
  Keys,         \* what the comparison routine orders
  Nil,          \* the NULL pointer
  MaxSize       \* bound on the number of nodes

KeysAssumption == Keys \subseteq Int
SizeAssumption == MaxSize \in Nat

VARIABLES
  tree,         \* *treehead
  foundintree,  \* the static of that name
  returned,     \* what the last operation returned
  held          \* history: how often each key should be in the tree

vars == <<tree, foundintree, returned, held>>

Normal == "_NORMAL"
KeyAlrIns == "_KEYALRINS"
KeyNotFou == "_KEYNOTFOU"

Leaf(k) == [key |-> k, bal |-> 0, left |-> Nil, right |-> Nil]
Result(t, same, found) == [t |-> t, same |-> same, found |-> found]

-----------------------------------------------------------------------------
(* Rotations.                                                              *)

SingleLL(n, bal, upBal) ==
  LET l == n.left
  IN  [l EXCEPT !.right = [n EXCEPT !.left = l.right, !.bal = bal], !.bal = upBal]

\* Fault: the inner subtree is not handed over.
SingleRRLosing(n, bal, upBal) ==
  [n.right EXCEPT !.left = [n EXCEPT !.right = Nil, !.bal = bal], !.bal = upBal]

SingleRR(n, bal, upBal) ==
  LET r == n.right
  IN  [r EXCEPT !.left = [n EXCEPT !.right = r.left, !.bal = bal], !.bal = upBal]

\* Fault: the subtrees of the node that moves up are swapped.
DoubleLRSwapped(n) ==
  LET l == n.left
      up == l.right
  IN  [up EXCEPT
         !.left = [l EXCEPT !.right = up.right, !.bal = IF up.bal > 0 THEN -1 ELSE 0],
         !.right = [n EXCEPT !.left = up.left, !.bal = IF up.bal < 0 THEN 1 ELSE 0],
         !.bal = 0]

DoubleLR(n) ==
  LET l == n.left
      up == l.right
  IN  [up EXCEPT
         !.left = [l EXCEPT !.right = up.left, !.bal = IF up.bal > 0 THEN -1 ELSE 0],
         !.right = [n EXCEPT !.left = up.right, !.bal = IF up.bal < 0 THEN 1 ELSE 0],
         !.bal = 0]

DoubleRL(n) ==
  LET r == n.right
      up == r.left
  IN  [up EXCEPT
         !.right = [r EXCEPT !.left = up.right, !.bal = IF up.bal < 0 THEN 1 ELSE 0],
         !.left = [n EXCEPT !.right = up.left, !.bal = IF up.bal > 0 THEN -1 ELSE 0],
         !.bal = 0]

-----------------------------------------------------------------------------
(* Rebalancing: the left or the right subtree has grown, or the other one  *)
(* has shrunk ("D").                                                       *)

BalanceLeft(n, found) ==
  LET m == [n EXCEPT !.bal = @ - 1]
  IN  IF m.bal = 0 THEN Result(m, TRUE, found)
      ELSE IF m.bal = -1 THEN Result(m, FALSE, found)
      ELSE Result(IF n.left.bal < 0 THEN SingleLL(m, 0, 0) ELSE DoubleLR(m), TRUE, found)

BalanceRight(n, found) ==
  LET m == [n EXCEPT !.bal = @ + 1]
  IN  IF m.bal = 0 THEN Result(m, TRUE, found)
      ELSE IF m.bal = 1 THEN Result(m, FALSE, found)
      ELSE Result(IF n.right.bal > 0 THEN SingleRR(m, 0, 0) ELSE DoubleRL(m), TRUE, found)

BalanceLeftD(n, found) ==
  IF n.bal = 1 THEN Result([n EXCEPT !.bal = 0], FALSE, found)
  ELSE IF n.bal = 0 THEN Result([n EXCEPT !.bal = -1], TRUE, found)
  ELSE IF n.left.bal = 0 THEN Result(SingleLL(n, -1, 1), TRUE, found)
  ELSE IF n.left.bal < 0 THEN Result(SingleLL(n, 0, 0), FALSE, found)
  ELSE Result(DoubleLR(n), FALSE, found)

\* Fault: the height is taken to have shrunk after every single rotation.
BalanceRightDShrunk(n, found) ==
  IF n.bal = -1 THEN Result([n EXCEPT !.bal = 0], FALSE, found)
  ELSE IF n.bal = 0 THEN Result([n EXCEPT !.bal = 1], TRUE, found)
  ELSE IF n.right.bal = 0 THEN Result(SingleRR(n, 1, -1), FALSE, found)
  ELSE IF n.right.bal > 0 THEN Result(SingleRR(n, 0, 0), FALSE, found)
  ELSE Result(DoubleRL(n), FALSE, found)

BalanceRightD(n, found) ==
  IF n.bal = -1 THEN Result([n EXCEPT !.bal = 0], FALSE, found)
  ELSE IF n.bal = 0 THEN Result([n EXCEPT !.bal = 1], TRUE, found)
  ELSE IF n.right.bal = 0 THEN Result(SingleRR(n, 1, -1), TRUE, found)
  ELSE IF n.right.bal > 0 THEN Result(SingleRR(n, 0, 0), FALSE, found)
  ELSE Result(DoubleRL(n), FALSE, found)

-----------------------------------------------------------------------------
(* The recursive routines.                                                 *)

\* An equal key goes to the left, unless control_flags is 0.
RECURSIVE InsertNode(_, _, _)
InsertNode(n, k, dups) ==
  IF n = Nil THEN Result(Leaf(k), FALSE, Normal)
  ELSE IF k = n.key /\ ~dups THEN Result(n, TRUE, KeyAlrIns)
  ELSE LET r == InsertNode(IF k <= n.key THEN n.left ELSE n.right, k, dups)
           m == IF k <= n.key THEN [n EXCEPT !.left = r.t] ELSE [n EXCEPT !.right = r.t]
       IN  IF r.found = KeyAlrIns THEN r
           ELSE IF r.same THEN Result(m, TRUE, Normal)
           ELSE IF k <= n.key THEN BalanceLeft(m, Normal) ELSE BalanceRight(m, Normal)

\* The rightmost node of n leaves it: rep_node, to stand for del_node.
RECURSIVE FindRightmost(_)
FindRightmost(n) ==
  IF n.right = Nil
  THEN [rest |-> Result(n.left, FALSE, Normal), rep |-> n.key]
  ELSE LET r == FindRightmost(n.right)
           m == [n EXCEPT !.right = r.rest.t]
       IN  [r EXCEPT !.rest = IF @.same THEN Result(m, TRUE, Normal)
                              ELSE BalanceLeftD(m, Normal)]

\* del_node leaves the tree.
Detach(n, found) ==
  IF n.right = Nil THEN Result(n.left, FALSE, found)
  ELSE IF n.left = Nil THEN Result(n.right, FALSE, found)
  ELSE LET r == FindRightmost(n.left)
           m == [n EXCEPT !.key = r.rep, !.left = r.rest.t]
       IN  IF r.rest.same THEN Result(m, TRUE, found) ELSE BalanceRightD(m, found)

\* Once foundintree says that the key is missing, nothing is reattached: what
\* comes back is the subtree the search ended in.
RECURSIVE RemoveNode(_, _, _)
RemoveNode(n, k, found) ==
  IF n = Nil THEN Result(Nil, TRUE, KeyNotFou)
  ELSE IF k = n.key THEN Detach(n, found)
  ELSE LET r == RemoveNode(IF k < n.key THEN n.left ELSE n.right, k, found)
           m == IF k < n.key THEN [n EXCEPT !.left = r.t] ELSE [n EXCEPT !.right = r.t]
       IN  IF r.found = KeyNotFou THEN r
           ELSE IF r.same THEN Result(m, TRUE, r.found)
           ELSE IF k < n.key THEN BalanceRightD(m, r.found) ELSE BalanceLeftD(m, r.found)

RECURSIVE Lookup(_, _)
Lookup(n, k) ==
  IF n = Nil THEN KeyNotFou
  ELSE IF k = n.key THEN Normal
  ELSE Lookup(IF k < n.key THEN n.left ELSE n.right, k)

\* The order in which traverse_tree calls the action routine.
RECURSIVE Traverse(_)
Traverse(n) ==
  IF n = Nil THEN << >> ELSE Traverse(n.left) \o <<n.key>> \o Traverse(n.right)

-----------------------------------------------------------------------------
Init ==
  /\ tree = Nil
  /\ foundintree = Normal
  /\ returned = Normal
  /\ held = [k \in Keys |-> 0]

InsertTree(k, dups) ==
  LET r == InsertNode(tree, k, dups)
  IN  /\ Len(Traverse(tree)) < MaxSize
      /\ tree' = IF r.found = Normal THEN r.t ELSE tree
      /\ foundintree' = r.found
      /\ returned' = r.found
      /\ held' = [held EXCEPT ![k] = IF @ > 0 /\ ~dups THEN @ ELSE @ + 1]

\* The foundintree this function assigns and tests is a local of its own.
RemoveTree(k) ==
  LET r == RemoveNode(tree, k, foundintree)
  IN  /\ tree' = r.t
      /\ foundintree' = r.found
      /\ returned' = Normal
      /\ held' = [held EXCEPT ![k] = IF @ > 0 THEN @ - 1 ELSE 0]

PurgeTree ==
  /\ tree' = Nil
  /\ returned' = Normal
  /\ held' = [k \in Keys |-> 0]
  /\ UNCHANGED foundintree

Next ==
  \/ \E k \in Keys, dups \in BOOLEAN : InsertTree(k, dups)
  \/ \E k \in Keys : RemoveTree(k)
  \/ PurgeTree

Spec == Init /\ [][Next]_vars

(* cs.c removes an entry that its hash table holds, so only a key that is  *)
(* in the tree.                                                            *)
NextPresent ==
  \/ \E k \in Keys, dups \in BOOLEAN : InsertTree(k, dups)
  \/ \E k \in Keys : held[k] > 0 /\ RemoveTree(k)
  \/ PurgeTree

SpecPresent == Init /\ [][NextPresent]_vars

-----------------------------------------------------------------------------
RECURSIVE Height(_)
Height(n) ==
  IF n = Nil THEN 0
  ELSE LET l == Height(n.left)
           r == Height(n.right)
       IN  1 + (IF l > r THEN l ELSE r)

\* Each node_bal is how much higher the right subtree is, and no node leans by
\* more than one: the balances the deletions leave are the true ones.
RECURSIVE Leans(_)
Leans(n) ==
  \/ n = Nil
  \/ /\ n.bal \in -1 .. 1
     /\ n.bal = Height(n.right) - Height(n.left)
     /\ Leans(n.left) /\ Leans(n.right)
Balanced == Leans(tree)

\* A traversal visits every entry that was inserted and not removed, as often
\* as it was inserted, in order: the first one that is not refracted is the
\* winner.
InOrder ==
  LET s == Traverse(tree)
  IN  /\ \A i, j \in DOMAIN s : i < j => s[i] <= s[j]
      /\ \A k \in Keys : Cardinality({i \in DOMAIN s : s[i] = k}) = held[k]

\* A search finds exactly the keys that are in the tree, whatever rotations
\* have done to equal ones.
LookupFinds == \A k \in Keys : Lookup(tree, k) = Normal <=> held[k] > 0

\* btree.c says that removals of a key go on "until lib$_keynotfou is
\* returned": a removal that finds nothing must say so and change nothing.
MissingReported ==
  [][\A k \in Keys : (RemoveTree(k) /\ held[k] = 0)
       => (tree' = tree /\ returned' = KeyNotFou)]_vars
=============================================================================
