------------------------------- MODULE MCMatch -------------------------------
(* Small instances of BetaMemory (the part "join"), of MatchNetwork (the    *)
(* parts "dispatch", of rules with one condition element over two blocks,   *)
(* and "chains", of rules with up to three) and of BTree, where a conflict  *)
(* set keeps what has matched ("tree").  A behaviour is one of one part;    *)
(* the variables of the others hold empty values throughout.                *)
EXTENDS Integers, Sequences, FiniteSets, TLC

CONSTANTS o1, o2, o3, Absent, c1, c2, c3, c4, b1, b2, Root, NoBlock, Nil, Parts

VARIABLES part,
          joined, order, wm, calls, memory, stack, cs,       \* of BetaMemory
          parent, block, nodes, root, rule, ce, tail,        \* of MatchNetwork
          tree, foundintree, returned, held                  \* of BTree

joinVars == <<joined, order, wm, calls, memory, stack, cs>>
netVars == <<parent, block, nodes, root, rule, ce, tail>>
treeVars == <<tree, foundintree, returned, held>>

\* The condition elements of the rules below; all accept every value unless
\* the name says otherwise, so one object enters every node it can.
Pos == [pos |-> TRUE, alpha |-> {1, 2}, eq |-> 0, ne |-> 0]
PosEq(n) == [Pos EXCEPT !.eq = n]
PosNe(n) == [Pos EXCEPT !.ne = n]
PosOf(v) == [Pos EXCEPT !.alpha = {v}]
Neg == [Pos EXCEPT !.pos = FALSE]
NegEq(n) == [Neg EXCEPT !.eq = n]
NegNe(n) == [Neg EXCEPT !.ne = n]
NegOf(v) == [Neg EXCEPT !.alpha = {v}]

Join == INSTANCE BetaMemory WITH
  Object <- {o1, o2, o3}, Value <- {1, 2}, rule <- joined,
  Rule <- { <<Pos, NegNe(1), PosEq(1)>>, <<PosOf(1), PosNe(1), NegEq(2)>>,
            <<PosOf(1), NegOf(2), NegNe(1)>>, <<Pos, NegEq(1)>> }

Dispatch == INSTANCE MatchNetwork WITH
  ClassName <- {c1, c2, c3, c4}, Block <- <<b1, b2>>, MaxCE <- 4, MaxRuleCE <- 1

Chains == INSTANCE MatchNetwork WITH
  ClassName <- {c1, c2, c3}, Block <- <<b1>>, MaxCE <- 4, MaxRuleCE <- 3

Tree == INSTANCE BTree WITH Keys <- 1 .. 5, MaxSize <- 8

ASSUME MatchAssumption ==
  /\ Parts \subseteq {"join", "dispatch", "chains", "tree"}
  /\ Join!AbsentAssumption /\ Join!RuleAssumption
  /\ Dispatch!RootAssumption /\ Dispatch!BlockAssumption
  /\ Chains!RootAssumption /\ Chains!BlockAssumption
  /\ Tree!KeysAssumption /\ Tree!SizeAssumption

\* The names of classes are only compared, and the fourth is in one part only.
ClassSymmetry == Permutations({c1, c2, c3})

NoJoin == /\ joined = << >> /\ order = << >> /\ wm = << >> /\ calls = << >>
          /\ memory = << >> /\ stack = << >> /\ cs = << >>
NoNet == /\ parent = << >> /\ block = << >> /\ nodes = << >> /\ root = << >>
         /\ rule = 0 /\ ce = 0 /\ tail = 0
NoTree == tree = << >> /\ foundintree = 0 /\ returned = 0 /\ held = << >>

MCInit ==
  /\ part \in Parts
  /\ \/ part = "join" /\ Join!Init /\ NoNet /\ NoTree
     \/ part = "dispatch" /\ Dispatch!Init /\ NoJoin /\ NoTree
     \/ part = "chains" /\ Chains!Init /\ NoJoin /\ NoTree
     \/ part = "tree" /\ Tree!Init /\ NoJoin /\ NoNet

Propagates == part = "join" /\ Join!Propagate /\ UNCHANGED <<part, netVars, treeVars>>
Joins == part = "join" /\ Join!Next /\ UNCHANGED <<part, netVars, treeVars>>
Dispatches ==
  part = "dispatch" /\ Dispatch!Next /\ UNCHANGED <<part, joinVars, treeVars>>
Chained == part = "chains" /\ Chains!Next /\ UNCHANGED <<part, joinVars, treeVars>>
Sorts == part = "tree" /\ Tree!NextPresent /\ UNCHANGED <<part, joinVars, netVars>>
Misses == part = "tree" /\ Tree!Next /\ UNCHANGED <<part, joinVars, netVars>>

mcVars == <<part, joinVars, netVars, treeVars>>
MCSpec ==
  MCInit /\ [][Joins \/ Dispatches \/ Chained \/ Sorts]_mcVars /\ WF_mcVars(Propagates)
\* With removals of keys that are not in the tree.
MCSpecMissing == MCInit /\ [][Misses]_mcVars

\* Of BetaMemory, see there: the conflict subset is the join of working memory,
\* the counts of negated nodes are exact, the loops (beta.c) stay on a member
\* and a removal finds its own, and each change of working memory is propagated.
ConflictSubsetIsJoin == part = "join" => Join!ConflictSubsetIsJoin
CrossMatchesExact ==
  part = "join" => Join!CrossMatchesExact /\ Join!LeftMemoryExact
MembersLive ==
  part = "join" => Join!CursorsLive /\ Join!RemovalsFindTheirMember
PropagationEnds == part = "join" => Join!PropagationEnds

\* Of MatchNetwork, see there: an object is given to the one-input nodes of its
\* class and of those it inherits from (c_g_net.c), once, and tokens are as long
\* as the memories are told (c_nt_nod.c).
NetworkExact ==
  /\ part = "dispatch" => Dispatch!DispatchExact
  /\ part = "chains" => Chains!CountsExact /\ Chains!SidesDistinct

\* Of BTree, see there: the tree is balanced, holds what was inserted in order and
\* finds it (btree.c).
SearchTree ==
  part = "tree" => Tree!Balanced /\ Tree!InOrder /\ Tree!LookupFinds
MissingReported == Tree!MissingReported
=============================================================================
