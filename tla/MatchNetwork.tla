---------------------------- MODULE MatchNetwork ----------------------------
(***************************************************************************)
(* The network of nodes that the compiler builds for the rules of a block  *)
(* (c_nt_nod.c, c_s_bnet.c) and the dispatch of working memory objects to  *)
(* one-input nodes that it generates from it (c_g_net.c).                  *)
(*                                                                         *)
(* Class nodes are woven into a tree that follows the hierarchy of the     *)
(* classes the rules name, in whatever order they name them, because the   *)
(* generated code takes only the first branch that fits at each level.     *)
(* The test of subclasses is taken to be exact: see Inheritance.  Nodes    *)
(* are shared between rules only in builds with DEBUG_SHARING_*, and the   *)
(* parser accepts neither disjunctions nor negated conjunctions.           *)
(***************************************************************************)
EXTENDS Integers, Sequences, FiniteSets, SequencesExt

CONSTANTS
    ClassName,
    Root,       \* the class $ROOT
    NoBlock,    \* the declaration block of $ROOT
    Block,      \* the visible declaration blocks, in their order
    MaxCE,      \* bound on the condition elements of all rules together
    MaxRuleCE   \* bound on the condition elements of one rule

RootAssumption == Root \notin ClassName
BlockAssumption == IsInjective(Block) /\ NoBlock \notin Range(Block)

VARIABLES
    parent,     \* the hierarchy of the classes
    block,      \* the declaration block of each class
    nodes,      \* the nodes, in the order they were created
    root,       \* the declaration nodes, in the order of the root list
    rule, ce,   \* the index of the rule, and of its next condition element
    tail        \* the node that the next condition element is joined to

vars == <<parent, block, nodes, root, rule, ce, tail>>

LineageOf ==
    LET L[c \in ClassName \cup {Root}] ==
          IF c = Root THEN {Root} ELSE {c} \cup L[parent[c]]
    IN  L

IsSubclass(c, d) == d \in LineageOf[c]
IsLeaf(c) == c # Root /\ \A d \in ClassName : parent[d] # c
Ancestor(c) ==
    IF c = Root THEN Root ELSE CHOOSE a \in LineageOf[c] : parent[a] = Root
ClassBlock(c) == IF c = Root THEN NoBlock ELSE block[c]

-----------------------------------------------------------------------------
(* Nodes and links *)

\* Mutant: a two-input node is given a single number.
StepOne(type) == 1

\* A two-input node has a number for each of its sides.
Step(type) == IF type \in {"positive", "negative"} THEN 2 ELSE 1

NextNumber(ns) == IF ns = <<>> THEN 1 ELSE Last(ns).number + Step(Last(ns).type)

CreateNode(ns, type, of) ==
    Append(ns, [type |-> type, of |-> of, rule |-> rule, ce |-> ce,
                number |-> NextNumber(ns), links |-> <<>>])

ConnectTarget(ns, source, target, entry) ==
    [ns EXCEPT ![source].links = Append(@, [to |-> target, entry |-> entry])]

IsClassLink(ns, l) == ns[l.to].type = "class"

\* Mutant: the other subclasses of the new class are left where they are.
InsertAboveOnly(ns, cur, i, new) ==
    LET links == ns[cur].links
    IN  [ns EXCEPT ![cur].links = [links EXCEPT ![i].to = new],
                   ![new].links = Append(@, links[i])]

\* The new node takes the place of a subclass of its class, and takes that
\* node and all further ones of its subclasses below it.
InsertAbove(ns, cur, i, new) ==
    LET links == ns[cur].links
        rest == SubSeq(links, i + 1, Len(links))
        Moves(l) == /\ IsClassLink(ns, l) /\ ns[l.to].of # ns[new].of
                    /\ IsSubclass(ns[l.to].of, ns[new].of)
        Stays(l) == ~Moves(l)
    IN  [ns EXCEPT ![cur].links = SubSeq(links, 1, i - 1)
                                  \o <<[links[i] EXCEPT !.to = new]>>
                                  \o SelectSeq(rest, Stays),
                   ![new].links = @ \o <<links[i]>> \o SelectSeq(rest, Moves)]

RECURSIVE WeaveIntoFamily(_, _, _)
WeaveIntoFamily(ns, cur, new) ==
    LET Related(l) == /\ IsClassLink(ns, l)
                      /\ \/ IsSubclass(ns[new].of, ns[l.to].of)
                         \/ IsSubclass(ns[l.to].of, ns[new].of)
        i == SelectInSeq(ns[cur].links, Related)
    IN  IF i = 0 THEN ConnectTarget(ns, cur, new, "only")
        ELSE LET child == ns[cur].links[i].to
             IN  IF IsSubclass(ns[new].of, ns[child].of)
                 THEN WeaveIntoFamily(ns, child, new)
                 ELSE InsertAbove(ns, cur, i, new)

\* A family that was headed by another class gets a node for its top class.
HeadFamily(ns, db, i, top) ==
    LET with == CreateNode(ns, "class", top)
        moved == [with EXCEPT ![db].links[i].to = Len(with)]
    IN  ConnectTarget(moved, Len(with), ns[db].links[i].to, "only")

WeaveNewClassNode(ns, db, oin, c) ==
    LET with == CreateNode(ns, "class", c)
        new == Len(with)
        linked == ConnectTarget(with, new, oin, "only")
        i == SelectInSeq(ns[db].links,
                         LAMBDA l : Ancestor(ns[l.to].of) = Ancestor(c))
        head == ns[db].links[i].to
    IN  IF i = 0 THEN ConnectTarget(linked, db, new, "only")
        ELSE IF ns[head].of = Ancestor(c) THEN WeaveIntoFamily(linked, head, new)
        ELSE WeaveIntoFamily(HeadFamily(linked, db, i, Ancestor(c)), new + 1, new)

RECURSIVE FindClassNode(_, _, _)
FindClassNode(ns, n, c) ==
    LET i == SelectInSeq(ns[n].links, LAMBDA l : /\ IsClassLink(ns, l)
                                                 /\ IsSubclass(c, ns[l.to].of))
    IN  IF i = 0 THEN 0
        ELSE LET child == ns[n].links[i].to
             IN  IF ns[child].of = c THEN child ELSE FindClassNode(ns, child, c)

FindDeclNode(b) == SelectInSeq(root, LAMBDA n : nodes[n].of = b)

\* oin is woven in; ns, r are the nodes and the root list to weave it into.
WeaveOin(ns, r, oin, c) ==
    LET db == r[SelectInSeq(r, LAMBDA n : ns[n].of = ClassBlock(c))]
        found == FindClassNode(ns, db, c)
    IN  IF found # 0 THEN ConnectTarget(ns, found, oin, "only")
                     ELSE WeaveNewClassNode(ns, db, oin, c)

-----------------------------------------------------------------------------
(* The compiler *)

\* The code of the block is generated before its first rule is compiled, and
\* makes the declaration nodes in the order in which it names their functions.
GenEntryBlock ==
    /\ nodes = <<>>
    /\ nodes' = FoldLeft(LAMBDA ns, b : CreateNode(ns, "decl", b), <<>>, Block)
    /\ root' = [i \in 1..Len(Block) |-> i]
    /\ UNCHANGED <<parent, block, rule, ce, tail>>

\* The one-input node of a condition element.  The first that names $ROOT makes
\* its declaration node, whose block is NULL and which heads the root list.
OinWoven(c) ==
    LET with == CreateNode(nodes, "oin", c)
        oin == Len(with)
        decl == CreateNode(with, "decl", NoBlock)
        first == c = Root /\ FindDeclNode(NoBlock) = 0
    IN  [ns |-> IF first THEN WeaveOin(decl, <<oin + 1>> \o root, oin, c)
                         ELSE WeaveOin(with, root, oin, c),
         root |-> IF first THEN <<oin + 1>> \o root ELSE root]

LeftTopOin(c) ==
    /\ nodes # <<>> /\ ce = 1
    /\ nodes' = OinWoven(c).ns /\ root' = OinWoven(c).root
    /\ tail' = Len(nodes) + 1
    /\ ce' = 2
    /\ UNCHANGED <<parent, block, rule>>

OinAndTinPair(c, type) ==
    /\ ce \in 2..MaxRuleCE
    /\ LET with == CreateNode(OinWoven(c).ns, type, c)
           tin == Len(with)
           right == ConnectTarget(with, Len(nodes) + 1, tin, "right")
       IN  nodes' = ConnectTarget(right, tail, tin, "left") /\ tail' = tin
    /\ root' = OinWoven(c).root
    /\ ce' = ce + 1
    /\ UNCHANGED <<parent, block, rule>>

EndRule ==
    /\ ce > 1
    /\ LET with == CreateNode(nodes, "cse", rule)
       IN  nodes' = ConnectTarget(with, tail, Len(with), "only")
    /\ rule' = rule + 1 /\ ce' = 1 /\ tail' = 0
    /\ UNCHANGED <<parent, block, root>>

CECount == Cardinality({n \in DOMAIN nodes : nodes[n].type = "oin"})

Hierarchies ==
    {p \in [ClassName -> ClassName \cup {Root}] :
        \E rank \in [ClassName -> 1..Cardinality(ClassName)] :
            \A c \in ClassName : p[c] = Root \/ rank[p[c]] < rank[c]}

Init ==
    /\ parent \in Hierarchies
    /\ block \in [ClassName -> Range(Block)]
    /\ \A c \in ClassName : (parent[c] # Root => block[c] = block[parent[c]]) = TRUE
    /\ nodes = <<>> /\ root = <<>>
    /\ rule = 1 /\ ce = 1 /\ tail = 0

Next ==
    \/ GenEntryBlock
    \/ EndRule
    \/ /\ CECount < MaxCE
       /\ \E c \in ClassName \cup {Root} :
            \/ LeftTopOin(c)
            \/ \E type \in {"positive", "negative"} : OinAndTinPair(c, type)

Spec == Init /\ [][Next]_vars

-----------------------------------------------------------------------------
(* The generated code *)

DownstreamOins(n) ==
    LET IsOin(l) == nodes[l.to].type = "oin"
    IN  [i \in 1..Len(SelectSeq(nodes[n].links, IsOin)) |->
            SelectSeq(nodes[n].links, IsOin)[i].to]

\* The condition that is emitted for a class node, of an object of class c.
ClassTest(n, c) ==
    IF IsLeaf(nodes[n].of) THEN c = nodes[n].of ELSE IsSubclass(c, nodes[n].of)

\* The one-input nodes called below n: of the tests at one level, chained by
\* else-if, the first one that holds counts.
RECURSIVE ClassDispatch(_, _)
ClassDispatch(n, c) ==
    LET i == SelectInSeq(nodes[n].links, LAMBDA l : /\ IsClassLink(nodes, l)
                                                    /\ ClassTest(l.to, c))
    IN  DownstreamOins(n)
        \o IF i = 0 THEN <<>> ELSE ClassDispatch(nodes[n].links[i].to, c)

HasRootTests == nodes[root[1]].of = NoBlock

\* The function with the number i is called for the objects of the i-th block.
PropagateWm(i, c) ==
    IF HasRootTests
    THEN DownstreamOins(nodes[root[1]].links[1].to) \o ClassDispatch(root[i + 1], c)
    ELSE ClassDispatch(root[i], c)

\* The objects in the tokens that a node sends on.
OutCount(counts, n) ==
    CASE nodes[n].type = "oin" -> 1
      [] nodes[n].type = "positive" -> counts[n].left + counts[n].right
      [] nodes[n].type = "negative" -> counts[n].left
      [] OTHER -> 0

PropagateCount(counts, n, l) ==
    LET Raise(x) == IF x < OutCount(counts, n) THEN OutCount(counts, n) ELSE x
    IN  IF l.entry = "left" THEN [counts EXCEPT ![l.to].left = Raise(@)]
                            ELSE [counts EXCEPT ![l.to].right = Raise(@)]

\* Mutant: the children of a node that already has a count are not visited.
RECURSIVE ForEachChildLinkOnce(_, _)
ForEachChildLinkOnce(counts, n) ==
    FoldLeft(LAMBDA cs, l :
               IF cs[l.to].left + cs[l.to].right > 0
               THEN PropagateCount(cs, n, l)
               ELSE ForEachChildLinkOnce(PropagateCount(cs, n, l), l.to),
             counts, nodes[n].links)

RECURSIVE ForEachChildLink(_, _)
ForEachChildLink(counts, n) ==
    FoldLeft(LAMBDA cs, l : ForEachChildLink(PropagateCount(cs, n, l), l.to),
             counts, nodes[n].links)

NodeInfo ==
    FoldLeft(ForEachChildLink, [n \in DOMAIN nodes |-> [left |-> 0, right |-> 0]],
             root)

-----------------------------------------------------------------------------
Compiled == nodes # <<>> /\ ce = 1

Oins == {n \in DOMAIN nodes : nodes[n].type = "oin"}
Tins == {n \in DOMAIN nodes : nodes[n].type \in {"positive", "negative"}}

\* Whatever the order in which the rules name the classes, an object is given
\* once to the one-input node of every condition element that names its class
\* or one it inherits from, and to no other (gen_do_a_class_dispatch).
DispatchExact ==
    Compiled => \A i \in 1..Len(Block), c \in ClassName :
        block[c] = Block[i] =>
            LET calls == PropagateWm(i, c)
            IN  /\ ToSet(calls) = {n \in Oins : IsSubclass(c, nodes[n].of)}
                /\ Len(calls) = Cardinality(ToSet(calls))

\* The positive condition elements of the rule of node n, up to the one before.
PositiveBefore(n) ==
    1 + Cardinality({m \in Tins : /\ nodes[m].type = "positive"
                                  /\ nodes[m].rule = nodes[n].rule
                                  /\ nodes[m].ce < nodes[n].ce})

\* The tokens stored on the left of a two-input node are as long as the rule has
\* positive condition elements before it, although the walk over the network
\* reaches it on its right first (net_propagate_node_info).
CountsExact ==
    Compiled => \A n \in Tins : NodeInfo[n] = [left |-> PositiveBefore(n), right |-> 1]

\* No two sides of two-input nodes store their tokens under one number.
SidesDistinct ==
    \A m, n \in DOMAIN nodes : m # n =>
        {nodes[m].number + k : k \in 0..(IF m \in Tins THEN 1 ELSE 0)}
        \cap {nodes[n].number + k : k \in 0..(IF n \in Tins THEN 1 ELSE 0)} = {}
=============================================================================
