----------------------------- MODULE BetaMemory -----------------------------
(***************************************************************************)
(* The two-input nodes of one rule: the code that c_g_net.c generates for  *)
(* them and the beta memories of beta.c that it calls.  The rule is a      *)
(* chain: the condition element (CE) number n > 1 has the two-input node   *)
(* n, whose left entry is called by what precedes it and whose right entry *)
(* by the one-input node of the CE.  A call is one frame of the stack and  *)
(* a loop over the opposite memory takes a step for each of its members,   *)
(* because the calls to the nodes downstream are made from inside the loop.*)
(*                                                                         *)
(* A delta is offered to the CEs in `order': the class nodes call the      *)
(* one-input nodes of a superclass before those of its subclasses, so any  *)
(* order of the CEs of a rule can be the one that is generated.            *)
(***************************************************************************)
EXTENDS Integers, Sequences, FiniteSets, Bags, SequencesExt

CONSTANTS
    Object,     \* instance ids
    Value,      \* what an attribute can hold
    Absent,     \* stands for the value of an object that does not exist
    Rule        \* the rules: each a sequence of CEs as CE below

CE == [pos : BOOLEAN,           \* FALSE for a negated CE
       alpha : SUBSET Value,    \* what the one-input tests accept
       eq : Nat,                \* the earlier CE whose value must be equal, or 0
       ne : Nat]                \* the earlier CE whose value must differ, or 0

AbsentAssumption == Absent \notin Value

RuleAssumption ==
    \A r \in Rule : /\ r \in Seq(CE) /\ Len(r) > 1 /\ r[1].pos
                    /\ r[1].eq = 0 /\ r[1].ne = 0
                    /\ \A n \in 2..Len(r), e \in {"eq", "ne"} :
                         r[n][e] < n /\ (r[n][e] # 0 => r[r[n][e]].pos)

VARIABLES
    rule,       \* the rule that was compiled
    order,      \* the order in which its one-input nodes are called
    wm,         \* the objects that the deltas seen so far have made
    calls,      \* the one-input calls that a change of working memory still owes
    memory,     \* memory[n][side]: the equivalence classes by their hash values
    stack,      \* the active entries of two-input nodes, innermost first
    cs          \* the entries of the conflict subset

vars == <<rule, order, wm, calls, memory, stack, cs>>

NoMember == <<>>
Side == {"left", "right"}
Opposite(side) == IF side = "left" THEN "right" ELSE "left"

(***************************************************************************)
(* A token is a sequence of <<object, value>>, one for each positive CE so *)
(* far; a member of a class is known by its instance ids alone.            *)
(***************************************************************************)
InstArray(tok) == [i \in DOMAIN tok |-> tok[i][1]]
Place(n) == Cardinality({i \in 1..n : rule[i].pos})

HashValues(n, side, tok) ==
    IF rule[n].eq = 0 THEN <<>>
    ELSE IF side = "left" THEN <<tok[Place(rule[n].eq)][2]>>
    ELSE <<tok[1][2]>>

PredicateTests(n, left, right) ==
    rule[n].ne = 0 \/ left[Place(rule[n].ne)][2] # right[1][2]

-----------------------------------------------------------------------------
(* beta.c *)

\* Mutant: add_class_member where the one with the count is needed.
AddMemberUncounted(classes, key, tok, count) ==
    LET new == <<[tok |-> tok, count |-> 0]>>
    IN  IF key \in DOMAIN classes
        THEN [classes EXCEPT ![key].members = new \o @]
        ELSE (key :> [members |-> new, curr |-> NoMember]) @@ classes

AddMember(classes, key, tok, count) ==
    LET new == <<[tok |-> tok, count |-> count]>>
    IN  IF key \in DOMAIN classes
        THEN [classes EXCEPT ![key].members = new \o @]
        ELSE (key :> [members |-> new, curr |-> NoMember]) @@ classes

\* Mutant: the first member is unlinked instead of the one that is named.
RemoveMemberFirst(classes, key, tok) ==
    IF Len(classes[key].members) = 1
    THEN [k \in DOMAIN classes \ {key} |-> classes[k]]
    ELSE [classes EXCEPT ![key].members = Tail(@)]

RemoveMember(classes, key, tok) ==
    LET left == SelectSeq(classes[key].members,
                          LAMBDA m : InstArray(m.tok) # InstArray(tok))
    IN  IF left = <<>> THEN [k \in DOMAIN classes \ {key} |-> classes[k]]
        ELSE [classes EXCEPT ![key].members = left]

ModifyMemory(classes, sign, key, tok) ==
    IF sign = -1 THEN RemoveMember(classes, key, tok)
                 ELSE AddMember(classes, key, tok, 0)

CurrMember(class) ==
    SelectInSeq(class.members, LAMBDA m : InstArray(m.tok) = class.curr)

\* Mutant: the cursor is not moved to the first member.
GetFirstTokenStale(classes, key) == classes

GetFirstToken(classes, key) ==
    IF key \in DOMAIN classes
    THEN [classes EXCEPT ![key].curr = InstArray(classes[key].members[1].tok)]
    ELSE classes

GetNextToken(classes, key) ==
    LET i == CurrMember(classes[key])
    IN  IF i < Len(classes[key].members)
        THEN [classes EXCEPT ![key].curr =
                  InstArray(classes[key].members[i + 1].tok)]
        ELSE classes

\* Mutant: the difference loses its sign.
ModifyMatchCountUp(class, diff) ==
    [class EXCEPT !.members[CurrMember(class)].count = @ + 1]

ModifyMatchCount(class, diff) ==
    [class EXCEPT !.members[CurrMember(class)].count = @ + diff]

\* What a loop from the first token to the last leaves behind.
Traversed(classes, key) ==
    IF key \in DOMAIN classes
    THEN [classes EXCEPT ![key].curr = InstArray(Last(classes[key].members).tok)]
    ELSE classes

-----------------------------------------------------------------------------
(* The generated code *)

Top == stack[1]
Loop == Opposite(Top.side)
LoopKey == HashValues(Top.node, Top.side, Top.tok)
LoopClass == memory[Top.node][Loop][LoopKey]
LoopToken == LoopClass.members[CurrMember(LoopClass)].tok
At(pc) == stack # <<>> /\ Top.pc = pc

Goto(pc) == [stack EXCEPT ![1].pc = pc]

\* The invocation of one entry of a two-input node.
Invocation(n, side, sign, tok) ==
    [node |-> n, side |-> side, sign |-> sign, tok |-> tok, pc |-> "enter"]

ModifyConflictSubset(sign, tok) ==
    cs' = IF sign = 1 THEN cs (+) SetToBag({InstArray(tok)})
                      ELSE cs (-) SetToBag({InstArray(tok)})

\* The calls to what follows node n, made with `rest' still on the stack.
CallDownstream(n, sign, tok, rest) ==
    IF n = Len(rule)
    THEN ModifyConflictSubset(sign, tok) /\ stack' = rest
    ELSE stack' = <<Invocation(n + 1, "left", sign, tok)>> \o rest /\ UNCHANGED cs

OneInputNode ==
    /\ stack = <<>> /\ calls # <<>>
    /\ LET c == Head(calls)
           tok == <<<<c.obj, c.val>>>>
       IN  stack' = IF c.val \notin rule[c.ce].alpha THEN <<>>
                    ELSE IF c.ce = 1 THEN <<Invocation(2, "left", c.sign, tok)>>
                    ELSE <<Invocation(c.ce, "right", c.sign, tok)>>
    /\ calls' = Tail(calls)
    /\ UNCHANGED <<rule, order, wm, memory, cs>>

\* Store or remove the token, then start the loop over the opposite memory.
Enter ==
    /\ At("enter") /\ (rule[Top.node].pos \/ Top.side = "right")
    /\ memory' = [memory EXCEPT
          ![Top.node][Top.side] = ModifyMemory(@, Top.sign, LoopKey, Top.tok),
          ![Top.node][Loop] = GetFirstToken(@, LoopKey)]
    /\ stack' = IF LoopKey \in DOMAIN memory[Top.node][Loop]
                THEN Goto("loop") ELSE Tail(stack)
    /\ UNCHANGED <<rule, order, wm, calls, cs>>

\* Mutant: the object of the right token is left out.
OutTokenLeft == IF Top.side = "left" THEN Top.tok ELSE LoopToken

\* The objects of the left token come first, whichever side was entered.
OutToken ==
    IF Top.side = "left" THEN Top.tok \o LoopToken ELSE LoopToken \o Top.tok

PositiveLoop ==
    /\ At("loop") /\ rule[Top.node].pos
    /\ IF IF Top.side = "left" THEN PredicateTests(Top.node, Top.tok, LoopToken)
                              ELSE PredicateTests(Top.node, LoopToken, Top.tok)
       THEN CallDownstream(Top.node, Top.sign, OutToken, Goto("next"))
       ELSE stack' = Goto("next") /\ UNCHANGED cs
    /\ UNCHANGED <<rule, order, wm, calls, memory>>

\* The count of matches at which a left token is forwarded by the right entry
\* of a negated node, and the sign it is given.
ActOn == IF Top.sign = -1 THEN 0 ELSE 1

\* Mutant: it keeps the sign of the right token.
OutSignSame == Top.sign

OutSign == -Top.sign

\* The right entry of a negated node changes the counts of the left tokens.
NegatedLoop ==
    /\ At("loop") /\ ~rule[Top.node].pos
    /\ LET class == ModifyMatchCount(LoopClass, Top.sign)
       IN  IF PredicateTests(Top.node, LoopToken, Top.tok)
           THEN /\ memory' = [memory EXCEPT ![Top.node].left[LoopKey] = class]
                /\ IF class.members[CurrMember(class)].count = ActOn
                   THEN CallDownstream(Top.node, OutSign, LoopToken, Goto("next"))
                   ELSE stack' = Goto("next") /\ UNCHANGED cs
           ELSE stack' = Goto("next") /\ UNCHANGED <<memory, cs>>
    /\ UNCHANGED <<rule, order, wm, calls>>

\* Mutant: the loop is not left at its last member.
NextTokenUnending ==
    /\ At("next")
    /\ memory' = [memory EXCEPT ![Top.node][Loop] = GetNextToken(@, LoopKey)]
    /\ stack' = IF CurrMember(LoopClass) < Len(LoopClass.members)
                THEN Goto("loop") ELSE Goto("next")
    /\ UNCHANGED <<rule, order, wm, calls, cs>>

NextToken ==
    /\ At("next")
    /\ memory' = [memory EXCEPT ![Top.node][Loop] = GetNextToken(@, LoopKey)]
    /\ stack' = IF CurrMember(LoopClass) < Len(LoopClass.members)
                THEN Goto("loop") ELSE Tail(stack)
    /\ UNCHANGED <<rule, order, wm, calls, cs>>

CrossMatches ==
    LET right == memory[Top.node].right
    IN  IF LoopKey \notin DOMAIN right THEN 0
        ELSE Len(SelectSeq(right[LoopKey].members,
                   LAMBDA m : PredicateTests(Top.node, Top.tok, m.tok)))

\* The left entry of a negated node: its loop only counts, and calls nothing.
NegatedLeftAdd ==
    /\ At("enter") /\ ~rule[Top.node].pos /\ Top.side = "left" /\ Top.sign = 1
    /\ memory' = [memory EXCEPT
          ![Top.node].right = Traversed(@, LoopKey),
          ![Top.node].left = AddMember(@, LoopKey, Top.tok, CrossMatches)]
    /\ IF CrossMatches = 0
       THEN CallDownstream(Top.node, 1, Top.tok, Tail(stack))
       ELSE stack' = Tail(stack) /\ UNCHANGED cs
    /\ UNCHANGED <<rule, order, wm, calls>>

NegatedLeftRemove ==
    /\ At("enter") /\ ~rule[Top.node].pos /\ Top.side = "left" /\ Top.sign = -1
    /\ LET class == memory[Top.node].left[LoopKey]
           i == SelectInSeq(class.members,
                            LAMBDA m : InstArray(m.tok) = InstArray(Top.tok))
       IN  /\ memory' = [memory EXCEPT
                 ![Top.node].left = RemoveMember(@, LoopKey, Top.tok)]
           /\ IF class.members[i].count = 0
              THEN CallDownstream(Top.node, -1, Top.tok, Tail(stack))
              ELSE stack' = Tail(stack) /\ UNCHANGED cs
    /\ UNCHANGED <<rule, order, wm, calls>>

-----------------------------------------------------------------------------
(* A change of working memory: one delta, or two for a modify *)

Quiet == stack = <<>> /\ calls = <<>>

Deltas(sign, o, v) ==
    [i \in 1..Len(rule) |-> [sign |-> sign, obj |-> o, val |-> v, ce |-> order[i]]]

Change(o, v) ==
    /\ Quiet /\ wm[o] # v
    /\ wm' = [wm EXCEPT ![o] = v]
    /\ calls' = (IF wm[o] = Absent THEN <<>> ELSE Deltas(-1, o, wm[o]))
                \o (IF v = Absent THEN <<>> ELSE Deltas(1, o, v))
    /\ UNCHANGED <<rule, order, memory, stack, cs>>

Propagate == \/ OneInputNode \/ Enter \/ PositiveLoop \/ NegatedLoop
             \/ NextToken \/ NegatedLeftAdd \/ NegatedLeftRemove

Init ==
    /\ rule \in Rule
    /\ order \in {p \in [1..Len(rule) -> 1..Len(rule)] : IsInjective(p)}
    /\ wm = [o \in Object |-> Absent]
    /\ memory = [n \in 2..Len(rule) |-> [side \in Side |-> <<>>]]
    /\ calls = <<>> /\ stack = <<>> /\ cs = EmptyBag

Next == Propagate \/ \E o \in Object, v \in Value \cup {Absent} : Change(o, v)

Spec == Init /\ [][Next]_vars /\ WF_vars(Propagate)

-----------------------------------------------------------------------------
(* What the network promises *)

Live == {<<o, wm[o]>> : o \in {x \in Object : wm[x] # Absent}}

Matches(n, tok, p) ==
    /\ p[2] \in rule[n].alpha
    /\ rule[n].eq # 0 => tok[Place(rule[n].eq)][2] = p[2]
    /\ rule[n].ne # 0 => tok[Place(rule[n].ne)][2] # p[2]

\* The tokens that satisfy the CEs 1..m, read off working memory.
Satisfying(m) ==
    {tok \in [1..Place(m) -> Live] :
        \A n \in 1..m : IF rule[n].pos THEN Matches(n, tok, tok[Place(n)])
                        ELSE \A p \in Live : ~Matches(n, tok, p)}

Instantiations == {InstArray(tok) : tok \in Satisfying(Len(rule))}

\* When a change has been propagated the conflict subset holds each
\* instantiation of the rule exactly once and nothing else, whatever the order
\* of the one-input calls and although one object may enter both sides of a
\* node (the calls that c_g_net.c generates and rul__cs_modify receives).
ConflictSubsetIsJoin ==
    Quiet => cs = SetToBag(Instantiations)

\* When a change has been propagated the cross match count that a negated node
\* keeps with each left token is the number of objects that match the negated
\* CE with that token (rul__beta_modify_match_count, rul__beta_add_to_memory).
CrossMatchesExact ==
    Quiet => \A n \in 2..Len(rule) : ~rule[n].pos =>
               \A key \in DOMAIN memory[n].left :
                 \A i \in DOMAIN memory[n].left[key].members :
                   LET m == memory[n].left[key].members[i]
                   IN  m.count = Cardinality({p \in Live : Matches(n, m.tok, p)})

\* A left memory holds exactly the tokens that satisfy the CEs before its node,
\* so no token is left behind that a later removal could not find and no
\* equivalence class outlives its last member (rul__beta_modify_memory).
LeftMemoryExact ==
    Quiet => \A n \in 2..Len(rule) :
      LET left == memory[n].left
          held == UNION {{left[key].members[i].tok : i \in DOMAIN left[key].members}
                         : key \in DOMAIN left}
      IN  held = Satisfying(n - 1) /\ \A key \in DOMAIN left : left[key].members # <<>>

\* While an entry loops over the opposite memory the class it loops over stays
\* allocated and its one cursor stays on a member of it, whatever the calls
\* made from inside the loop do (curr_member is kept in the class and not by
\* the loop: rul__beta_get_next_token).
CursorsLive ==
    \A f \in DOMAIN stack : stack[f].pc # "enter" =>
      LET classes == memory[stack[f].node][Opposite(stack[f].side)]
          key == HashValues(stack[f].node, stack[f].side, stack[f].tok)
      IN  key \in DOMAIN classes /\ CurrMember(classes[key]) # 0

\* A negative token finds its class and its member, so that the loop of
\* remove_class_member never falls through to its assert (FALSE), a negative
\* entry of the conflict subset is there to be removed, and no count of
\* matches becomes negative (the assertions of beta.c:1107-1111).
RemovalsFindTheirMember ==
    /\ At("enter") /\ Top.sign = -1 =>
         LET classes == memory[Top.node][Top.side]
         IN  /\ LoopKey \in DOMAIN classes
             /\ \E i \in DOMAIN classes[LoopKey].members :
                  InstArray(classes[LoopKey].members[i].tok) = InstArray(Top.tok)
    /\ \A n \in 2..Len(rule) : \A key \in DOMAIN memory[n].left :
         \A i \in DOMAIN memory[n].left[key].members :
           memory[n].left[key].members[i].count >= 0

\* The propagation of every change ends (the loops of the generated code).
PropagationEnds == []<>Quiet

\* The values of the variables.
TypeOK ==
    /\ rule \in Rule
    /\ wm \in [Object -> Value \cup {Absent}]
    /\ \A i \in DOMAIN stack : stack[i].pc \in {"enter", "loop", "next"}
    /\ BagToSet(cs) \subseteq [1..Place(Len(rule)) -> Object]
=============================================================================
