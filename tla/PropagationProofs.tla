-------------------------- MODULE PropagationProofs --------------------------
(***************************************************************************)
(* Proofs about WorkingMemory and Propagation, for any objects, classes,   *)
(* ruling blocks and entry blocks, any depth of nesting and any program.   *)
(*                                                                         *)
(* Of WorkingMemory: nesting counts are exact and a removal is the         *)
(* innermost change of its object, so a pop that frees an object frees it  *)
(* from its last frame.                                                    *)
(*                                                                         *)
(* Of Propagation: the queue of a ruling block is looked at by itself      *)
(* first; then the invariant ties the queues, the networks and working     *)
(* memory together, and a change of working memory is one of three kinds:  *)
(* out of every network's sight, a withdrawal or a publication.            *)
(***************************************************************************)
EXTENDS Propagation, SequenceFacts, FiniteSetTheorems, TLAPS

-----------------------------------------------------------------------------
(* WorkingMemory.                                                          *)

(* Sequences: the two ways lists and the stack change.                     *)

\* Pop drops the last element.
LEMMA PopProperties ==
  ASSUME NEW S, NEW s \in Seq(S), s # << >>
  PROVE  /\ Pop(s) \in Seq(S)
         /\ Len(Pop(s)) = Len(s) - 1
         /\ DOMAIN Pop(s) = DOMAIN s \ {Len(s)}
         /\ \A k \in DOMAIN Pop(s) : Pop(s)[k] = s[k]
         /\ Len(s) \in DOMAIN s
<1>1. Len(s) \in Nat /\ Len(s) # 0 /\ DOMAIN s = 1 .. Len(s)
  OBVIOUS
<1>2. Len(s) - 1 \in Nat
  BY <1>1
<1>3. \A k \in 1 .. Len(s) - 1 : s[k] \in S
  BY <1>1
<1>4. Pop(s) \in [1 .. Len(s) - 1 -> S]
  BY <1>3 DEF Pop
<1>5. Pop(s) \in Seq(S) /\ Len(Pop(s)) = Len(s) - 1
  BY <1>2, <1>4
<1>6. DOMAIN Pop(s) = DOMAIN s \ {Len(s)}
  BY <1>1, <1>4
<1>. QED
  BY <1>1, <1>5, <1>6 DEF Pop

\* Without yields a sequence of the same elements, whether or not the element
\* is there.
LEMMA WithoutType ==
  ASSUME NEW S, NEW l \in Seq(S), NEW i
  PROVE  Without(l, i) \in Seq(S)
<1>1. CASE l = << >>
  <2>1. Len(l) - 1 = -1 /\ 1 .. -1 = 1 .. 0
    BY <1>1
  <2>2. Without(l, i) \in [1 .. 0 -> S]
    BY <2>1 DEF Without
  <2>. QED
    BY <2>2
<1>2. CASE l # << >>
  <2>1. Len(l) \in Nat /\ Len(l) - 1 \in Nat
    BY <1>2
  <2>2. \A j \in 1 .. Len(l) - 1 : l[j] \in S /\ l[j + 1] \in S
    BY <2>1
  <2>3. Without(l, i) \in [1 .. Len(l) - 1 -> S]
    BY <2>2 DEF Without
  <2>. QED
    BY <2>1, <2>3
<1>. QED
  BY <1>1, <1>2

-----------------------------------------------------------------------------
(* Frames.                                                                 *)

\* The frames on an object are finitely many, and one of them keeps the object
\* alive and its nesting count positive.
LEMMA FramesKeepAlive ==
  ASSUME TypeOK, NestingExact, NEW i \in Ids
  PROVE  /\ IsFiniteSet(FramesOn(i))
         /\ FramesOn(i) # {} => Exists(i) /\ obj[i].changes \in Nat \ {0}
         /\ AtRest(i) => FramesOn(i) = {}
<1>1. DOMAIN stack = 1 .. Len(stack) /\ Len(stack) \in Nat
  BY DEF TypeOK
<1>2. IsFiniteSet(1 .. Len(stack))
  BY <1>1, FS_Interval
<1>3. FramesOn(i) \subseteq 1 .. Len(stack)
  BY <1>1 DEF FramesOn
<1>4. IsFiniteSet(FramesOn(i))
  BY <1>2, <1>3, FS_Subset
<1>5. Cardinality(FramesOn(i)) \in Nat /\ (Cardinality(FramesOn(i)) = 0 <=> FramesOn(i) = {})
  BY <1>4, FS_CardinalityType, FS_EmptySet
<1>. QED
  BY <1>4, <1>5 DEF NestingExact, AtRest

\* A pushed frame is one more frame on its object and on no other.
LEMMA Pushed ==
  ASSUME TypeOK, NestingExact, NEW f \in Frame, stack' = Append(stack, f), NEW i \in Ids
  PROVE  /\ f.id # i => FramesOn(i)' = FramesOn(i)
         /\ f.id = i => /\ FramesOn(i)' = FramesOn(i) \cup {Len(stack) + 1}
                        /\ Cardinality(FramesOn(i)') = Cardinality(FramesOn(i)) + 1
<1>1. /\ DOMAIN stack = 1 .. Len(stack) /\ Len(stack) \in Nat
      /\ DOMAIN stack' = 1 .. Len(stack) + 1
      /\ \A k \in DOMAIN stack : stack'[k] = stack[k]
      /\ stack'[Len(stack) + 1] = f
  BY DEF TypeOK
<1>2. f.id # i => FramesOn(i)' = FramesOn(i)
  BY <1>1 DEF FramesOn
<1>3. f.id = i => FramesOn(i)' = FramesOn(i) \cup {Len(stack) + 1}
  BY <1>1 DEF FramesOn
<1>4. Len(stack) + 1 \notin FramesOn(i)
  BY <1>1 DEF FramesOn
<1>5. Cardinality(FramesOn(i) \cup {Len(stack) + 1}) = Cardinality(FramesOn(i)) + 1
  BY <1>4, FramesKeepAlive, FS_AddElement
<1>. QED
  BY <1>2, <1>3, <1>5

\* A popped frame is one frame less on its object and on no other.
LEMMA Popped ==
  ASSUME TypeOK, NestingExact, stack # << >>, stack' = Pop(stack), NEW i \in Ids
  PROVE  /\ Top.id # i => FramesOn(i)' = FramesOn(i)
         /\ Top.id = i => /\ FramesOn(i)' = FramesOn(i) \ {Len(stack)}
                          /\ Len(stack) \in FramesOn(i)
                          /\ Cardinality(FramesOn(i)') = Cardinality(FramesOn(i)) - 1
<1>1. /\ Len(stack) \in DOMAIN stack
      /\ DOMAIN stack' = DOMAIN stack \ {Len(stack)}
      /\ \A k \in DOMAIN stack' : stack'[k] = stack[k]
  BY PopProperties DEF TypeOK
<1>2. Top.id # i => FramesOn(i)' = FramesOn(i)
  BY <1>1 DEF FramesOn, Top
<1>3. Top.id = i => FramesOn(i)' = FramesOn(i) \ {Len(stack)} /\ Len(stack) \in FramesOn(i)
  BY <1>1 DEF FramesOn, Top
<1>4. Len(stack) \in FramesOn(i) =>
        Cardinality(FramesOn(i) \ {Len(stack)}) = Cardinality(FramesOn(i)) - 1
  BY FramesKeepAlive, FS_RemoveElement
<1>. QED
  BY <1>2, <1>3, <1>4

-----------------------------------------------------------------------------
(* Nesting.                                                                *)

\* The inductive invariant.  NestingExact alone is not inductive: a removal
\* frees the object whatever its count, so no other frame may be on it.
Inv == TypeOK /\ NestingExact /\ RemovalIsInnermost

\* Opening a change, or a removal of an object at rest, keeps nesting exact.
LEMMA PushKeepsNesting ==
  ASSUME Inv, NEW i \in Ids, NEW f \in Frame, f.id = i, stack' = Append(stack, f),
         f.kind = "remove" => AtRest(i),
         Exists(i)', 
         obj'[i].changes = (IF Exists(i) THEN obj[i].changes ELSE 0) + 1,
         \A j \in Ids \ {i} : obj'[j] = obj[j]
  PROVE  NestingExact' /\ RemovalIsInnermost'
<1>. USE DEF Inv
<1>1. NestingExact'
  <2>1. SUFFICES ASSUME NEW j \in Ids
                 PROVE  IF Exists(j)' THEN obj'[j].changes = Cardinality(FramesOn(j)')
                                      ELSE FramesOn(j)' = {}
    BY DEF NestingExact
  <2>2. CASE j # i
    BY <2>2, Pushed DEF NestingExact, Exists
  <2>3. CASE j = i
    <3>1. Cardinality(FramesOn(i)') = Cardinality(FramesOn(i)) + 1
      BY Pushed
    <3>2. Cardinality(FramesOn(i)) = IF Exists(i) THEN obj[i].changes ELSE 0
      BY FS_EmptySet DEF NestingExact
    <3>. QED
      BY <2>3, <3>1, <3>2
  <2>. QED
    BY <2>2, <2>3
<1>2. RemovalIsInnermost'
  <2>1. /\ DOMAIN stack = 1 .. Len(stack) /\ Len(stack) \in Nat
        /\ DOMAIN stack' = 1 .. Len(stack) + 1
        /\ \A k \in DOMAIN stack : stack'[k] = stack[k]
        /\ stack'[Len(stack) + 1] = f
    BY DEF TypeOK
  <2>2. f.kind = "remove" => \A k \in DOMAIN stack : stack[k].id # i
    BY FramesKeepAlive DEF FramesOn
  <2>. QED
    BY <2>1, <2>2 DEF RemovalIsInnermost
<1>. QED
  BY <1>1, <1>2

\* Closing a change, or ending a removal, keeps nesting exact.
LEMMA PopKeepsNesting ==
  ASSUME Inv, NEW i \in Ids, stack # << >>, Top.id = i, stack' = Pop(stack),
         IF Top.kind = "remove"
         THEN ~Exists(i)'
         ELSE Exists(i)' /\ obj'[i].changes = obj[i].changes - 1,
         \A j \in Ids \ {i} : obj'[j] = obj[j]
  PROVE  NestingExact' /\ RemovalIsInnermost'
<1>. USE DEF Inv
<1>1. /\ Len(stack) \in DOMAIN stack
      /\ DOMAIN stack' = DOMAIN stack \ {Len(stack)}
      /\ \A k \in DOMAIN stack' : stack'[k] = stack[k]
  BY PopProperties DEF TypeOK
<1>2. DOMAIN stack = 1 .. Len(stack) /\ Len(stack) \in Nat
  BY DEF TypeOK
<1>3. Exists(i) /\ obj[i].changes = Cardinality(FramesOn(i))
  BY Popped, FramesKeepAlive DEF NestingExact
<1>4. NestingExact'
  <2>1. SUFFICES ASSUME NEW j \in Ids
                 PROVE  IF Exists(j)' THEN obj'[j].changes = Cardinality(FramesOn(j)')
                                      ELSE FramesOn(j)' = {}
    BY DEF NestingExact
  <2>2. CASE j # i
    BY <2>2, Popped DEF NestingExact, Exists
  <2>3. CASE j = i /\ Top.kind = "remove"
    <3>1. \A k \in FramesOn(i) : k = Len(stack)
      BY <1>1, <1>2, <2>3 DEF RemovalIsInnermost, FramesOn, Top
    <3>2. FramesOn(i)' = {}
      BY <3>1, Popped
    <3>. QED
      BY <2>3, <3>2
  <2>4. CASE j = i /\ Top.kind # "remove"
    BY <2>4, <1>3, Popped
  <2>. QED
    BY <2>2, <2>3, <2>4
<1>5. RemovalIsInnermost'
  BY <1>1 DEF RemovalIsInnermost
<1>. QED
  BY <1>4, <1>5

-----------------------------------------------------------------------------
(* Types.                                                                  *)

\* Opening a change leaves a stack of frames.
LEMMA OpenType ==
  ASSUME TypeOK, NEW i \in Ids, Open(i)
  PROVE  stack' \in Seq(Frame)
<1>1. [kind |-> "change", id |-> i] \in Frame
  BY DEF Frame
<1>. QED
  BY <1>1 DEF Open, TypeOK

\* wm_create_object keeps the types.
LEMMA CreateType ==
  ASSUME TypeOK, NEW i \in Ids, NEW c \in Classes, NEW v \in Vals, Create(i, c, v)
  PROVE  TypeOK'
<1>. USE BlockAssumption DEF TypeOK, Create
<1>1. [cls |-> c, tag |-> clock + 1, val |-> v, changes |-> 1] \in Object
  BY DEF Object
<1>2. obj' \in [Ids -> Object \cup {Absent}]
  BY <1>1
<1>3. Append(lists[BlockOf[c]], i) \in Seq(Ids)
  OBVIOUS
<1>4. lists' \in [Blocks -> Seq(Ids)]
  BY <1>3
<1>5. stack' \in Seq(Frame)
  BY OpenType
<1>. QED
  BY <1>2, <1>4, <1>5

\* rul__wm_specialize keeps the types.
LEMMA SpecializeType ==
  ASSUME TypeOK, NEW i \in Ids, NEW c \in Classes, Specialize(i, c)
  PROVE  TypeOK'
<1>. DEFINE off == [lists EXCEPT ![BlockNow(i)] = Without(@, i)]
<1>1. obj[i] \in Object
  BY DEF TypeOK, Specialize, AtRest, Exists
<1>2. [obj[i] EXCEPT !.cls = c, !.changes = 1, !.tag = clock + 1] \in Object
  <2>1. clock + 1 \in Nat
    BY DEF TypeOK
  <2>. QED
    BY <1>1, <2>1 DEF Object
<1>3. obj' \in [Ids -> Object \cup {Absent}]
  BY <1>1, <1>2 DEF Specialize, TypeOK
<1>4. BlockNow(i) \in Blocks
  BY <1>1, BlockAssumption DEF BlockNow, Object
<1>5. Without(lists[BlockNow(i)], i) \in Seq(Ids)
  BY <1>4, WithoutType DEF TypeOK
<1>6. off \in [Blocks -> Seq(Ids)]
  BY <1>4, <1>5 DEF TypeOK
<1>7. lists' = [off EXCEPT ![BlockOf[c]] = Append(@, i)]
  BY DEF Specialize
<1>8. lists' \in [Blocks -> Seq(Ids)]
  <2>. HIDE DEF off
  <2>1. Append(off[BlockOf[c]], i) \in Seq(Ids)
    BY <1>6, BlockAssumption
  <2>. QED
    BY <1>6, <1>7, <2>1
<1>9. clock' \in Nat /\ stack' \in Seq(Frame)
  BY OpenType DEF Specialize, TypeOK
<1>. QED
  BY <1>3, <1>8, <1>9 DEF TypeOK

\* A step that changes one object and the stack only.
LEMMA ObjectStepType ==
  ASSUME TypeOK, NEW i \in Ids, NEW o \in Object \cup {Absent},
         obj' = [obj EXCEPT ![i] = o], clock' \in Nat,
         lists' \in [Blocks -> Seq(Ids)], stack' \in Seq(Frame)
  PROVE  TypeOK'
BY DEF TypeOK

\* The frame on top of the stack is on a live object with a positive count.
LEMMA TopLive ==
  ASSUME Inv, NEW kind, NEW i \in Ids, TopIs(kind, i)
  PROVE  /\ Exists(i) /\ obj[i] \in Object /\ obj[i].changes \in Nat \ {0}
         /\ stack # << >> /\ Top.id = i /\ Top.kind = kind
         /\ Pop(stack) \in Seq(Frame)
<1>1. stack # << >> /\ Top = [kind |-> kind, id |-> i]
  BY DEF TopIs
<1>2. Len(stack) \in DOMAIN stack /\ Pop(stack) \in Seq(Frame)
  BY <1>1, PopProperties DEF Inv, TypeOK
<1>3. Len(stack) \in FramesOn(i)
  BY <1>1, <1>2 DEF FramesOn, Top
<1>4. Exists(i) /\ obj[i].changes \in Nat \ {0}
  BY <1>3, FramesKeepAlive DEF Inv
<1>. QED
  BY <1>1, <1>2, <1>4 DEF Inv, TypeOK, Exists

-----------------------------------------------------------------------------
(* The invariant is kept, action by action.                                *)

\* A new object, with its one open change, keeps the invariant.
LEMMA CreateInv ==
  ASSUME Inv, NEW i \in Ids, ~Exists(i), NEW c \in Classes, NEW v \in Vals, Create(i, c, v)
  PROVE  Inv'
<1>. DEFINE f == [kind |-> "change", id |-> i]
<1>1. TypeOK'
  BY CreateType DEF Inv
<1>2. obj'[i] \in Object /\ obj'[i].changes = 1 /\ Exists(i)'
  BY AbsentAssumption DEF Create, Inv, TypeOK, Object, Exists
<1>3. f \in Frame /\ stack' = Append(stack, f)
  BY DEF Frame, Create, Open
<1>4. \A j \in Ids \ {i} : obj'[j] = obj[j]
  BY DEF Create, Inv, TypeOK
<1>5. NestingExact' /\ RemovalIsInnermost'
  BY <1>2, <1>3, <1>4, PushKeepsNesting
<1>. QED
  BY <1>1, <1>5 DEF Inv

\* Moving an object to the list of a subclass keeps the invariant.
LEMMA SpecializeInv ==
  ASSUME Inv, NEW i \in Ids, NEW c \in Classes, Specialize(i, c)
  PROVE  Inv'
<1>. DEFINE f == [kind |-> "change", id |-> i]
<1>1. TypeOK'
  BY SpecializeType DEF Inv
<1>2. AtRest(i) /\ obj[i] \in Object
  BY DEF Specialize, Inv, TypeOK, AtRest, Exists
<1>3. obj'[i] # Absent /\ obj'[i].changes = 1
  <2>. DEFINE o == [obj[i] EXCEPT !.cls = c, !.changes = 1, !.tag = clock + 1]
  <2>1. obj'[i] = o
    BY DEF Specialize, Inv, TypeOK
  <2>2. clock + 1 \in Nat
    BY DEF Inv, TypeOK
  <2>3. o \in Object
    BY <1>2, <2>2 DEF Object
  <2>4. o.changes = 1
    BY <1>2 DEF Object
  <2>. HIDE DEF o
  <2>. QED
    BY <2>1, <2>3, <2>4, AbsentAssumption
<1>4. f \in Frame /\ stack' = Append(stack, f)
  BY DEF Frame, Specialize, Open
<1>5. \A j \in Ids \ {i} : obj'[j] = obj[j]
  BY DEF Specialize, Inv, TypeOK
<1>6. NestingExact' /\ RemovalIsInnermost'
  BY <1>2, <1>3, <1>4, <1>5, PushKeepsNesting DEF AtRest, Exists
<1>. QED
  BY <1>1, <1>6 DEF Inv

\* A nested change, or a change of an object at rest that takes a new tag.
LEMMA ReopenInv ==
  ASSUME Inv, NEW i \in Ids, Exists(i), NEW o \in Object,
         obj' = [obj EXCEPT ![i] = o], o.changes = obj[i].changes + 1,
         clock' \in Nat, UNCHANGED lists,
         NEW f \in Frame, f.id = i, f.kind = "remove" => AtRest(i),
         stack' = Append(stack, f)
  PROVE  NestingExact' /\ RemovalIsInnermost' /\ TypeOK'
<1>1. obj'[i] = o /\ \A j \in Ids \ {i} : obj'[j] = obj[j]
  BY DEF Inv, TypeOK
<1>2. NestingExact' /\ RemovalIsInnermost'
  BY <1>1, AbsentAssumption, PushKeepsNesting DEF Exists
<1>3. stack' \in Seq(Frame)
  BY DEF Inv, TypeOK
<1>4. TypeOK'
  BY <1>3, ObjectStepType DEF Inv, TypeOK
<1>. QED
  BY <1>2, <1>4

\* A copy or a specialization that is refused only nests one deeper.
LEMMA OldReturnedInv ==
  ASSUME Inv, NEW i \in Ids, OldReturned(i)
  PROVE  Inv'
<1>. DEFINE o == [obj[i] EXCEPT !.changes = @ + 1]
            f == [kind |-> "change", id |-> i]
<1>1. Exists(i) /\ obj[i] \in Object
  BY DEF OldReturned, Inv, TypeOK, Exists
<1>2. o \in Object /\ o.changes = obj[i].changes + 1
  BY <1>1 DEF Object
<1>3. f \in Frame /\ f.id = i /\ f.kind # "remove" /\ stack' = Append(stack, f)
  BY DEF Frame, OldReturned, Open
<1>4. obj' = [obj EXCEPT ![i] = o] /\ clock' \in Nat /\ UNCHANGED lists
  BY DEF OldReturned, Inv, TypeOK
<1>. HIDE DEF o, f
<1>. QED
  BY <1>1, <1>2, <1>3, <1>4, ReopenInv DEF Inv

\* rul__wm_modify keeps the invariant, at rest or nested.
LEMMA ModifyInv ==
  ASSUME Inv, NEW i \in Ids, Modify(i)
  PROVE  Inv'
<1>. DEFINE f == [kind |-> "change", id |-> i]
<1>1. Exists(i) /\ obj[i] \in Object /\ clock + 1 \in Nat
  BY DEF Modify, Inv, TypeOK, Exists
<1>2. f \in Frame /\ f.id = i /\ f.kind # "remove" /\ stack' = Append(stack, f)
  BY DEF Frame, Modify, Open
<1>. HIDE DEF f
<1>3. CASE AtRest(i)
  <2>. DEFINE o == [obj[i] EXCEPT !.changes = 1, !.tag = clock + 1]
  <2>1. o \in Object
    BY <1>1 DEF Object
  <2>2. o.changes = 1
    BY <1>1 DEF Object
  <2>3. obj[i].changes + 1 = 1
    BY <1>3 DEF AtRest
  <2>4. obj' = [obj EXCEPT ![i] = o] /\ clock' \in Nat /\ UNCHANGED lists
    BY <1>1, <1>3 DEF Modify, Inv, TypeOK
  <2>. HIDE DEF o
  <2>. QED
    BY <1>1, <1>2, <2>1, <2>2, <2>3, <2>4, ReopenInv DEF Inv
<1>4. CASE ~AtRest(i)
  <2>. DEFINE o == [obj[i] EXCEPT !.changes = @ + 1]
  <2>1. o \in Object /\ o.changes = obj[i].changes + 1
    BY <1>1 DEF Object
  <2>2. obj' = [obj EXCEPT ![i] = o] /\ clock' \in Nat /\ UNCHANGED lists
    BY <1>4 DEF Modify, Inv, TypeOK
  <2>. HIDE DEF o
  <2>. QED
    BY <1>1, <1>2, <2>1, <2>2, ReopenInv DEF Inv
<1>. QED
  BY <1>3, <1>4

\* Starting a removal keeps the invariant: no change of the object is open.
LEMMA DestroyInv ==
  ASSUME Inv, NEW i \in Ids, Destroy(i)
  PROVE  Inv'
<1>. DEFINE o == [obj[i] EXCEPT !.changes = 1]
            f == [kind |-> "remove", id |-> i]
<1>1. AtRest(i) /\ Exists(i) /\ obj[i] \in Object
  BY DEF Destroy, AtRest, Inv, TypeOK, Exists
<1>2. o \in Object /\ o.changes = obj[i].changes + 1
  BY <1>1 DEF Object, AtRest
<1>3. f \in Frame /\ f.id = i /\ stack' = Append(stack, f)
  BY DEF Frame, Destroy
<1>4. obj' = [obj EXCEPT ![i] = o] /\ clock' \in Nat
  BY DEF Destroy, Inv, TypeOK
<1>. HIDE DEF o, f
<1>5. obj'[i] = o /\ \A j \in Ids \ {i} : obj'[j] = obj[j]
  BY <1>4 DEF Inv, TypeOK
<1>6. NestingExact' /\ RemovalIsInnermost'
  BY <1>1, <1>2, <1>3, <1>5, AbsentAssumption, PushKeepsNesting DEF Exists
<1>7. lists' \in [Blocks -> Seq(Ids)]
  <2>1. BlockNow(i) \in Blocks
    BY <1>1, BlockAssumption DEF BlockNow, Object
  <2>2. Without(lists[BlockNow(i)], i) \in Seq(Ids)
    BY <2>1, WithoutType DEF Inv, TypeOK
  <2>. QED
    BY <2>1, <2>2 DEF Destroy, Inv, TypeOK
<1>8. stack' \in Seq(Frame)
  BY <1>3 DEF Inv, TypeOK
<1>9. TypeOK'
  BY <1>2, <1>4, <1>7, <1>8, ObjectStepType DEF Inv
<1>. QED
  BY <1>6, <1>9 DEF Inv

\* An assignment to an attribute keeps the invariant.
LEMMA SetValInv ==
  ASSUME Inv, NEW i \in Ids, NEW v \in Vals, SetVal(i, v)
  PROVE  Inv'
<1>. DEFINE w == IF obj[i].changes = 1 THEN v ELSE obj[i].val
            o == [obj[i] EXCEPT !.val = w]
<1>1. Exists(i) /\ obj[i] \in Object
  BY TopLive DEF SetVal
<1>2. w \in Vals
  BY <1>1 DEF Object
<1>3. obj' = [obj EXCEPT ![i] = o] /\ UNCHANGED <<clock, lists, stack>>
  BY DEF SetVal
<1>. HIDE DEF w
<1>4. o \in Object /\ o.changes = obj[i].changes
  BY <1>1, <1>2 DEF Object
<1>. HIDE DEF o
<1>5. TypeOK'
  BY <1>3, <1>4, ObjectStepType DEF Inv, TypeOK
<1>6. obj'[i] = o /\ \A j \in Ids \ {i} : obj'[j] = obj[j]
  BY <1>3 DEF Inv, TypeOK
<1>7. \A j \in Ids : FramesOn(j)' = FramesOn(j)
  BY <1>3 DEF FramesOn
<1>8. NestingExact'
  BY <1>1, <1>4, <1>6, <1>7, AbsentAssumption DEF NestingExact, Exists, Inv
<1>9. RemovalIsInnermost'
  BY <1>3 DEF RemovalIsInnermost, Inv
<1>. QED
  BY <1>5, <1>8, <1>9 DEF Inv

\* rul__wm_update_and_notify keeps the invariant.
LEMMA UpdateInv ==
  ASSUME Inv, NEW i \in Ids, UpdateAndNotify(i)
  PROVE  Inv'
<1>. DEFINE o == [obj[i] EXCEPT !.changes = @ - 1]
<1>1. /\ Exists(i) /\ obj[i] \in Object /\ obj[i].changes \in Nat \ {0}
      /\ stack # << >> /\ Top.id = i /\ Top.kind = "change" /\ Pop(stack) \in Seq(Frame)
  BY TopLive DEF UpdateAndNotify
<1>2. o \in Object /\ o.changes = obj[i].changes - 1
  BY <1>1 DEF Object
<1>3. obj' = [obj EXCEPT ![i] = o] /\ stack' = Pop(stack) /\ UNCHANGED <<clock, lists>>
  BY DEF UpdateAndNotify
<1>. HIDE DEF o
<1>4. obj'[i] = o /\ \A j \in Ids \ {i} : obj'[j] = obj[j]
  BY <1>3 DEF Inv, TypeOK
<1>5. NestingExact' /\ RemovalIsInnermost'
  BY <1>1, <1>2, <1>3, <1>4, AbsentAssumption, PopKeepsNesting DEF Exists
<1>6. TypeOK'
  BY <1>1, <1>2, <1>3, ObjectStepType DEF Inv, TypeOK
<1>. QED
  BY <1>5, <1>6 DEF Inv

\* Freeing an object takes it from no frame but the removal that frees it.
LEMMA DestroyObjectInv ==
  ASSUME Inv, NEW i \in Ids, DestroyObject(i)
  PROVE  Inv'
<1>1. stack # << >> /\ Top.id = i /\ Top.kind = "remove" /\ Pop(stack) \in Seq(Frame)
  BY TopLive DEF DestroyObject
<1>2. obj' = [obj EXCEPT ![i] = Absent] /\ stack' = Pop(stack) /\ UNCHANGED <<clock, lists>>
  BY DEF DestroyObject
<1>3. obj'[i] = Absent /\ \A j \in Ids \ {i} : obj'[j] = obj[j]
  BY <1>2 DEF Inv, TypeOK
<1>4. NestingExact' /\ RemovalIsInnermost'
  BY <1>1, <1>2, <1>3, PopKeepsNesting DEF Exists
<1>5. TypeOK'
  BY <1>1, <1>2, ObjectStepType DEF Inv, TypeOK
<1>. QED
  BY <1>4, <1>5 DEF Inv

-----------------------------------------------------------------------------
(* The theorems.                                                           *)

\* Empty working memory satisfies the invariant.
LEMMA InvInit == Init => Inv
<1>. SUFFICES ASSUME Init PROVE Inv
  OBVIOUS
<1>1. TypeOK
  BY DEF Init, TypeOK
<1>2. \A i \in Ids : ~Exists(i) /\ FramesOn(i) = {}
  BY DEF Init, Exists, FramesOn
<1>3. NestingExact
  BY <1>2 DEF NestingExact
<1>4. RemovalIsInnermost
  BY DEF Init, RemovalIsInnermost
<1>. QED
  BY <1>1, <1>3, <1>4 DEF Inv

\* Every step of working memory keeps the invariant.
LEMMA InvNext == Inv /\ [Next]_wmVars => Inv'
<1>. SUFFICES ASSUME Inv, [Next]_wmVars PROVE Inv'
  OBVIOUS
<1>1. CASE UNCHANGED wmVars
  BY <1>1 DEF wmVars, Inv, TypeOK, NestingExact, RemovalIsInnermost, Exists, FramesOn
<1>2. ASSUME NEW i \in Ids, NEW c \in Classes, Make(i, c) PROVE Inv'
  BY <1>2, CreateInv, ValAssumption DEF Make
<1>3. ASSUME NEW i \in Ids, NEW old \in Ids, Copy(old, i) PROVE Inv'
  <2>1. obj[old] \in Object
    BY <1>3 DEF Copy, AtRest, Exists, Inv, TypeOK
  <2>2. obj[old].cls \in Classes /\ obj[old].val \in Vals
    BY <2>1 DEF Object
  <2>. QED
    BY <1>3, <2>2, CreateInv DEF Copy
<1>. QED
  BY <1>1, <1>2, <1>3, SpecializeInv, OldReturnedInv, ModifyInv, SetValInv,
     UpdateInv, DestroyInv, DestroyObjectInv DEF Next

\* Working memory keeps its types, whatever the nesting of changes.
THEOREM TypeCorrect == Spec => []TypeOK
BY InvInit, InvNext, PTL DEF Spec, Inv

\* The nesting count of every object is the number of changes open on it.
THEOREM NestingCorrect == Spec => []NestingExact
BY InvInit, InvNext, PTL DEF Spec, Inv

\* Nothing below the removal of an object has a change of it open.
THEOREM RemovalInnermost == Spec => []RemovalIsInnermost
BY InvInit, InvNext, PTL DEF Spec, Inv

\* No object pointer that a suspended frame holds ever dangles.
THEOREM NoDanglingObject == Spec => []HeldObjectsLive
<1>1. Inv => HeldObjectsLive
  <2>. SUFFICES ASSUME Inv, NEW k \in DOMAIN stack PROVE Exists(stack[k].id)
    BY DEF HeldObjectsLive
  <2>1. stack[k] \in Frame
    BY DEF Inv, TypeOK
  <2>2. stack[k].id \in Ids /\ k \in FramesOn(stack[k].id)
    BY <2>1 DEF Frame, FramesOn
  <2>. QED
    BY <2>2 DEF Inv, NestingExact
<1>. QED
  BY <1>1, InvInit, InvNext, PTL DEF Spec

-----------------------------------------------------------------------------
(* Time tags.  A step gives one object a tag that is newer than all others *)
(* or leaves every tag alone.                                              *)

\* A step that gives one object the next time tag.
LEMMA FreshTag ==
  ASSUME TypeOK, TagsDistinct, NEW i \in Ids, clock' = clock + 1,
         obj'[i].tag = clock + 1, \A j \in Ids \ {i} : obj'[j] = obj[j]
  PROVE  TagsDistinct'
<1>1. clock \in Nat
  BY DEF TypeOK
<1>2. \A j \in Ids \ {i} : Exists(j)' => obj'[j].tag \in 1 .. clock
  BY DEF TagsDistinct, Exists
<1>3. \A j \in Ids : Exists(j)' => obj'[j].tag \in 1 .. clock'
  BY <1>1, <1>2
<1>4. \A j, k \in Ids : Exists(j)' /\ Exists(k)' /\ j # k => obj'[j].tag # obj'[k].tag
  <2>. SUFFICES ASSUME NEW j \in Ids, NEW k \in Ids, Exists(j)', Exists(k)', j # k
                PROVE  obj'[j].tag # obj'[k].tag
    OBVIOUS
  <2>1. CASE j = i \/ k = i
    BY <1>1, <1>2, <2>1
  <2>2. CASE j # i /\ k # i
    BY <2>2 DEF TagsDistinct, Exists
  <2>. QED
    BY <2>1, <2>2
<1>. QED
  BY <1>3, <1>4 DEF TagsDistinct

\* A step that gives out no time tag.
LEMMA SameTags ==
  ASSUME TagsDistinct, clock' = clock,
         \A j \in Ids : Exists(j)' => Exists(j) /\ obj'[j].tag = obj[j].tag
  PROVE  TagsDistinct'
BY DEF TagsDistinct

\* Every step keeps the time tags distinct.
LEMMA TagsNext ==
  ASSUME Inv, TagsDistinct, [Next]_wmVars
  PROVE  TagsDistinct'
<1>. USE DEF Inv
<1>1. CASE UNCHANGED wmVars
  BY <1>1 DEF wmVars, TagsDistinct, Exists
<1>2. ASSUME NEW i \in Ids, NEW c \in Classes, NEW v, Create(i, c, v) PROVE TagsDistinct'
  BY <1>2, FreshTag DEF Create, TypeOK
<1>3. ASSUME NEW i \in Ids, NEW c \in Classes, Specialize(i, c) PROVE TagsDistinct'
  <2>1. obj[i] \in Object
    BY <1>3 DEF Specialize, AtRest, Exists, TypeOK
  <2>. DEFINE o == [obj[i] EXCEPT !.cls = c, !.changes = 1, !.tag = clock + 1]
  <2>2. o.tag = clock + 1
    BY <2>1 DEF Object
  <2>3. obj' = [obj EXCEPT ![i] = o] /\ clock' = clock + 1
    BY <1>3 DEF Specialize
  <2>. HIDE DEF o
  <2>. QED
    BY <2>2, <2>3, FreshTag DEF TypeOK
<1>4. ASSUME NEW i \in Ids, Modify(i), AtRest(i) PROVE TagsDistinct'
  <2>1. obj[i] \in Object
    BY <1>4 DEF AtRest, Exists, TypeOK
  <2>. DEFINE o == [obj[i] EXCEPT !.changes = 1, !.tag = clock + 1]
  <2>2. o.tag = clock + 1
    BY <2>1 DEF Object
  <2>3. obj' = [obj EXCEPT ![i] = o] /\ clock' = clock + 1
    BY <1>4 DEF Modify
  <2>. HIDE DEF o
  <2>. QED
    BY <2>2, <2>3, FreshTag DEF TypeOK
<1>5. ASSUME NEW i \in Ids, NEW o, Exists(i), o.tag = obj[i].tag,
             obj' = [obj EXCEPT ![i] = o], clock' = clock
      PROVE  TagsDistinct'
  BY <1>5, SameTags DEF TypeOK, Exists
<1>6. ASSUME NEW i \in Ids, OldReturned(i) \/ (Modify(i) /\ ~AtRest(i)) PROVE TagsDistinct'
  <2>. DEFINE o == [obj[i] EXCEPT !.changes = @ + 1]
  <2>1. Exists(i) /\ obj[i] \in Object
    BY <1>6 DEF OldReturned, Modify, Exists, TypeOK
  <2>2. o.tag = obj[i].tag
    BY <2>1 DEF Object
  <2>3. obj' = [obj EXCEPT ![i] = o] /\ clock' = clock
    BY <1>6 DEF OldReturned, Modify
  <2>. HIDE DEF o
  <2>. QED
    BY <1>5, <2>1, <2>2, <2>3
<1>7. ASSUME NEW i \in Ids, NEW v \in Vals, SetVal(i, v) PROVE TagsDistinct'
  <2>. DEFINE w == IF obj[i].changes = 1 THEN v ELSE obj[i].val
              o == [obj[i] EXCEPT !.val = w]
  <2>1. Exists(i) /\ obj[i] \in Object
    BY <1>7, TopLive DEF SetVal
  <2>2. o.tag = obj[i].tag
    BY <2>1 DEF Object
  <2>3. obj' = [obj EXCEPT ![i] = o] /\ clock' = clock
    BY <1>7 DEF SetVal
  <2>. HIDE DEF o
  <2>. QED
    BY <1>5, <2>1, <2>2, <2>3
<1>8. ASSUME NEW i \in Ids, UpdateAndNotify(i) PROVE TagsDistinct'
  <2>. DEFINE o == [obj[i] EXCEPT !.changes = @ - 1]
  <2>1. Exists(i) /\ obj[i] \in Object
    BY <1>8, TopLive DEF UpdateAndNotify
  <2>2. o.tag = obj[i].tag
    BY <2>1 DEF Object
  <2>3. obj' = [obj EXCEPT ![i] = o] /\ clock' = clock
    BY <1>8 DEF UpdateAndNotify
  <2>. HIDE DEF o
  <2>. QED
    BY <1>5, <2>1, <2>2, <2>3
<1>9. ASSUME NEW i \in Ids, Destroy(i) PROVE TagsDistinct'
  <2>. DEFINE o == [obj[i] EXCEPT !.changes = 1]
  <2>1. Exists(i) /\ obj[i] \in Object
    BY <1>9 DEF Destroy, AtRest, Exists, TypeOK
  <2>2. o.tag = obj[i].tag
    BY <2>1 DEF Object
  <2>3. obj' = [obj EXCEPT ![i] = o] /\ clock' = clock
    BY <1>9 DEF Destroy
  <2>. HIDE DEF o
  <2>. QED
    BY <1>5, <2>1, <2>2, <2>3
<1>10. ASSUME NEW i \in Ids, DestroyObject(i) PROVE TagsDistinct'
  BY <1>10, SameTags DEF DestroyObject, TypeOK, Exists
<1>11. ASSUME NEW i \in Ids, NEW old \in Ids, Copy(old, i) PROVE TagsDistinct'
  <2>1. obj[old].cls \in Classes
    BY <1>11 DEF Copy, AtRest, Exists, TypeOK, Object
  <2>. QED
    BY <1>2, <1>11, <2>1 DEF Copy
<1>. QED
  BY <1>1, <1>2, <1>3, <1>4, <1>6, <1>7, <1>8, <1>9, <1>10, <1>11 DEF Next, Make

\* A time tag never names two objects, so comparing tags compares objects.
THEOREM TagsIdentify == Spec => []TagsDistinct
<1>1. Init => TagsDistinct
  BY DEF Init, TagsDistinct, Exists
<1>. QED
  BY <1>1, InvInit, InvNext, TagsNext, PTL DEF Spec

-----------------------------------------------------------------------------
(* Lists.                                                                  *)

NoTwice(l) == \A j, k \in DOMAIN l : l[j] = l[k] => j = k
Has(l, i) == \E k \in DOMAIN l : l[k] = i

\* Appending what is not there.
LEMMA AppendElements ==
  ASSUME NEW S, NEW l \in Seq(S), NoTwice(l), NEW i \in S, ~Has(l, i)
  PROVE  /\ NoTwice(Append(l, i))
         /\ \A x : Has(Append(l, i), x) <=> Has(l, x) \/ x = i
<1>1. /\ DOMAIN l = 1 .. Len(l) /\ Len(l) \in Nat
      /\ DOMAIN Append(l, i) = 1 .. Len(l) + 1
      /\ \A k \in DOMAIN l : Append(l, i)[k] = l[k]
      /\ Append(l, i)[Len(l) + 1] = i
  OBVIOUS
<1>. DEFINE m == Append(l, i)
<1>. HIDE DEF m
<1>2. \A k \in DOMAIN m : k \in DOMAIN l \/ k = Len(l) + 1
  BY <1>1 DEF m
<1>3. NoTwice(m)
  BY <1>1, <1>2 DEF NoTwice, Has, m
<1>4. \A x : Has(m, x) <=> Has(l, x) \/ x = i
  BY <1>1, <1>2 DEF Has, m
<1>. QED
  BY <1>3, <1>4 DEF m

\* Removing the one entry of an element leaves the others, once each.
LEMMA WithoutElements ==
  ASSUME NEW S, NEW l \in Seq(S), NoTwice(l), NEW i, Has(l, i)
  PROVE  /\ NoTwice(Without(l, i))
         /\ \A x : Has(Without(l, i), x) <=> Has(l, x) /\ x # i
<1>. DEFINE p == CHOOSE j \in DOMAIN l : l[j] = i
            m == Without(l, i)
<1>1. p \in DOMAIN l /\ l[p] = i
  BY DEF Has
<1>2. DOMAIN l = 1 .. Len(l) /\ Len(l) \in Nat
  OBVIOUS
<1>3. m = [j \in 1 .. Len(l) - 1 |-> IF j < p THEN l[j] ELSE l[j + 1]]
  BY DEF Without
<1>. HIDE DEF p, m
<1>4. DOMAIN m = 1 .. Len(l) - 1
  BY <1>3
<1>5. \A j \in DOMAIN m : IF j < p THEN j \in DOMAIN l /\ j # p /\ m[j] = l[j]
                          ELSE j + 1 \in DOMAIN l /\ j + 1 # p /\ m[j] = l[j + 1]
  BY <1>1, <1>2, <1>3
<1>6. NoTwice(m)
  <2>. SUFFICES ASSUME NEW j \in DOMAIN m, NEW k \in DOMAIN m, m[j] = m[k]
                PROVE  j = k
    BY DEF NoTwice
  <2>1. j \in Int /\ k \in Int /\ p \in Int
    BY <1>1, <1>2, <1>4
  <2>. QED
    BY <1>5, <2>1 DEF NoTwice
<1>7. ASSUME NEW x, Has(m, x) PROVE Has(l, x) /\ x # i
  <2>1. PICK j \in DOMAIN m : m[j] = x
    BY <1>7 DEF Has
  <2>2. PICK k \in DOMAIN l : l[k] = x /\ k # p
    BY <1>5, <2>1
  <2>. QED
    BY <1>1, <2>2 DEF Has, NoTwice
<1>8. ASSUME NEW x, Has(l, x), x # i PROVE Has(m, x)
  <2>1. PICK k \in DOMAIN l : l[k] = x
    BY <1>8 DEF Has
  <2>2. k # p
    BY <1>1, <1>8, <2>1
  <2>3. k \in Int /\ p \in Int /\ 1 <= k /\ k <= Len(l) /\ 1 <= p /\ p <= Len(l)
    BY <1>1, <1>2
  <2>4. CASE k < p
    <3>1. k \in DOMAIN m
      BY <1>2, <1>4, <2>3, <2>4
    <3>2. m[k] = l[k]
      BY <1>5, <2>4, <3>1
    <3>. QED
      BY <2>1, <3>1, <3>2 DEF Has
  <2>5. CASE ~(k < p)
    <3>1. k - 1 \in DOMAIN m /\ ~(k - 1 < p) /\ (k - 1) + 1 = k
      BY <1>2, <1>4, <2>2, <2>3, <2>5
    <3>2. m[k - 1] = l[k]
      BY <1>5, <3>1
    <3>. QED
      BY <2>1, <3>1, <3>2 DEF Has
  <2>. QED
    BY <2>4, <2>5
<1>. QED
  BY <1>6, <1>7, <1>8 DEF m

Belongs(b, i) == Exists(i) /\ ~BeingRemoved(i) /\ BlockNow(i) = b

\* An object at rest, or an id of no object, is not being removed.
LEMMA RestNotRemoved ==
  ASSUME Inv, NEW i \in Ids, ~Exists(i) \/ AtRest(i)
  PROVE  ~BeingRemoved(i)
<1>1. FramesOn(i) = {}
  BY FramesKeepAlive DEF Inv
<1>. QED
  BY <1>1 DEF FramesOn, BeingRemoved

\* An object is being removed after a push if it was, or the frame removes it.
LEMMA PushRemoved ==
  ASSUME Inv, NEW f \in Frame, stack' = Append(stack, f), NEW i
  PROVE  BeingRemoved(i)' <=> BeingRemoved(i) \/ (f.kind = "remove" /\ f.id = i)
<1>1. /\ DOMAIN stack = 1 .. Len(stack) /\ Len(stack) \in Nat
      /\ DOMAIN stack' = 1 .. Len(stack) + 1
      /\ \A k \in DOMAIN stack : stack'[k] = stack[k]
      /\ stack'[Len(stack) + 1] = f
  BY DEF Inv, TypeOK
<1>2. \A k \in DOMAIN stack' : k \in DOMAIN stack \/ k = Len(stack) + 1
  BY <1>1
<1>3. DOMAIN stack \subseteq DOMAIN stack' /\ Len(stack) + 1 \in DOMAIN stack'
  BY <1>1
<1>. QED
  BY <1>1, <1>2, <1>3 DEF BeingRemoved

\* A pop that does not end the removal of an object leaves it as it was.
LEMMA PopRemoved ==
  ASSUME Inv, stack # << >>, stack' = Pop(stack), NEW i,
         Top.kind = "remove" => Top.id # i
  PROVE  BeingRemoved(i)' <=> BeingRemoved(i)
<1>1. /\ Len(stack) \in DOMAIN stack
      /\ DOMAIN stack' = DOMAIN stack \ {Len(stack)}
      /\ \A k \in DOMAIN stack' : stack'[k] = stack[k]
  BY PopProperties DEF Inv, TypeOK
<1>. QED
  BY <1>1 DEF BeingRemoved, Top

\* ListsExact in the terms above.
LEMMA ListsExactMeans ==
  ListsExact <=> \A b \in Blocks : /\ NoTwice(lists[b])
                                   /\ \A i \in Ids : Has(lists[b], i) <=> Belongs(b, i)
BY DEF ListsExact, NoTwice, Has, Belongs, Listed

\* Steps that move nothing.
LEMMA ListsUnmoved ==
  ASSUME ListsExact, UNCHANGED lists,
         \A b \in Blocks, i \in Ids : Belongs(b, i)' <=> Belongs(b, i)
  PROVE  ListsExact'
BY DEF ListsExact, Belongs, Listed

\* A new object goes on the list of its block and on no other.
LEMMA CreateLists ==
  ASSUME Inv, ListsExact, NEW i \in Ids, ~Exists(i), NEW c \in Classes, NEW v \in Vals,
         Create(i, c, v)
  PROVE  ListsExact'
<1>. DEFINE f == [kind |-> "change", id |-> i]
            a == BlockOf[c]
<1>1. f \in Frame /\ f.kind # "remove" /\ stack' = Append(stack, f)
  BY DEF Create, Open, Frame
<1>2. \A j \in Ids : BeingRemoved(j)' <=> BeingRemoved(j)
  BY <1>1, PushRemoved
<1>3. /\ obj'[i] # Absent /\ obj'[i].cls = c
      /\ \A j \in Ids \ {i} : obj'[j] = obj[j]
  <2>1. obj'[i] = [cls |-> c, tag |-> clock + 1, val |-> v, changes |-> 1]
    BY DEF Create, Inv, TypeOK
  <2>2. obj'[i] \in Object
    BY <2>1 DEF Object, Inv, TypeOK
  <2>. QED
    BY <2>1, <2>2, AbsentAssumption DEF Create, Inv, TypeOK
<1>4. \A b \in Blocks : Belongs(b, i)' <=> b = a
  BY <1>2, <1>3, RestNotRemoved DEF Belongs, Exists, BlockNow
<1>5. \A b \in Blocks, j \in Ids \ {i} : Belongs(b, j)' <=> Belongs(b, j)
  BY <1>2, <1>3 DEF Belongs, Exists, BlockNow
<1>6. a \in Blocks /\ lists' = [lists EXCEPT ![a] = Append(@, i)]
  BY BlockAssumption DEF Create
<1>7. \A b \in Blocks : ~Belongs(b, i)
  BY DEF Belongs
<1>. HIDE DEF a, f
<1>8. SUFFICES ASSUME NEW b \in Blocks
               PROVE  /\ NoTwice(lists'[b])
                      /\ \A j \in Ids : Has(lists'[b], j) <=> Belongs(b, j)'
  BY DEF ListsExact, NoTwice, Has, Belongs, Listed
<1>9. /\ NoTwice(lists[b]) /\ lists[b] \in Seq(Ids)
      /\ \A j \in Ids : Has(lists[b], j) <=> Belongs(b, j)
  BY ListsExactMeans DEF Inv, TypeOK
<1>10. CASE b = a
  <2>1. lists'[b] = Append(lists[b], i)
    BY <1>6, <1>10 DEF Inv, TypeOK
  <2>2. /\ NoTwice(lists'[b])
        /\ \A x : Has(lists'[b], x) <=> Has(lists[b], x) \/ x = i
    BY <1>7, <1>9, <2>1, AppendElements
  <2>. QED
    BY <1>4, <1>5, <1>9, <1>10, <2>2
<1>11. CASE b # a
  <2>1. lists'[b] = lists[b]
    BY <1>6, <1>11 DEF Inv, TypeOK
  <2>. QED
    BY <1>4, <1>5, <1>7, <1>9, <1>11, <2>1
<1>. QED
  BY <1>10, <1>11

\* An object whose removal starts leaves its list.
LEMMA DestroyLists ==
  ASSUME Inv, ListsExact, NEW i \in Ids, Destroy(i)
  PROVE  ListsExact'
<1>. DEFINE f == [kind |-> "remove", id |-> i]
            a == BlockNow(i)
<1>1. f \in Frame /\ f.kind = "remove" /\ f.id = i /\ stack' = Append(stack, f)
  BY DEF Destroy, Frame
<1>2. \A j \in Ids \ {i} : (BeingRemoved(j)' <=> BeingRemoved(j))
  BY <1>1, PushRemoved
<1>3. BeingRemoved(i)'
  BY <1>1, PushRemoved
<1>4. \A j \in Ids \ {i} : obj'[j] = obj[j]
  BY DEF Destroy, Inv, TypeOK
<1>5. AtRest(i) /\ obj[i] \in Object /\ ~BeingRemoved(i)
  BY RestNotRemoved DEF Destroy, AtRest, Exists, Inv, TypeOK
<1>6. \A b \in Blocks : ~Belongs(b, i)'
  BY <1>3 DEF Belongs
<1>7. \A b \in Blocks, j \in Ids \ {i} : Belongs(b, j)' <=> Belongs(b, j)
  BY <1>2, <1>4 DEF Belongs, Exists, BlockNow
<1>8. \A b \in Blocks : Belongs(b, i) <=> b = a
  BY <1>5 DEF Belongs, AtRest
<1>9. a \in Blocks /\ lists' = [lists EXCEPT ![a] = Without(@, i)]
  BY <1>5, BlockAssumption DEF Destroy, BlockNow, Object
<1>. HIDE DEF a, f
<1>10. SUFFICES ASSUME NEW b \in Blocks
                PROVE  /\ NoTwice(lists'[b])
                       /\ \A j \in Ids : Has(lists'[b], j) <=> Belongs(b, j)'
  BY DEF ListsExact, NoTwice, Has, Belongs, Listed
<1>11. /\ NoTwice(lists[b]) /\ lists[b] \in Seq(Ids)
       /\ \A j \in Ids : Has(lists[b], j) <=> Belongs(b, j)
  BY ListsExactMeans DEF Inv, TypeOK
<1>12. CASE b = a
  <2>1. lists'[b] = Without(lists[b], i)
    BY <1>9, <1>12 DEF Inv, TypeOK
  <2>2. /\ NoTwice(lists'[b])
        /\ \A x : Has(lists'[b], x) <=> Has(lists[b], x) /\ x # i
    BY <1>8, <1>11, <1>12, <2>1, WithoutElements
  <2>. QED
    BY <1>6, <1>7, <1>11, <2>2
<1>13. CASE b # a
  <2>1. lists'[b] = lists[b]
    BY <1>9, <1>13 DEF Inv, TypeOK
  <2>. QED
    BY <1>6, <1>7, <1>8, <1>11, <1>13, <2>1
<1>. QED
  BY <1>12, <1>13

\* A specialized object leaves the old list and goes on the new one.
LEMMA SpecializeLists ==
  ASSUME Inv, ListsExact, NEW i \in Ids, NEW c \in Classes, Specialize(i, c)
  PROVE  ListsExact'
<1>. DEFINE f == [kind |-> "change", id |-> i]
            a == BlockNow(i)
            n == BlockOf[c]
            off == [lists EXCEPT ![a] = Without(@, i)]
<1>1. f \in Frame /\ f.kind # "remove" /\ stack' = Append(stack, f)
  BY DEF Specialize, Open, Frame
<1>2. \A j \in Ids : BeingRemoved(j)' <=> BeingRemoved(j)
  BY <1>1, PushRemoved
<1>3. AtRest(i) /\ obj[i] \in Object /\ ~BeingRemoved(i)
  BY RestNotRemoved DEF Specialize, AtRest, Exists, Inv, TypeOK
<1>4. obj'[i] # Absent /\ obj'[i].cls = c /\ \A j \in Ids \ {i} : obj'[j] = obj[j]
  <2>. DEFINE o == [obj[i] EXCEPT !.cls = c, !.changes = 1, !.tag = clock + 1]
  <2>1. obj' = [obj EXCEPT ![i] = o]
    BY DEF Specialize
  <2>2. o.cls = c
    BY <1>3 DEF Object
  <2>3. o \in Object
    <3>1. clock + 1 \in Nat
      BY DEF Inv, TypeOK
    <3>. QED
      BY <1>3, <3>1 DEF Object
  <2>. HIDE DEF o
  <2>. QED
    BY <2>1, <2>2, <2>3, AbsentAssumption DEF Inv, TypeOK
<1>5. \A b \in Blocks : Belongs(b, i)' <=> b = n
  BY <1>2, <1>3, <1>4 DEF Belongs, Exists, BlockNow
<1>6. \A b \in Blocks, j \in Ids \ {i} : Belongs(b, j)' <=> Belongs(b, j)
  BY <1>2, <1>4 DEF Belongs, Exists, BlockNow
<1>7. \A b \in Blocks : Belongs(b, i) <=> b = a
  BY <1>3 DEF Belongs, AtRest
<1>8. a \in Blocks /\ n \in Blocks
  BY <1>3, BlockAssumption DEF BlockNow, Object
<1>9. lists' = [off EXCEPT ![n] = Append(@, i)]
  BY DEF Specialize
<1>10. \A b \in Blocks :
         /\ lists[b] \in Seq(Ids) /\ NoTwice(lists[b])
         /\ \A j \in Ids : Has(lists[b], j) <=> Belongs(b, j)
  BY ListsExactMeans DEF Inv, TypeOK
<1>11. off \in [Blocks -> Seq(Ids)]
  BY <1>8, <1>10, WithoutType DEF Inv, TypeOK
<1>12. \A b \in Blocks :
         /\ NoTwice(off[b])
         /\ \A j \in Ids : Has(off[b], j) <=> Belongs(b, j) /\ j # i
  <2>. SUFFICES ASSUME NEW b \in Blocks
                PROVE  /\ NoTwice(off[b])
                       /\ \A j \in Ids : Has(off[b], j) <=> Belongs(b, j) /\ j # i
    OBVIOUS
  <2>1. CASE b = a
    <3>1. off[b] = Without(lists[b], i)
      BY <1>8, <2>1 DEF Inv, TypeOK
    <3>2. NoTwice(lists[b]) /\ Has(lists[b], i) /\ lists[b] \in Seq(Ids)
      BY <1>7, <1>10, <2>1
    <3>3. NoTwice(off[b]) /\ \A x : Has(off[b], x) <=> Has(lists[b], x) /\ x # i
      BY <3>1, <3>2, WithoutElements
    <3>. QED
      BY <1>10, <3>3
  <2>2. CASE b # a
    <3>1. off[b] = lists[b]
      BY <1>8, <2>2 DEF Inv, TypeOK
    <3>. QED
      BY <1>7, <1>10, <2>2, <3>1
  <2>. QED
    BY <2>1, <2>2
<1>. HIDE DEF off, a, n, f
<1>13. SUFFICES ASSUME NEW b \in Blocks
                PROVE  /\ NoTwice(lists'[b])
                       /\ \A j \in Ids : Has(lists'[b], j) <=> Belongs(b, j)'
  BY DEF ListsExact, NoTwice, Has, Belongs, Listed
<1>14. CASE b = n
  <2>1. lists'[b] = Append(off[b], i)
    BY <1>8, <1>9, <1>11, <1>14
  <2>2. NoTwice(off[b]) /\ ~Has(off[b], i) /\ off[b] \in Seq(Ids)
    BY <1>11, <1>12
  <2>3. NoTwice(lists'[b]) /\ \A x : Has(lists'[b], x) <=> Has(off[b], x) \/ x = i
    BY <2>1, <2>2, AppendElements
  <2>. QED
    BY <1>5, <1>6, <1>12, <1>14, <2>3
<1>15. CASE b # n
  <2>1. lists'[b] = off[b]
    BY <1>8, <1>9, <1>11, <1>15
  <2>. QED
    BY <1>5, <1>6, <1>12, <1>15, <2>1
<1>. QED
  BY <1>14, <1>15

\* A step that replaces the object of one id by one of the same class, and
\* pushes or pops a frame that is not a removal.
LEMMA SameClassLists ==
  ASSUME Inv, ListsExact, UNCHANGED lists, NEW i \in Ids, NEW o \in Object,
         Exists(i), o.cls = obj[i].cls, obj' = [obj EXCEPT ![i] = o],
         \A j \in Ids : BeingRemoved(j)' <=> BeingRemoved(j)
  PROVE  ListsExact'
<1>1. obj'[i] = o /\ o # Absent /\ \A j \in Ids \ {i} : obj'[j] = obj[j]
  BY AbsentAssumption DEF Inv, TypeOK
<1>2. \A b \in Blocks, j \in Ids : Belongs(b, j)' <=> Belongs(b, j)
  BY <1>1 DEF Belongs, Exists, BlockNow
<1>. QED
  BY <1>2, ListsUnmoved

\* Every step keeps the lists exact.
LEMMA ListsNext ==
  ASSUME Inv, ListsExact, [Next]_wmVars
  PROVE  ListsExact'
<1>1. CASE UNCHANGED wmVars
  BY <1>1 DEF wmVars, ListsExact, Listed, Exists, BeingRemoved, BlockNow
<1>2. ASSUME NEW i \in Ids, NEW c \in Classes, Make(i, c) PROVE ListsExact'
  BY <1>2, CreateLists, ValAssumption DEF Make
<1>3. ASSUME NEW i \in Ids, NEW old \in Ids, Copy(old, i) PROVE ListsExact'
  <2>1. obj[old] \in Object
    BY <1>3 DEF Copy, AtRest, Exists, Inv, TypeOK
  <2>2. obj[old].cls \in Classes /\ obj[old].val \in Vals
    BY <2>1 DEF Object
  <2>. QED
    BY <1>3, <2>2, CreateLists DEF Copy
<1>4. ASSUME NEW i \in Ids, OldReturned(i) \/ Modify(i) PROVE ListsExact'
  <2>. DEFINE f == [kind |-> "change", id |-> i]
              p == [obj[i] EXCEPT !.changes = @ + 1]
              q == [obj[i] EXCEPT !.changes = 1, !.tag = clock + 1]
  <2>1. Exists(i) /\ obj[i] \in Object /\ clock + 1 \in Nat /\ UNCHANGED lists
    BY <1>4 DEF OldReturned, Modify, Inv, TypeOK, Exists
  <2>2. p \in Object
    BY <2>1 DEF Object
  <2>3. q \in Object
    BY <2>1 DEF Object
  <2>4. p.cls = obj[i].cls /\ q.cls = obj[i].cls
    BY <2>1 DEF Object
  <2>5. obj' = [obj EXCEPT ![i] = p] \/ obj' = [obj EXCEPT ![i] = q]
    BY <1>4 DEF OldReturned, Modify
  <2>6. f \in Frame /\ f.kind # "remove" /\ stack' = Append(stack, f)
    BY <1>4 DEF OldReturned, Modify, Open, Frame
  <2>. HIDE DEF f, p, q
  <2>7. \A j \in Ids : BeingRemoved(j)' <=> BeingRemoved(j)
    BY <2>6, PushRemoved
  <2>. QED
    BY <2>1, <2>2, <2>3, <2>4, <2>5, <2>7, SameClassLists
<1>5. ASSUME NEW i \in Ids, NEW v \in Vals, SetVal(i, v) PROVE ListsExact'
  <2>. DEFINE w == IF obj[i].changes = 1 THEN v ELSE obj[i].val
              o == [obj[i] EXCEPT !.val = w]
  <2>1. Exists(i) /\ obj[i] \in Object
    BY <1>5, TopLive DEF SetVal
  <2>2. w \in Vals
    BY <2>1 DEF Object
  <2>3. obj' = [obj EXCEPT ![i] = o] /\ UNCHANGED <<lists, stack>>
    BY <1>5 DEF SetVal
  <2>. HIDE DEF w
  <2>4. o \in Object /\ o.cls = obj[i].cls
    BY <2>1, <2>2 DEF Object
  <2>. HIDE DEF o
  <2>5. \A j \in Ids : BeingRemoved(j)' <=> BeingRemoved(j)
    BY <2>3 DEF BeingRemoved
  <2>. QED
    BY <2>1, <2>3, <2>4, <2>5, SameClassLists
<1>6. ASSUME NEW i \in Ids, UpdateAndNotify(i) PROVE ListsExact'
  <2>. DEFINE o == [obj[i] EXCEPT !.changes = @ - 1]
  <2>1. /\ Exists(i) /\ obj[i] \in Object /\ obj[i].changes \in Nat \ {0}
        /\ stack # << >> /\ Top.kind = "change"
    BY <1>6, TopLive DEF UpdateAndNotify
  <2>2. o \in Object /\ o.cls = obj[i].cls
    BY <2>1 DEF Object
  <2>3. obj' = [obj EXCEPT ![i] = o] /\ stack' = Pop(stack) /\ UNCHANGED lists
    BY <1>6 DEF UpdateAndNotify
  <2>. HIDE DEF o
  <2>4. \A j \in Ids : BeingRemoved(j)' <=> BeingRemoved(j)
    BY <2>1, <2>3, PopRemoved
  <2>. QED
    BY <2>1, <2>2, <2>3, <2>4, SameClassLists
<1>7. ASSUME NEW i \in Ids, DestroyObject(i) PROVE ListsExact'
  <2>1. stack # << >> /\ Top.id = i /\ Top.kind = "remove"
    BY <1>7, TopLive DEF DestroyObject
  <2>2. obj' = [obj EXCEPT ![i] = Absent] /\ stack' = Pop(stack) /\ UNCHANGED lists
    BY <1>7 DEF DestroyObject
  <2>3. \A j \in Ids \ {i} : (BeingRemoved(j)' <=> BeingRemoved(j)) /\ obj'[j] = obj[j]
    BY <2>1, <2>2, PopRemoved DEF Inv, TypeOK
  <2>4. BeingRemoved(i)
    BY <2>1, PopProperties DEF BeingRemoved, Top, Inv, TypeOK
  <2>5. ~Exists(i)'
    BY <2>2 DEF Exists, Inv, TypeOK
  <2>6. \A b \in Blocks, j \in Ids : Belongs(b, j)' <=> Belongs(b, j)
    BY <2>3, <2>4, <2>5 DEF Belongs, Exists, BlockNow
  <2>. QED
    BY <2>2, <2>6, ListsUnmoved
<1>. QED
  BY <1>1, <1>2, <1>3, <1>4, <1>5, <1>6, <1>7, SpecializeLists, DestroyLists DEF Next

\* The lists the iterators walk hold working memory: every object that is not
\* being removed, once, under the block of its class.
THEOREM ListsHoldWorkingMemory == Spec => []ListsExact
<1>1. Init => ListsExact
  BY DEF Init, ListsExact, Listed, Exists
<1>. QED
  BY <1>1, InvInit, InvNext, ListsNext, PTL DEF Spec

-----------------------------------------------------------------------------
(* Propagation.                                                            *)

(* The queue of one ruling block, for any objects o and clock t.            *)

Resting(o, i) == o[i] # Absent /\ o[i].changes = 0
Matters(o, i, rb) == Resting(o, i) /\ BlockOf[o[i].cls] \in Scope[rb]

\* Of every program.  A delta is hashed as long as it has no snapshot, and then
\* announces an object at rest as it is; no object is announced twice.
Announces(de, o, rb) ==
  /\ de.sign = Positive
  /\ Matters(o, de.id, rb)
  /\ de.tag = o[de.id].tag

QueueSound(q, o, t, rb) ==
  /\ \A k \in DOMAIN q :
       /\ q[k].tag <= t
       /\ q[k].hashed <=> q[k].snap = NoSnapshot
       /\ q[k].hashed => Announces(q[k], o, rb)
  /\ \A j, k \in DOMAIN q :
       q[j].hashed /\ q[k].hashed /\ q[j].id = q[k].id => j = k

\* Of disciplined programs.  Every positive delta is hashed and so new that it
\* can be cancelled; a negative delta comes before the positive one of its
\* object and speaks of an object out of sight if it is alone.
Cancellable(q, last) ==
  \A k \in DOMAIN q : q[k].sign = Positive => q[k].hashed /\ q[k].tag > last

Paired(q) ==
  \A j, k \in DOMAIN q : q[j].id = q[k].id /\ j < k =>
    q[j].sign = Negative /\ q[k].sign = Positive

Reannounced(q, o, rb) ==
  \A j \in DOMAIN q : q[j].sign = Negative /\ Matters(o, q[j].id, rb) =>
    \E k \in DOMAIN q : q[k].id = q[j].id /\ q[k].sign = Positive

\* The tokens of Believed, for any queue and objects.
Withdraws(q, t) ==
  \E k \in DOMAIN q : /\ q[k].id = t.id /\ q[k].sign = Negative
                      /\ q[k].snap = Snapshot(t)
Shows(q, o, rb, t) ==
  \/ Withdraws(q, t)
  \/ /\ \A k \in DOMAIN q : q[k].id # t.id
     /\ Matters(o, t.id, rb)
     /\ t = TokenOf(t.id, o[t.id])
Lags(n, q, o, rb) == \A t \in Token : n[t] = IF Shows(q, o, rb, t) THEN 1 ELSE 0

QueueExact(q, last, n, o, rb) ==
  /\ Cancellable(q, last)
  /\ Paired(q)
  /\ Reannounced(q, o, rb)
  /\ Lags(n, q, o, rb)

-----------------------------------------------------------------------------
(* The invariant.                                                          *)

WmInv == Inv /\ TagsDistinct /\ ListsExact

\* Only the innermost run updates networks, and time stands still meanwhile.
RunsSound ==
  \A k \in DOMAIN runs :
    /\ k < Len(runs) => runs[k].pc = "rhs"
    /\ runs[k].pc = "update" => runs[k].target = clock

QueuesSound ==
  \A rb \in RulingBlocks :
    IF Registered(rb)
    THEN /\ rblocks[rb].last <= clock
         /\ QueueSound(rblocks[rb].queue, obj, clock, rb)
    ELSE net[rb] = NoTokens

\* A change that is open on an object in scope began after the registration,
\* unless it removes the object.
OpenSince(rb) ==
  \A i \in Ids :
    Exists(i) /\ ~AtRest(i) /\ BlockNow(i) \in Scope[rb] =>
      obj[i].tag > rblocks[rb].last \/ BeingRemoved(i)

QueuesExact ==
  disciplined => \A rb \in RulingBlocks : Registered(rb) =>
    OpenSince(rb) /\ QueueExact(rblocks[rb].queue, rblocks[rb].last, net[rb], obj, rb)

InvP == WmInv /\ TypeOKP /\ UsesMatchRuns /\ RunsSound /\ QueuesSound /\ QueuesExact

-----------------------------------------------------------------------------
(* What an operation does to a queue.                                      *)

LEMMA ElementFields ==
  ASSUME NEW q \in Seq(Element), NEW k \in DOMAIN q
  PROVE  /\ q[k] \in Element /\ q[k].sign \in {Positive, Negative} /\ q[k].id \in Ids
         /\ q[k].tag \in Int /\ q[k].hashed \in BOOLEAN
<1>1. q[k] \in Element
  OBVIOUS
<1>. QED
  BY <1>1 DEF Element

LEMMA Withdrawal ==
  ASSUME NEW i \in Ids, NEW o \in Object, NEW e, e = MakeElement(Negative, i, o)
  PROVE  /\ e \in Element /\ e.id = i /\ e.tag = o.tag /\ e.sign = Negative
         /\ ~e.hashed /\ e.snap = Snapshot(o) /\ e.snap # NoSnapshot
<1>1. [cls |-> o.cls, val |-> o.val] \in [cls : Classes, val : Vals] /\ o.tag \in Nat
  BY DEF Object
<1>2. e = [sign |-> Negative, id |-> i, tag |-> o.tag, hashed |-> FALSE,
           snap |-> [cls |-> o.cls, val |-> o.val]]
  BY DEF MakeElement, Snapshot, Positive, Negative
<1>. QED
  BY <1>1, <1>2, SnapshotAssumption DEF Element, Snapshot

LEMMA Announcement ==
  ASSUME NEW i \in Ids, NEW o \in Object, NEW e, e = MakeElement(Positive, i, o)
  PROVE  /\ e \in Element /\ e.id = i /\ e.tag = o.tag /\ e.sign = Positive
         /\ e.hashed /\ e.snap = NoSnapshot
<1>1. o.tag \in Nat
  BY DEF Object
<1>2. e = [sign |-> Positive, id |-> i, tag |-> o.tag, hashed |-> TRUE,
           snap |-> NoSnapshot]
  BY DEF MakeElement, Positive, Negative
<1>. QED
  BY <1>1, <1>2 DEF Element

LEMMA HashedElements ==
  ASSUME NEW q \in Seq(Element), NEW o, NEW t, NEW rb, QueueSound(q, o, t, rb), NEW i
  PROVE  /\ \A k \in HashedAt(q, i) : HashedAt(q, i) = {k} /\ FindInDeltaHash(q, i) = k
         /\ HashedAt(q, i) # {} => Matters(o, i, rb)
<1>1. ASSUME NEW k \in HashedAt(q, i)
      PROVE  HashedAt(q, i) = {k} /\ FindInDeltaHash(q, i) = k
  <2>1. HashedAt(q, i) = {k}
    BY DEF HashedAt, QueueSound
  <2>2. k \in Int
    BY DEF HashedAt
  <2>3. Max({k}) = k
    BY <2>2 DEF Max
  <2>. QED
    BY <2>1, <2>3 DEF FindInDeltaHash
<1>. QED
  BY <1>1 DEF HashedAt, QueueSound, Announces

Detached(q, p, x) == [q EXCEPT ![p].hashed = FALSE, ![p].snap = Snapshot(x)]

\* A negative delta cancels, or detaches, or finds no hashed one of its id.
LEMMA AddNegative ==
  ASSUME NEW q \in Seq(Element), NEW o, NEW t, NEW rb, QueueSound(q, o, t, rb),
         NEW i, NEW x, NEW last,
         NEW e, e = MakeElement(Negative, i, x),
         NEW new, new = AddToQueue(q, last, Negative, i, x)
  PROVE  \/ HashedAt(q, i) = {} /\ new = Append(q, e)
         \/ \E p \in HashedAt(q, i) :
              /\ HashedAt(q, i) = {p}
              /\ IF q[p].tag > last
                 THEN new = RemoveAt(q, p)
                 ELSE new = Append(Detached(q, p, x), e)
BY HashedElements DEF AddToQueue, Compresses, Detach, Detached

LEMMA AddPositive ==
  ASSUME NEW q, NEW i, NEW x, NEW last, HashedAt(q, i) = {}
  PROVE  AddToQueue(q, last, Positive, i, x) = Append(q, MakeElement(Positive, i, x))
BY DEF AddToQueue, Compresses, Detach, Positive, Negative

-----------------------------------------------------------------------------
(* Queues stay sound.                                                      *)

\* A change to an object that no network is told of.
LEMMA SoundUntold ==
  ASSUME NEW q \in Seq(Element), NEW o, NEW t \in Int, NEW rb, QueueSound(q, o, t, rb),
         NEW i, ~Matters(o, i, rb),
         NEW o2, \A j \in Ids \ {i} : o2[j] = o[j], NEW t2 \in Int, t <= t2
  PROVE  QueueSound(q, o2, t2, rb)
<1>1. ASSUME NEW k \in DOMAIN q
      PROVE  q[k] \in Element /\ q[k].tag \in Int /\ q[k].id \in Ids
  BY ElementFields
<1>2. ASSUME NEW k \in DOMAIN q, q[k].hashed
      PROVE  Announces(q[k], o2, rb)
  BY <1>1, <1>2 DEF QueueSound, Announces, Matters, Resting
<1>. QED
  BY <1>1, <1>2 DEF QueueSound

\* An object at rest in scope opens.
LEMMA SoundWithdrawn ==
  ASSUME NEW q \in Seq(Element), NEW o, NEW t \in Int, NEW rb, QueueSound(q, o, t, rb),
         NEW i \in Ids, NEW x \in Object, x = o[i], x.tag <= t,
         NEW o2, \A j \in Ids \ {i} : o2[j] = o[j], NEW t2 \in Int, t <= t2,
         NEW last,
         NEW new, new = AddToQueue(q, last, Negative, i, x)
  PROVE  new \in Seq(Element) /\ QueueSound(new, o2, t2, rb)
<1>0. PICK e : e = MakeElement(Negative, i, x)
  OBVIOUS
<1>1. e \in Element /\ e.tag = x.tag /\ e.snap # NoSnapshot /\ ~e.hashed
  BY <1>0, Withdrawal
<1>2. ASSUME NEW k \in DOMAIN q
      PROVE  q[k] \in Element /\ q[k].tag \in Int /\ q[k].id \in Ids /\ q[k].hashed \in BOOLEAN
  BY ElementFields
<1>3. Len(q) \in Nat /\ DOMAIN q = 1 .. Len(q)
  OBVIOUS
<1>4. ASSUME NEW k \in DOMAIN q, q[k].hashed, q[k].id # i
      PROVE  Announces(q[k], o2, rb)
  BY <1>2, <1>4 DEF QueueSound, Announces, Matters, Resting
<1>8. e.tag \in Int
  BY <1>1 DEF Object
<1>5. CASE HashedAt(q, i) = {} /\ new = Append(q, e)
  <2>1. /\ new \in Seq(Element) /\ DOMAIN new = 1 .. Len(q) + 1
        /\ \A k \in DOMAIN q : new[k] = q[k]
        /\ new[Len(q) + 1] = e
    BY <1>1, <1>3, <1>5
  <2>2. \A k \in DOMAIN q : q[k].hashed => q[k].id # i
    BY <1>5 DEF HashedAt
  <2>3. ASSUME NEW k \in DOMAIN new
        PROVE  /\ new[k].tag <= t2
               /\ new[k].hashed <=> new[k].snap = NoSnapshot
               /\ new[k].hashed => k \in DOMAIN q /\ new[k] = q[k] /\ Announces(new[k], o2, rb)
    <3>1. CASE k \in DOMAIN q
      BY <1>2, <1>4, <2>1, <2>2, <3>1 DEF QueueSound
    <3>2. CASE k = Len(q) + 1
      BY <1>1, <1>8, <2>1, <3>2
    <3>. QED
      BY <1>3, <2>1, <3>1, <3>2
  <2>. QED
    BY <2>1, <2>3 DEF QueueSound
<1>6. CASE \E p \in HashedAt(q, i) :
              /\ HashedAt(q, i) = {p}
              /\ new = RemoveAt(q, p)
  <2>1. PICK p \in HashedAt(q, i) : HashedAt(q, i) = {p} /\ new = RemoveAt(q, p)
    BY <1>6
  <2>2. p \in DOMAIN q
    BY DEF HashedAt
  <2>3. /\ new \in Seq(Element) /\ DOMAIN new = 1 .. Len(q) - 1
        /\ \A n \in DOMAIN new : new[n] = IF n < p THEN q[n] ELSE q[n + 1]
    BY <2>1, <2>2, TakenOut
  <2>4. \A k \in DOMAIN q : q[k].hashed /\ k # p => q[k].id # i
    BY <2>1 DEF HashedAt
  <2>5. ASSUME NEW n \in DOMAIN new
        PROVE  \E k \in DOMAIN q : k # p /\ new[n] = q[k]
    BY <1>3, <2>2, <2>3
  <2>6. ASSUME NEW m \in DOMAIN new, NEW n \in DOMAIN new,
               new[m].hashed, new[n].hashed, new[m].id = new[n].id
        PROVE  m = n
    <3>. DEFINE at(k) == IF k < p THEN k ELSE k + 1
    <3>1. at(m) \in DOMAIN q /\ at(n) \in DOMAIN q /\ new[m] = q[at(m)] /\ new[n] = q[at(n)]
      BY <1>3, <2>2, <2>3
    <3>2. at(m) = at(n)
      BY <2>6, <3>1 DEF QueueSound
    <3>. QED
      BY <1>3, <2>2, <2>3, <3>2
  <2>. QED
    BY <1>2, <1>4, <2>3, <2>4, <2>5, <2>6 DEF QueueSound
<1>7. CASE \E p \in HashedAt(q, i) :
              /\ HashedAt(q, i) = {p}
              /\ new = Append(Detached(q, p, x), e)
  <2>1. PICK p \in HashedAt(q, i) :
              /\ HashedAt(q, i) = {p}
              /\ new = Append(Detached(q, p, x), e)
    BY <1>7
  <2>2. p \in DOMAIN q
    BY DEF HashedAt
  <2>3. Snapshot(x) \in [cls : Classes, val : Vals]
    BY DEF Snapshot, Object
  <2>10. PICK dp : dp = [q[p] EXCEPT !.hashed = FALSE, !.snap = Snapshot(x)]
    OBVIOUS
  <2>4. dp \in Element /\ ~dp.hashed /\ dp.snap # NoSnapshot /\ dp.tag = q[p].tag
    BY <1>2, <2>2, <2>3, <2>10, SnapshotAssumption DEF Element
  <2>11. PICK d : d = Detached(q, p, x)
    OBVIOUS
  <2>5. d = [q EXCEPT ![p] = dp]
    BY <2>2, <2>10, <2>11 DEF Detached
  <2>6. /\ d \in Seq(Element) /\ Len(d) = Len(q)
        /\ \A k \in DOMAIN q : d[k] = IF k = p THEN dp ELSE q[k]
    BY <1>3, <2>2, <2>4, <2>5, PlaceReplaced
  <2>7. /\ new \in Seq(Element) /\ DOMAIN new = 1 .. Len(q) + 1
        /\ \A k \in DOMAIN q : new[k] = IF k = p THEN dp ELSE q[k]
        /\ new[Len(q) + 1] = e
    BY <1>1, <1>3, <2>1, <2>6, <2>11
  <2>8. \A k \in DOMAIN q : q[k].hashed /\ k # p => q[k].id # i
    BY <2>1 DEF HashedAt
  <2>9. ASSUME NEW k \in DOMAIN new
        PROVE  /\ new[k].tag <= t2
               /\ new[k].hashed <=> new[k].snap = NoSnapshot
               /\ new[k].hashed => k \in DOMAIN q /\ new[k] = q[k] /\ Announces(new[k], o2, rb)
    <3>1. CASE k \in DOMAIN q \ {p}
      BY <1>2, <1>4, <2>7, <2>8, <3>1 DEF QueueSound
    <3>2. CASE k = p
      BY <1>2, <2>2, <2>4, <2>7, <3>2 DEF QueueSound
    <3>3. CASE k = Len(q) + 1
      BY <1>1, <1>8, <2>7, <3>3
    <3>. QED
      BY <1>3, <2>7, <3>1, <3>2, <3>3
  <2>. QED
    BY <2>7, <2>9 DEF QueueSound
<1>9. \/ HashedAt(q, i) = {} /\ new = Append(q, e)
      \/ \E p \in HashedAt(q, i) :
           /\ HashedAt(q, i) = {p}
           /\ IF q[p].tag > last
              THEN new = RemoveAt(q, p)
              ELSE new = Append(Detached(q, p, x), e)
  BY <1>0, AddNegative
<1>. QED
  BY <1>5, <1>6, <1>7, <1>9

\* An object comes to rest in scope.
LEMMA SoundPublished ==
  ASSUME NEW q \in Seq(Element), NEW o, NEW t \in Int, NEW rb, QueueSound(q, o, t, rb),
         NEW i \in Ids, NEW x \in Object, x = o[i], x.tag <= t, ~Resting(o, i),
         NEW o2, \A j \in Ids \ {i} : o2[j] = o[j], NEW t2 \in Int, t <= t2,
         Matters(o2, i, rb), o2[i].tag = x.tag,
         NEW e, e = MakeElement(Positive, i, x),
         NEW new, new = Append(q, e)
  PROVE  new \in Seq(Element) /\ QueueSound(new, o2, t2, rb)
<1>1. /\ e \in Element /\ e.tag = x.tag /\ e.snap = NoSnapshot /\ e.hashed
      /\ e.id = i /\ e.sign = Positive
  BY Announcement
<1>2. ASSUME NEW k \in DOMAIN q
      PROVE  q[k] \in Element /\ q[k].tag \in Int /\ q[k].id \in Ids /\ q[k].hashed \in BOOLEAN
  BY ElementFields
<1>3. Len(q) \in Nat /\ DOMAIN q = 1 .. Len(q)
  OBVIOUS
<1>4. ASSUME NEW k \in DOMAIN q, q[k].hashed
      PROVE  q[k].id # i /\ Announces(q[k], o2, rb)
  BY <1>2, <1>4 DEF QueueSound, Announces, Matters, Resting
<1>5. Announces(e, o2, rb)
  BY <1>1 DEF Announces
<1>7. /\ new \in Seq(Element) /\ DOMAIN new = 1 .. Len(q) + 1
      /\ \A k \in DOMAIN q : new[k] = q[k]
      /\ new[Len(q) + 1] = e
  BY <1>1, <1>3
<1>8. x.tag \in Int
  BY DEF Object
<1>9. QueueSound(new, o2, t2, rb)
  <2>1. ASSUME NEW k \in DOMAIN new
        PROVE  /\ new[k].tag <= t2
               /\ new[k].hashed <=> new[k].snap = NoSnapshot
               /\ new[k].hashed => Announces(new[k], o2, rb)
               /\ k \in DOMAIN q => new[k] = q[k]
               /\ k \notin DOMAIN q => new[k].id = i /\ k = Len(q) + 1
    <3>1. CASE k \in DOMAIN q
      BY <1>2, <1>4, <1>7, <3>1 DEF QueueSound
    <3>2. CASE k = Len(q) + 1
      BY <1>1, <1>3, <1>5, <1>7, <1>8, <3>2
    <3>. QED
      BY <1>3, <1>7, <3>1, <3>2
  <2>2. ASSUME NEW j \in DOMAIN new, NEW k \in DOMAIN new,
               new[j].hashed, new[k].hashed, new[j].id = new[k].id
        PROVE  j = k
    <3>1. CASE j \in DOMAIN q /\ k \in DOMAIN q
      BY <2>1, <2>2, <3>1 DEF QueueSound
    <3>2. CASE j \notin DOMAIN q \/ k \notin DOMAIN q
      BY <1>4, <2>1, <2>2, <3>2
    <3>. QED
      BY <3>1, <3>2
  <2>. QED
    BY <2>1, <2>2 DEF QueueSound
<1>. QED
  BY <1>7, <1>9

-----------------------------------------------------------------------------
(* Networks lag by their queues.                                           *)

LEMMA TokenShown ==
  ASSUME NEW t \in Token, NEW x \in Object, NEW s \in [cls : Classes, val : Vals]
  PROVE  /\ Snapshot(t) = Snapshot(x) <=> t = TokenOf(t.id, x)
         /\ Snapshot(t) = s <=> t = [id |-> t.id, cls |-> s.cls, val |-> s.val]
BY DEF Token, Snapshot, TokenOf, Object

\* A change that is out of the network's sight before and after.
LEMMA ExactUntold ==
  ASSUME NEW q \in Seq(Element), NEW last, NEW n, NEW o, NEW rb,
         QueueExact(q, last, n, o, rb),
         NEW i, ~Matters(o, i, rb),
         NEW o2, \A j \in Ids \ {i} : o2[j] = o[j], ~Matters(o2, i, rb)
  PROVE  QueueExact(q, last, n, o2, rb)
<1>1. ASSUME NEW j \in Ids
      PROVE  /\ Matters(o2, j, rb) <=> Matters(o, j, rb)
             /\ Matters(o, j, rb) => o2[j] = o[j]
  BY DEF Matters, Resting
<1>2. Reannounced(q, o2, rb)
  BY <1>1, ElementFields DEF QueueExact, Reannounced
<1>3. ASSUME NEW t \in Token
      PROVE  Shows(q, o2, rb, t) <=> Shows(q, o, rb, t)
  <2>1. t.id \in Ids
    BY DEF Token
  <2>. QED
    BY <1>1, <2>1 DEF Shows
<1>. QED
  BY <1>2, <1>3 DEF QueueExact, Lags

\* The withdrawal of an object with an announcement in the queue cancels it.
LEMMA ExactCancelled ==
  ASSUME NEW q \in Seq(Element), NEW last, NEW n, NEW o, NEW rb,
         QueueExact(q, last, n, o, rb),
         NEW i \in Ids, NEW p \in DOMAIN q, q[p].id = i, q[p].sign = Positive,
         \A k \in HashedAt(q, i) : k = p,
         NEW o2, \A j \in Ids \ {i} : o2[j] = o[j], ~Matters(o2, i, rb),
         NEW new, new = RemoveAt(q, p)
  PROVE  QueueExact(new, last, n, o2, rb)
<1>. DEFINE at(k) == IF k < p THEN k ELSE k + 1
            to(k) == IF k < p THEN k ELSE k - 1
<1>1. Len(q) \in Nat /\ DOMAIN q = 1 .. Len(q)
  OBVIOUS
<1>2. /\ DOMAIN new = 1 .. Len(q) - 1
      /\ \A k \in DOMAIN new : new[k] = q[at(k)]
  BY <1>1, TakenOut
<1>3. /\ \A k \in DOMAIN new : at(k) \in DOMAIN q \ {p}
      /\ \A j, k \in DOMAIN new : j < k => at(j) < at(k)
      /\ \A k \in DOMAIN q \ {p} : to(k) \in DOMAIN new /\ at(to(k)) = k
  BY <1>1, <1>2
<1>4. \A k \in DOMAIN q \ {p} : to(k) \in DOMAIN new /\ new[to(k)] = q[k]
  BY <1>2, <1>3
<1>. HIDE DEF at, to
<1>5. \A k \in DOMAIN q \ {p} : q[k].sign = Positive => q[k].id # i
  BY DEF QueueExact, Cancellable, HashedAt
<1>6. Cancellable(new, last)
  BY <1>2, <1>3 DEF QueueExact, Cancellable
<1>7. Paired(new)
  BY <1>2, <1>3 DEF QueueExact, Paired
<1>8. ASSUME NEW j \in Ids
      PROVE  /\ j # i => (Matters(o2, j, rb) <=> Matters(o, j, rb)) /\ o2[j] = o[j]
  BY DEF Matters, Resting
<1>9. Reannounced(new, o2, rb)
  <2>. SUFFICES ASSUME NEW j \in DOMAIN new, new[j].sign = Negative,
                       Matters(o2, new[j].id, rb)
                PROVE  \E k \in DOMAIN new : new[k].id = new[j].id /\ new[k].sign = Positive
    BY DEF Reannounced
  <2>1. at(j) \in DOMAIN q /\ q[at(j)] = new[j] /\ new[j].id \in Ids \ {i}
    BY <1>2, <1>3, ElementFields
  <2>2. PICK k \in DOMAIN q : q[k].id = new[j].id /\ q[k].sign = Positive
    BY <1>8, <2>1 DEF QueueExact, Reannounced
  <2>. QED
    BY <1>4, <2>1, <2>2
<1>10. ASSUME NEW t \in Token
       PROVE  Shows(new, o2, rb, t) <=> Shows(q, o, rb, t)
  <2>1. t.id \in Ids
    BY DEF Token
  <2>2. Withdraws(new, t) <=> Withdraws(q, t)
    <3>1. Negative # Positive
      BY DEF Positive, Negative
    <3>. QED
      BY <1>2, <1>3, <1>4, <3>1 DEF Withdraws
  <2>3. CASE t.id = i
    BY <2>2, <2>3 DEF Shows
  <2>4. CASE t.id # i
    <3>1. (\A k \in DOMAIN new : new[k].id # t.id) <=> (\A k \in DOMAIN q : q[k].id # t.id)
      BY <1>2, <1>3, <1>4, <2>4
    <3>. QED
      BY <1>8, <2>1, <2>2, <2>4, <3>1 DEF Shows
  <2>. QED
    BY <2>3, <2>4
<1>. QED
  BY <1>6, <1>7, <1>9, <1>10 DEF QueueExact, Lags

\* A delta put behind a queue that has none of its object.
LEMMA PairedAppend ==
  ASSUME NEW q \in Seq(Element), Paired(q), NEW e \in Element,
         \A k \in DOMAIN q : q[k].id = e.id => q[k].sign = Negative /\ e.sign = Positive,
         NEW new, new = Append(q, e)
  PROVE  Paired(new) /\ new \in Seq(Element)
<1>1. Len(q) \in Nat /\ DOMAIN q = 1 .. Len(q)
  OBVIOUS
<1>2. /\ new \in Seq(Element) /\ DOMAIN new = 1 .. Len(q) + 1
      /\ \A k \in DOMAIN q : new[k] = q[k]
      /\ new[Len(q) + 1] = e
  BY <1>1
<1>3. ASSUME NEW j \in DOMAIN new, NEW k \in DOMAIN new, new[j].id = new[k].id, j < k
      PROVE  new[j].sign = Negative /\ new[k].sign = Positive
  <2>1. CASE k \in DOMAIN q
    BY <1>1, <1>2, <1>3, <2>1 DEF Paired
  <2>2. CASE k = Len(q) + 1
    BY <1>1, <1>2, <1>3, <2>2
  <2>. QED
    BY <1>1, <1>2, <2>1, <2>2
<1>. QED
  BY <1>2, <1>3 DEF Paired

\* The withdrawal of an object that the network holds.
LEMMA ExactWithdrawn ==
  ASSUME NEW q \in Seq(Element), NEW last, NEW n, NEW o, NEW rb,
         QueueExact(q, last, n, o, rb),
         NEW i \in Ids, NEW x \in Object, x = o[i], Matters(o, i, rb), HashedAt(q, i) = {},
         NEW o2, \A j \in Ids \ {i} : o2[j] = o[j], ~Matters(o2, i, rb),
         NEW e, e = MakeElement(Negative, i, x),
         NEW new, new = Append(q, e)
  PROVE  QueueExact(new, last, n, o2, rb)
<1>1. Len(q) \in Nat /\ DOMAIN q = 1 .. Len(q)
  OBVIOUS
<1>2. /\ e \in Element /\ e.id = i /\ e.sign = Negative /\ e.snap = Snapshot(x)
      /\ e.sign # Positive
  BY Withdrawal DEF Positive, Negative
<1>3. /\ DOMAIN new = 1 .. Len(q) + 1
      /\ \A k \in DOMAIN q : new[k] = q[k]
      /\ new[Len(q) + 1] = e
  BY <1>1, <1>2
<1>4. \A k \in DOMAIN q : q[k].id # i
  <2>1. \A k \in DOMAIN q : q[k].sign = Positive => q[k].id # i
    BY DEF QueueExact, Cancellable, HashedAt
  <2>2. \A k \in DOMAIN q : q[k].sign = Negative => q[k].id # i
    BY <2>1 DEF QueueExact, Reannounced
  <2>. QED
    BY <2>1, <2>2, ElementFields
<1>5. Cancellable(new, last)
  BY <1>1, <1>2, <1>3 DEF QueueExact, Cancellable
<1>6. Paired(new)
  BY <1>2, <1>4, PairedAppend DEF QueueExact
<1>7. ASSUME NEW j \in Ids
      PROVE  j # i => (Matters(o2, j, rb) <=> Matters(o, j, rb)) /\ o2[j] = o[j]
  BY DEF Matters, Resting
<1>8. Reannounced(new, o2, rb)
  <2>. SUFFICES ASSUME NEW j \in DOMAIN new, new[j].sign = Negative,
                       Matters(o2, new[j].id, rb)
                PROVE  \E k \in DOMAIN new : new[k].id = new[j].id /\ new[k].sign = Positive
    BY DEF Reannounced
  <2>1. j \in DOMAIN q /\ new[j] = q[j] /\ new[j].id \in Ids \ {i}
    BY <1>1, <1>2, <1>3, <1>4, ElementFields
  <2>2. PICK k \in DOMAIN q : q[k].id = new[j].id /\ q[k].sign = Positive
    BY <1>7, <2>1 DEF QueueExact, Reannounced
  <2>. QED
    BY <1>1, <1>3, <2>2
<1>9. ASSUME NEW t \in Token
      PROVE  Shows(new, o2, rb, t) <=> Shows(q, o, rb, t)
  <2>1. t.id \in Ids
    BY DEF Token
  <2>2. CASE t.id = i
    <3>1. Withdraws(new, t) <=> Snapshot(t) = Snapshot(x)
      BY <1>1, <1>2, <1>3, <1>4, <2>2 DEF Withdraws
    <3>2. ~Withdraws(q, t) /\ (\A k \in DOMAIN q : q[k].id # t.id)
      BY <1>4, <2>2 DEF Withdraws
    <3>3. Shows(q, o, rb, t) <=> t = TokenOf(t.id, x)
      BY <2>2, <3>2 DEF Shows
    <3>4. Shows(new, o2, rb, t) <=> Snapshot(t) = Snapshot(x)
      BY <2>2, <3>1 DEF Shows
    <3>5. Snapshot(t) = Snapshot(x) <=> t = TokenOf(t.id, x)
      BY DEF Token, Snapshot, TokenOf, Object
    <3>. QED
      BY <3>3, <3>4, <3>5
  <2>3. CASE t.id # i
    <3>1. Withdraws(new, t) <=> Withdraws(q, t)
      BY <1>1, <1>2, <1>3, <2>3 DEF Withdraws
    <3>2. (\A k \in DOMAIN new : new[k].id # t.id) <=> (\A k \in DOMAIN q : q[k].id # t.id)
      BY <1>1, <1>2, <1>3, <2>3
    <3>. QED
      BY <1>7, <2>1, <2>3, <3>1, <3>2 DEF Shows
  <2>. QED
    BY <2>2, <2>3
<1>. QED
  BY <1>5, <1>6, <1>8, <1>9 DEF QueueExact, Lags

\* The publication of an object that came to rest.
LEMMA ExactPublished ==
  ASSUME NEW q \in Seq(Element), NEW last, NEW n, NEW o, NEW rb,
         QueueExact(q, last, n, o, rb),
         NEW i \in Ids, HashedAt(q, i) = {}, NEW x \in Object, ~Matters(o, i, rb), x.tag > last,
         NEW o2, \A j \in Ids \ {i} : o2[j] = o[j],
         NEW e, e = MakeElement(Positive, i, x),
         NEW new, new = Append(q, e)
  PROVE  QueueExact(new, last, n, o2, rb)
<1>1. Len(q) \in Nat /\ DOMAIN q = 1 .. Len(q)
  OBVIOUS
<1>2. /\ e \in Element /\ e.id = i /\ e.sign = Positive /\ e.tag = x.tag /\ e.hashed
      /\ e.sign # Negative
  BY Announcement DEF Positive, Negative
<1>3. /\ DOMAIN new = 1 .. Len(q) + 1
      /\ \A k \in DOMAIN q : new[k] = q[k]
      /\ new[Len(q) + 1] = e
  BY <1>1, <1>2
<1>4. \A k \in DOMAIN q : q[k].id = i => q[k].sign = Negative
  BY ElementFields DEF QueueExact, Cancellable, HashedAt
<1>5. Cancellable(new, last)
  BY <1>1, <1>2, <1>3 DEF QueueExact, Cancellable
<1>6. Paired(new)
  BY <1>2, <1>4, PairedAppend DEF QueueExact
<1>7. ASSUME NEW j \in Ids
      PROVE  j # i => (Matters(o2, j, rb) <=> Matters(o, j, rb)) /\ o2[j] = o[j]
  BY DEF Matters, Resting
<1>8. Reannounced(new, o2, rb)
  <2>. SUFFICES ASSUME NEW j \in DOMAIN new, new[j].sign = Negative,
                       Matters(o2, new[j].id, rb)
                PROVE  \E k \in DOMAIN new : new[k].id = new[j].id /\ new[k].sign = Positive
    BY DEF Reannounced
  <2>1. j \in DOMAIN q /\ new[j] = q[j] /\ new[j].id \in Ids
    BY <1>1, <1>2, <1>3, ElementFields
  <2>2. CASE new[j].id = i
    BY <1>1, <1>2, <1>3, <2>2
  <2>3. CASE new[j].id # i
    <3>1. PICK k \in DOMAIN q : q[k].id = new[j].id /\ q[k].sign = Positive
      BY <1>7, <2>1, <2>3 DEF QueueExact, Reannounced
    <3>. QED
      BY <1>1, <1>3, <3>1
  <2>. QED
    BY <2>2, <2>3
<1>9. ASSUME NEW t \in Token
      PROVE  Shows(new, o2, rb, t) <=> Shows(q, o, rb, t)
  <2>1. t.id \in Ids
    BY DEF Token
  <2>2. Withdraws(new, t) <=> Withdraws(q, t)
    BY <1>1, <1>2, <1>3 DEF Withdraws
  <2>3. CASE t.id = i
    BY <1>1, <1>2, <1>3, <2>2, <2>3 DEF Shows
  <2>4. CASE t.id # i
    <3>1. (\A k \in DOMAIN new : new[k].id # t.id) <=> (\A k \in DOMAIN q : q[k].id # t.id)
      BY <1>1, <1>2, <1>3, <2>4
    <3>. QED
      BY <1>7, <2>1, <2>2, <2>4, <3>1 DEF Shows
  <2>. QED
    BY <2>3, <2>4
<1>. QED
  BY <1>5, <1>6, <1>8, <1>9 DEF QueueExact, Lags

-----------------------------------------------------------------------------
(* A delta is taken from the head of a queue.                              *)

LEMMA Rest ==
  ASSUME NEW q \in Seq(Element), q # << >>
  PROVE  /\ Tail(q) \in Seq(Element) /\ 1 \in DOMAIN q /\ Head(q) = q[1]
         /\ \A k \in DOMAIN Tail(q) : k + 1 \in DOMAIN q /\ Tail(q)[k] = q[k + 1] /\ k \in Int
         /\ \A k \in DOMAIN q \ {1} : k - 1 \in DOMAIN Tail(q) /\ Tail(q)[k - 1] = q[k]
         /\ \A k \in DOMAIN q : k \in Int /\ k >= 1
OBVIOUS

LEMMA SoundTail ==
  ASSUME NEW q \in Seq(Element), q # << >>, NEW o, NEW t, NEW rb, QueueSound(q, o, t, rb)
  PROVE  QueueSound(Tail(q), o, t, rb)
<1>1. PICK r : r = Tail(q)
  OBVIOUS
<1>2. \A k \in DOMAIN r : k + 1 \in DOMAIN q /\ r[k] = q[k + 1] /\ k \in Int
  BY <1>1, Rest
<1>3. ASSUME NEW j \in DOMAIN r, NEW k \in DOMAIN r,
             r[j].hashed, r[k].hashed, r[j].id = r[k].id
      PROVE  j = k
  <2>1. j + 1 = k + 1
    BY <1>2, <1>3 DEF QueueSound
  <2>. QED
    BY <1>2, <2>1
<1>4. QueueSound(r, o, t, rb)
  BY <1>2, <1>3 DEF QueueSound
<1>. QED
  BY <1>1, <1>4

\* What the network is given or loses is what the queue said of it.
HeadSpeaks(q, o, rb, de, tk) ==
  /\ de \in Element /\ de.id \in Ids /\ tk \in Token /\ tk.id = de.id
  /\ IF de.sign = Positive
     THEN /\ Matters(o, de.id, rb) /\ tk = TokenOf(de.id, o[de.id])
          /\ \A k \in DOMAIN q \ {1} : q[k].id # de.id
     ELSE /\ de.sign = Negative
          /\ de.snap \in [cls : Classes, val : Vals] /\ de.snap = Snapshot(tk)
          /\ \A k \in DOMAIN q \ {1} : q[k].id = de.id => q[k].sign = Positive
          /\ Matters(o, de.id, rb) => \E k \in DOMAIN q \ {1} : q[k].id = de.id

LEMMA HeadToken ==
  ASSUME NEW q \in Seq(Element), q # << >>, NEW o, NEW t, NEW rb, QueueSound(q, o, t, rb),
         NEW last, NEW n, QueueExact(q, last, n, o, rb),
         o \in [Ids -> Object \cup {Absent}],
         NEW de, de = Head(q),
         NEW seen, seen = TokenInstance(de, o[de.id]),
         NEW tk, tk = [id |-> de.id, cls |-> seen.cls, val |-> seen.val]
  PROVE  HeadSpeaks(q, o, rb, de, tk)
<1>1. /\ 1 \in DOMAIN q /\ de = q[1] /\ \A k \in DOMAIN q : k \in Int /\ k >= 1
  BY Rest
<1>2. /\ de \in Element /\ de.id \in Ids /\ de.sign \in {Positive, Negative}
      /\ de.hashed \in BOOLEAN
      /\ de.snap \in [cls : Classes, val : Vals] \cup {NoSnapshot}
  <2>1. de \in Element /\ de.id \in Ids /\ de.sign \in {Positive, Negative}
        /\ de.hashed \in BOOLEAN
    BY <1>1, ElementFields
  <2>. QED
    BY <2>1 DEF Element
<1>3. Positive # Negative
  BY DEF Positive, Negative
<1>4. CASE de.sign = Positive
  <2>1. de.hashed /\ de.snap = NoSnapshot /\ Matters(o, de.id, rb)
    BY <1>1, <1>4 DEF QueueExact, Cancellable, QueueSound, Announces
  <2>2. o[de.id] \in Object
    BY <1>2, <2>1 DEF Matters, Resting
  <2>3. seen = Snapshot(o[de.id])
    BY <2>1 DEF TokenInstance
  <2>4. tk = TokenOf(de.id, o[de.id]) /\ tk \in Token /\ tk.id = de.id
    BY <1>2, <2>2, <2>3 DEF TokenOf, Snapshot, Token, Object
  <2>5. \A k \in DOMAIN q \ {1} : q[k].id # de.id
    BY <1>1, <1>3, <1>4 DEF QueueExact, Paired
  <2>. QED
    BY <1>2, <1>4, <2>1, <2>4, <2>5 DEF HeadSpeaks
<1>5. CASE de.sign = Negative
  <2>1. ~de.hashed /\ de.snap # NoSnapshot
    BY <1>1, <1>3, <1>5 DEF QueueSound, Announces
  <2>2. seen = de.snap /\ seen \in [cls : Classes, val : Vals]
    BY <1>2, <2>1 DEF TokenInstance
  <2>3. tk \in Token /\ tk.id = de.id /\ seen = Snapshot(tk)
    BY <1>2, <2>2 DEF Snapshot, Token
  <2>4. \A k \in DOMAIN q \ {1} : q[k].id = de.id => q[k].sign = Positive
    BY <1>1 DEF QueueExact, Paired
  <2>5. Matters(o, de.id, rb) => \E k \in DOMAIN q \ {1} : q[k].id = de.id
    BY <1>1, <1>3, <1>5 DEF QueueExact, Reannounced
  <2>. QED
    BY <1>2, <1>3, <1>5, <2>2, <2>3, <2>4, <2>5 DEF HeadSpeaks
<1>. QED
  BY <1>2, <1>4, <1>5

\* Propagating a delta leaves a network that lags by the rest of the queue.
AfterToken(n, de, tk) ==
  [n EXCEPT ![tk] = IF de.sign = Positive THEN @ + 1 ELSE IF @ > 0 THEN @ - 1 ELSE @]

LEMMA AfterTokenType ==
  ASSUME NEW n \in [Token -> Nat], NEW de, NEW tk
  PROVE  AfterToken(n, de, tk) \in [Token -> Nat]
<1>1. ASSUME NEW v, v = IF de.sign = Positive THEN n[tk] + 1
                        ELSE IF n[tk] > 0 THEN n[tk] - 1 ELSE n[tk],
             tk \in Token
      PROVE  v \in Nat
  <2>1. n[tk] \in Nat
    BY <1>1
  <2>. QED
    BY <1>1, <2>1
<1>2. tk \in Token => AfterToken(n, de, tk) \in [Token -> Nat]
  BY <1>1 DEF AfterToken
<1>3. tk \notin Token => AfterToken(n, de, tk) = n
  BY DEF AfterToken
<1>. QED
  BY <1>2, <1>3

LEMMA ExactPropagated ==
  ASSUME NEW q \in Seq(Element), q # << >>, NEW o, NEW t, NEW rb, QueueSound(q, o, t, rb),
         NEW last, NEW n \in [Token -> Nat], QueueExact(q, last, n, o, rb),
         o \in [Ids -> Object \cup {Absent}],
         NEW de, de = Head(q),
         NEW seen, seen = TokenInstance(de, o[de.id]),
         NEW tk, tk = [id |-> de.id, cls |-> seen.cls, val |-> seen.val],
         NEW n2, n2 = AfterToken(n, de, tk)
  PROVE  QueueExact(Tail(q), last, n2, o, rb)
<1>1. PICK r : r = Tail(q)
  OBVIOUS
<1>2. /\ 1 \in DOMAIN q /\ de = q[1]
      /\ \A k \in DOMAIN r : k + 1 \in DOMAIN q \ {1} /\ r[k] = q[k + 1] /\ k \in Int
      /\ \A k \in DOMAIN q \ {1} : k - 1 \in DOMAIN r /\ r[k - 1] = q[k]
      /\ \A k \in DOMAIN q : k \in Int /\ k >= 1
  <2>1. \A k \in DOMAIN r : k \in Int /\ k >= 1
    BY <1>1, Rest
  <2>. QED
    BY <1>1, <2>1, Rest
<1>3. /\ de \in Element /\ de.id \in Ids /\ tk \in Token /\ tk.id = de.id
      /\ IF de.sign = Positive
         THEN /\ Matters(o, de.id, rb) /\ tk = TokenOf(de.id, o[de.id])
              /\ \A k \in DOMAIN q \ {1} : q[k].id # de.id
         ELSE /\ de.sign = Negative
              /\ de.snap \in [cls : Classes, val : Vals] /\ de.snap = Snapshot(tk)
              /\ \A k \in DOMAIN q \ {1} : q[k].id = de.id => q[k].sign = Positive
              /\ Matters(o, de.id, rb) => \E k \in DOMAIN q \ {1} : q[k].id = de.id
  BY HeadToken DEF HeadSpeaks
<1>4. Positive # Negative
  BY DEF Positive, Negative
<1>5. Cancellable(r, last)
  BY <1>2 DEF QueueExact, Cancellable
<1>6. Paired(r)
  <2>1. ASSUME NEW j \in DOMAIN r, NEW k \in DOMAIN r, r[j].id = r[k].id, j < k
        PROVE  r[j].sign = Negative /\ r[k].sign = Positive
    <3>1. j + 1 < k + 1 /\ j + 1 \in DOMAIN q /\ k + 1 \in DOMAIN q
      BY <1>2, <2>1
    <3>2. q[j + 1] = r[j] /\ q[k + 1] = r[k]
      BY <1>2
    <3>3. q[j + 1].sign = Negative /\ q[k + 1].sign = Positive
      BY <2>1, <3>1, <3>2 DEF QueueExact, Paired
    <3>. QED
      BY <3>2, <3>3
  <2>. QED
    BY <2>1 DEF Paired
<1>7. Reannounced(r, o, rb)
  <2>. SUFFICES ASSUME NEW j \in DOMAIN r, r[j].sign = Negative, Matters(o, r[j].id, rb)
                PROVE  \E k \in DOMAIN r : r[k].id = r[j].id /\ r[k].sign = Positive
    BY DEF Reannounced
  <2>1. j + 1 \in DOMAIN q \ {1} /\ q[j + 1] = r[j]
    BY <1>2
  <2>2. PICK k \in DOMAIN q : q[k].id = r[j].id /\ q[k].sign = Positive
    BY <2>1 DEF QueueExact, Reannounced
  <2>3. k # 1
    BY <1>2, <1>3, <2>1, <2>2
  <2>. QED
    BY <1>2, <2>2, <2>3
<1>8. ASSUME NEW u \in Token
      PROVE  n2[u] = IF Shows(r, o, rb, u) THEN 1 ELSE 0
  <2>1. u.id \in Ids /\ n[u] = IF Shows(q, o, rb, u) THEN 1 ELSE 0
    BY DEF Token, QueueExact, Lags
  <2>2. CASE u.id # de.id
    <3>1. u # tk /\ n2[u] = n[u]
      BY <1>3, <2>2 DEF AfterToken
    <3>2. Withdraws(r, u) <=> Withdraws(q, u)
      BY <1>2, <2>2 DEF Withdraws
    <3>3. (\A k \in DOMAIN r : r[k].id # u.id) <=> (\A k \in DOMAIN q : q[k].id # u.id)
      BY <1>2, <2>2
    <3>. QED
      BY <2>1, <3>1, <3>2, <3>3 DEF Shows
  <2>3. CASE u.id = de.id /\ de.sign = Positive
    <3>1. ~Withdraws(q, u) /\ ~Withdraws(r, u)
      BY <1>2, <1>3, <1>4, <2>3 DEF Withdraws
    <3>2. n[u] = 0
      BY <1>2, <2>1, <2>3, <3>1 DEF Shows
    <3>3. Shows(r, o, rb, u) <=> u = tk
      BY <1>2, <1>3, <2>3, <3>1 DEF Shows
    <3>. QED
      BY <1>3, <2>3, <3>2, <3>3 DEF AfterToken
  <2>4. CASE u.id = de.id /\ de.sign = Negative
    <3>1. ~Withdraws(r, u)
      BY <1>2, <1>3, <1>4, <2>4 DEF Withdraws
    <3>2. ~Shows(r, o, rb, u)
      <4>1. Matters(o, u.id, rb) => \E k \in DOMAIN r : r[k].id = u.id
        BY <1>2, <1>3, <1>4, <2>4
      <4>. QED
        BY <3>1, <4>1 DEF Shows
    <3>3. Withdraws(q, u) <=> Snapshot(tk) = Snapshot(u)
      BY <1>2, <1>3, <1>4, <2>4 DEF Withdraws
    <3>4. Snapshot(tk) = Snapshot(u) <=> tk = u
      BY <1>3, <2>4 DEF Snapshot, Token
    <3>5. Shows(q, o, rb, u) <=> tk = u
      BY <1>2, <2>4, <3>3, <3>4 DEF Shows
    <3>6. n2[u] = IF u = tk THEN IF n[u] > 0 THEN n[u] - 1 ELSE n[u] ELSE n[u]
      BY <1>3, <1>4, <2>4 DEF AfterToken
    <3>. QED
      BY <2>1, <3>2, <3>5, <3>6
  <2>. QED
    BY <1>3, <2>2, <2>3, <2>4
<1>9. QueueExact(r, last, n2, o, rb)
  BY <1>5, <1>6, <1>7, <1>8 DEF QueueExact, Lags
<1>. QED
  BY <1>1, <1>9

-----------------------------------------------------------------------------
(* The three kinds of change to working memory.                            *)

\* What the networks and the change that is open on i may rely on.
Others(i) ==
  /\ \A j \in Ids \ {i} : obj'[j] = obj[j] /\ (BeingRemoved(j) => BeingRemoved(j)')
  /\ clock <= clock'

\* The change open on i after the step began with it, or was open before it, or
\* removes the object.
OpenedNow(i) ==
  \/ ~Exists(i)'
  \/ obj'[i].tag = clock + 1
  \/ BeingRemoved(i)'
  \/ /\ Exists(i) /\ ~AtRest(i)
     /\ obj'[i].cls = obj[i].cls /\ obj'[i].tag = obj[i].tag
     /\ BeingRemoved(i) => BeingRemoved(i)'

LEMMA CreateEffect ==
  ASSUME WmInv, NEW i \in Ids, ~Exists(i), NEW c \in Classes, NEW v, Create(i, c, v)
  PROVE  Others(i) /\ OpenedNow(i) /\ ~Resting(obj, i) /\ ~Resting(obj', i)
<1>. DEFINE f == [kind |-> "change", id |-> i]
<1>1. f \in Frame /\ stack' = Append(stack, f) /\ f.kind # "remove"
  BY DEF Frame, Create, Open
<1>. HIDE DEF f
<1>2. /\ obj'[i].changes = 1 /\ obj'[i].tag = clock + 1
      /\ \A j \in Ids \ {i} : obj'[j] = obj[j]
      /\ clock' = clock + 1 /\ clock \in Nat
  BY DEF Create, WmInv, Inv, TypeOK
<1>3. \A j \in Ids : BeingRemoved(j) => BeingRemoved(j)'
  BY <1>1, PushRemoved DEF WmInv
<1>. QED
  BY <1>2, <1>3 DEF Others, OpenedNow, Resting, Exists

\* A nested change of an object is counted.
LEMMA NestEffect ==
  ASSUME WmInv, NEW i \in Ids, Exists(i), ~AtRest(i), Open(i),
         obj' = [obj EXCEPT ![i].changes = @ + 1], clock' = clock
  PROVE  Others(i) /\ OpenedNow(i) /\ ~Resting(obj, i) /\ ~Resting(obj', i)
<1>. DEFINE f == [kind |-> "change", id |-> i]
<1>1. f \in Frame /\ stack' = Append(stack, f) /\ f.kind # "remove"
  BY DEF Frame, Open
<1>. HIDE DEF f
<1>2. obj[i] \in Object /\ obj[i].changes \in Nat
  BY DEF WmInv, Inv, TypeOK, Object, Exists
<1>3. /\ obj'[i].changes = obj[i].changes + 1 /\ obj'[i].tag = obj[i].tag
      /\ obj'[i].cls = obj[i].cls
      /\ \A j \in Ids \ {i} : obj'[j] = obj[j]
      /\ clock' = clock /\ clock \in Nat
  BY <1>2 DEF WmInv, Inv, TypeOK, Object
<1>4. \A j \in Ids : BeingRemoved(j) => BeingRemoved(j)'
  BY <1>1, PushRemoved DEF WmInv
<1>. QED
  BY <1>2, <1>3, <1>4 DEF Others, OpenedNow, Resting, Exists, AtRest

LEMMA SetValEffect ==
  ASSUME WmInv, NEW i \in Ids, NEW v \in Vals, SetVal(i, v)
  PROVE  Others(i) /\ OpenedNow(i) /\ ~Resting(obj, i) /\ ~Resting(obj', i)
<1>1. Exists(i) /\ obj[i] \in Object /\ obj[i].changes \in Nat \ {0}
  BY TopLive DEF WmInv, SetVal
<1>2. /\ obj'[i].changes = obj[i].changes /\ obj'[i].tag = obj[i].tag
      /\ obj'[i].cls = obj[i].cls
      /\ \A j \in Ids \ {i} : obj'[j] = obj[j]
      /\ clock' = clock /\ clock \in Nat
  BY <1>1 DEF SetVal, WmInv, Inv, TypeOK, Object
<1>3. \A j \in Ids : BeingRemoved(j) => BeingRemoved(j)'
  BY DEF SetVal, BeingRemoved
<1>. QED
  BY <1>1, <1>2, <1>3 DEF Others, OpenedNow, Resting, Exists, AtRest

LEMMA DestroyObjectEffect ==
  ASSUME WmInv, NEW i \in Ids, DestroyObject(i)
  PROVE  Others(i) /\ OpenedNow(i) /\ ~Resting(obj, i) /\ ~Resting(obj', i)
<1>1. /\ Exists(i) /\ obj[i].changes \in Nat \ {0}
      /\ stack # << >> /\ Top.id = i /\ stack' = Pop(stack)
  BY TopLive DEF WmInv, DestroyObject
<1>2. /\ obj'[i] = Absent
      /\ \A j \in Ids \ {i} : obj'[j] = obj[j]
      /\ clock' = clock /\ clock \in Nat
  BY DEF DestroyObject, WmInv, Inv, TypeOK
<1>3. \A j \in Ids \ {i} : BeingRemoved(j) => BeingRemoved(j)'
  BY <1>1, PopRemoved DEF WmInv
<1>. QED
  BY <1>1, <1>2, <1>3 DEF Others, OpenedNow, Resting, Exists

\* The end of a change, which is not the removal of its object.
LEMMA UpdateEffect ==
  ASSUME WmInv, NEW i \in Ids, UpdateAndNotify(i)
  PROVE  /\ Others(i) /\ ~Resting(obj, i) /\ obj[i] \in Object /\ Exists(i) /\ Exists(i)'
         /\ obj'[i].tag = obj[i].tag /\ obj'[i].cls = obj[i].cls /\ obj'[i].val = obj[i].val
         /\ obj[i].changes # 1 => OpenedNow(i) /\ ~Resting(obj', i)
         /\ obj[i].changes = 1 => ~BeingRemoved(i) /\ Resting(obj', i)
<1>1. /\ Exists(i) /\ obj[i] \in Object /\ obj[i].changes \in Nat \ {0}
      /\ stack # << >> /\ Top.id = i /\ Top.kind = "change" /\ stack' = Pop(stack)
  BY TopLive DEF WmInv, UpdateAndNotify
<1>2. /\ obj'[i] = [obj[i] EXCEPT !.changes = @ - 1]
      /\ \A j \in Ids \ {i} : obj'[j] = obj[j]
      /\ clock' = clock /\ clock \in Nat
  BY DEF UpdateAndNotify, WmInv, Inv, TypeOK
<1>3. /\ obj'[i] \in Object /\ obj'[i].changes = obj[i].changes - 1
      /\ obj'[i].tag = obj[i].tag /\ obj'[i].cls = obj[i].cls /\ obj'[i].val = obj[i].val
  BY <1>1, <1>2 DEF Object
<1>4. Exists(i)'
  BY <1>3, AbsentAssumption DEF Exists
<1>5. \A j \in Ids : BeingRemoved(j) => BeingRemoved(j)'
  BY <1>1, PopRemoved DEF WmInv
<1>6. ASSUME obj[i].changes = 1 PROVE ~BeingRemoved(i)
  <2>1. Cardinality(FramesOn(i)) = 1 /\ IsFiniteSet(FramesOn(i))
    BY <1>1, <1>6, FramesKeepAlive DEF WmInv, Inv, NestingExact
  <2>2. PICK k : FramesOn(i) = {k}
    BY <2>1, FS_Singleton
  <2>3. Len(stack) \in FramesOn(i)
    BY <1>1, PopProperties DEF FramesOn, Top, WmInv, Inv, TypeOK
  <2>4. \A k2 \in FramesOn(i) : stack[k2].kind = "change"
    BY <1>1, <2>2, <2>3 DEF Top
  <2>. QED
    BY <2>4 DEF BeingRemoved, FramesOn
<1>. QED
  BY <1>1, <1>2, <1>3, <1>4, <1>5, <1>6 DEF Others, OpenedNow, Resting, Exists, AtRest

\* A change that no network is told of, and that is open before and after.
LEMMA QuietEffect ==
  ASSUME WmInv, NEW i \in Ids, OpenQuietly(i)
  PROVE  /\ Others(i) /\ OpenedNow(i) /\ ~Resting(obj, i) /\ ~Resting(obj', i)
         /\ UNCHANGED rblocks /\ Next
<1>1. CASE \E c \in Classes : Make(i, c)
  BY <1>1, CreateEffect DEF Make, OpenQuietly, Next
<1>2. CASE \E old \in Ids : Copy(old, i)
  <2>1. PICK old \in Ids : Copy(old, i)
    BY <1>2
  <2>2. obj[old].cls \in Classes
    BY <2>1 DEF Copy, AtRest, Exists, WmInv, Inv, TypeOK, Object
  <2>. QED
    BY <2>1, <2>2, CreateEffect DEF Copy, OpenQuietly, Next
<1>3. CASE OldReturned(i)
  BY <1>3, NestEffect DEF OldReturned, OpenQuietly, Next
<1>4. CASE ~AtRest(i) /\ Modify(i)
  BY <1>4, NestEffect DEF Modify, OpenQuietly, Next
<1>5. CASE \E v \in Vals : SetVal(i, v)
  BY <1>5, SetValEffect DEF OpenQuietly, Next
<1>6. CASE DestroyObject(i)
  BY <1>6, DestroyObjectEffect DEF OpenQuietly, Next
<1>7. CASE UpdateAndNotify(i) /\ obj[i].changes # 1
  BY <1>7, UpdateEffect DEF OpenQuietly, Next
<1>. QED
  BY <1>1, <1>2, <1>3, <1>4, <1>5, <1>6, <1>7 DEF OpenQuietly

\* An object at rest is opened, or its removal begins.
LEMMA WithdrawEffect ==
  ASSUME WmInv, NEW i \in Ids, Withdraw(i)
  PROVE  /\ Others(i) /\ OpenedNow(i) /\ Resting(obj, i) /\ ~Resting(obj', i)
         /\ obj[i] \in Object
         /\ Notify(Negative, i, obj[i]) /\ Next
<1>1. AtRest(i)
  BY DEF Withdraw, Specialize, Destroy
<1>2. obj[i] \in Object /\ Resting(obj, i) /\ clock \in Nat
  BY <1>1 DEF AtRest, Exists, WmInv, Inv, TypeOK, Resting
<1>3. CASE Modify(i)
  <2>. DEFINE f == [kind |-> "change", id |-> i]
  <2>1. f \in Frame /\ stack' = Append(stack, f) /\ f.kind # "remove"
    BY <1>3 DEF Frame, Modify, Open
  <2>. HIDE DEF f
  <2>2. /\ obj'[i].changes = 1 /\ obj'[i].tag = clock + 1
        /\ \A j \in Ids \ {i} : obj'[j] = obj[j]
        /\ clock' = clock + 1
    BY <1>1, <1>2, <1>3 DEF Modify, WmInv, Inv, TypeOK, Object
  <2>3. \A j \in Ids : BeingRemoved(j) => BeingRemoved(j)'
    BY <2>1, PushRemoved DEF WmInv
  <2>. QED
    BY <1>2, <1>3, <2>2, <2>3 DEF Others, OpenedNow, Resting, Withdraw, Next
<1>4. CASE \E c \in Classes : Specialize(i, c)
  <2>. DEFINE f == [kind |-> "change", id |-> i]
  <2>1. f \in Frame /\ stack' = Append(stack, f) /\ f.kind # "remove"
    BY <1>4 DEF Frame, Specialize, Open
  <2>. HIDE DEF f
  <2>2. /\ obj'[i].changes = 1 /\ obj'[i].tag = clock + 1
        /\ \A j \in Ids \ {i} : obj'[j] = obj[j]
        /\ clock' = clock + 1
    BY <1>2, <1>4 DEF Specialize, WmInv, Inv, TypeOK, Object
  <2>3. \A j \in Ids : BeingRemoved(j) => BeingRemoved(j)'
    BY <2>1, PushRemoved DEF WmInv
  <2>. QED
    BY <1>2, <1>4, <2>2, <2>3 DEF Others, OpenedNow, Resting, Withdraw, Next
<1>5. CASE Destroy(i)
  <2>. DEFINE f == [kind |-> "remove", id |-> i]
  <2>1. f \in Frame /\ stack' = Append(stack, f) /\ f.kind = "remove" /\ f.id = i
    BY <1>5 DEF Frame, Destroy
  <2>. HIDE DEF f
  <2>2. /\ obj'[i].changes = 1
        /\ \A j \in Ids \ {i} : obj'[j] = obj[j]
        /\ clock' = clock
    BY <1>2, <1>5 DEF Destroy, WmInv, Inv, TypeOK, Object
  <2>3. (\A j \in Ids : BeingRemoved(j) => BeingRemoved(j)') /\ BeingRemoved(i)'
    BY <2>1, PushRemoved DEF WmInv
  <2>. QED
    BY <1>2, <1>5, <2>2, <2>3 DEF Others, OpenedNow, Resting, Withdraw, Next
<1>. QED
  BY <1>3, <1>4, <1>5 DEF Withdraw

\* The outermost change of an object is closed.
LEMMA PublishEffect ==
  ASSUME WmInv, NEW i \in Ids, Publish(i)
  PROVE  /\ Others(i) /\ ~Resting(obj, i) /\ Resting(obj', i)
         /\ obj[i] \in Object /\ Exists(i) /\ ~AtRest(i) /\ ~BeingRemoved(i)
         /\ obj'[i].tag = obj[i].tag /\ obj'[i].cls = obj[i].cls /\ obj'[i].val = obj[i].val
         /\ Notify(Positive, i, obj[i]) /\ Next
BY UpdateEffect DEF Publish, Next, Resting, AtRest, Exists

-----------------------------------------------------------------------------
(* The registered ruling blocks while working memory changes.              *)

LEMMA RegistrationFields ==
  ASSUME TypeOKP, NEW rb \in RulingBlocks, Registered(rb)
  PROVE  /\ rblocks[rb] \in Registration /\ rblocks[rb].uses \in Nat
         /\ rblocks[rb].last \in Nat /\ rblocks[rb].queue \in Seq(Element)
         /\ Scope[rb] \subseteq Blocks
<1>1. rblocks[rb] \in Registration
  BY DEF TypeOKP, Registered
<1>. QED
  BY <1>1, ScopeAssumption DEF Registration

SameRegistrations ==
  /\ rblocks' \in [RulingBlocks -> Registration \cup {Unregistered}]
  /\ \A rb \in RulingBlocks :
       /\ Registered(rb)' <=> Registered(rb)
       /\ Registered(rb) => /\ rblocks'[rb].uses = rblocks[rb].uses
                            /\ rblocks'[rb].last = rblocks[rb].last

\* rul__rbs_notify_wm_delta puts the delta in the queues of the blocks that care
\* and changes nothing else of them.
LEMMA NotifyQueues ==
  ASSUME TypeOKP, NEW sign, NEW i, NEW x, Notify(sign, i, x),
         \A rb \in RulingBlocks : Cares(rb, x.cls) =>
           AddToQueue(rblocks[rb].queue, rblocks[rb].last, sign, i, x) \in Seq(Element)
  PROVE  /\ SameRegistrations
         /\ \A rb \in RulingBlocks : Registered(rb) =>
              rblocks'[rb].queue =
                IF Cares(rb, x.cls)
                THEN AddToQueue(rblocks[rb].queue, rblocks[rb].last, sign, i, x)
                ELSE rblocks[rb].queue
<1>1. ASSUME NEW rb \in RulingBlocks, Cares(rb, x.cls)
      PROVE  /\ rblocks'[rb] \in Registration /\ Registered(rb)' /\ Registered(rb)
             /\ rblocks'[rb].uses = rblocks[rb].uses /\ rblocks'[rb].last = rblocks[rb].last
             /\ rblocks'[rb].queue =
                  AddToQueue(rblocks[rb].queue, rblocks[rb].last, sign, i, x)
  <2>1. PICK q : q = AddToQueue(rblocks[rb].queue, rblocks[rb].last, sign, i, x)
    OBVIOUS
  <2>2. q \in Seq(Element) /\ Registered(rb)
    BY <1>1, <2>1 DEF Cares
  <2>3. rblocks[rb] \in Registration
    BY <2>2, RegistrationFields
  <2>4. rblocks'[rb] = [rblocks[rb] EXCEPT !.queue = q]
    BY <1>1, <2>1 DEF Notify
  <2>5. /\ rblocks'[rb] \in Registration /\ rblocks'[rb].queue = q
        /\ rblocks'[rb].uses = rblocks[rb].uses /\ rblocks'[rb].last = rblocks[rb].last
    BY <2>2, <2>3, <2>4 DEF Registration
  <2>. QED
    BY <2>1, <2>2, <2>5, UnregisteredAssumption DEF Registered
<1>2. ASSUME NEW rb \in RulingBlocks, ~Cares(rb, x.cls)
      PROVE  rblocks'[rb] = rblocks[rb]
  BY <1>2 DEF Notify
<1>3. DOMAIN rblocks' = RulingBlocks /\ rblocks' = [rb \in RulingBlocks |-> rblocks'[rb]]
  BY DEF Notify
<1>4. rblocks' \in [RulingBlocks -> Registration \cup {Unregistered}]
  <2>1. \A rb \in RulingBlocks : rblocks'[rb] \in Registration \cup {Unregistered}
    BY <1>1, <1>2 DEF TypeOKP
  <2>. QED
    BY <1>3, <2>1
<1>. QED
  BY <1>1, <1>2, <1>4 DEF SameRegistrations, Registered

\* The change that is open is no older than the registrations.
LEMMA OpenSinceKept ==
  ASSUME InvP, NEW i \in Ids, Others(i), Resting(obj', i) \/ OpenedNow(i),
         SameRegistrations, NEW rb \in RulingBlocks, Registered(rb), OpenSince(rb)
  PROVE  OpenSince(rb)'
<1>1. rblocks[rb].last \in Nat /\ rblocks[rb].last <= clock /\ clock \in Nat
  BY RegistrationFields DEF InvP, QueuesSound, WmInv, Inv, TypeOK
<1>2. rblocks'[rb].last = rblocks[rb].last
  BY DEF SameRegistrations
<1>. SUFFICES ASSUME NEW j \in Ids, Exists(j)', ~AtRest(j)', BlockNow(j)' \in Scope[rb]
              PROVE  obj'[j].tag > rblocks'[rb].last \/ BeingRemoved(j)'
  BY DEF OpenSince
<1>3. CASE j = i
  BY <1>1, <1>2, <1>3 DEF OpenedNow, Resting, OpenSince, BlockNow, Exists, AtRest
<1>4. CASE j # i
  BY <1>2, <1>4 DEF Others, OpenSince, BlockNow, Exists, AtRest
<1>. QED
  BY <1>3, <1>4

QueuesKept == SameRegistrations /\ QueuesSound' /\ QueuesExact'

LEMMA QuietKeeps ==
  ASSUME InvP, NEW i \in Ids, OpenQuietly(i), UNCHANGED <<net, disciplined>>, clock' \in Nat
  PROVE  QueuesKept
<1>1. /\ Others(i) /\ OpenedNow(i) /\ ~Resting(obj, i) /\ ~Resting(obj', i)
      /\ UNCHANGED rblocks
  BY QuietEffect DEF InvP
<1>2. /\ \A j \in Ids \ {i} : obj'[j] = obj[j]
      /\ clock <= clock' /\ clock \in Int /\ clock' \in Int
  BY <1>1 DEF Others, InvP, WmInv, Inv, TypeOK
<1>3. SameRegistrations
  BY <1>1 DEF SameRegistrations, Registered, InvP, TypeOKP
<1>4. QueuesSound'
  <2>1. ASSUME NEW rb \in RulingBlocks, Registered(rb)
        PROVE  /\ rblocks[rb].last <= clock'
               /\ QueueSound(rblocks[rb].queue, obj', clock', rb)
    <3>1. rblocks[rb].queue \in Seq(Element) /\ rblocks[rb].last \in Nat
      BY <2>1, RegistrationFields DEF InvP
    <3>2. /\ rblocks[rb].last <= clock
          /\ QueueSound(rblocks[rb].queue, obj, clock, rb)
      BY <2>1 DEF InvP, QueuesSound
    <3>. QED
      BY <1>1, <1>2, <3>1, <3>2, SoundUntold DEF Matters
  <2>. QED
    BY <1>1, <2>1 DEF QueuesSound, InvP, Registered
<1>5. QueuesExact'
  <2>1. ASSUME NEW rb \in RulingBlocks, Registered(rb), disciplined
        PROVE  /\ OpenSince(rb)'
               /\ QueueExact(rblocks[rb].queue, rblocks[rb].last, net[rb], obj', rb)
    <3>1. rblocks[rb].queue \in Seq(Element)
      BY <2>1, RegistrationFields DEF InvP
    <3>2. /\ OpenSince(rb)
          /\ QueueExact(rblocks[rb].queue, rblocks[rb].last, net[rb], obj, rb)
      BY <2>1 DEF InvP, QueuesExact
    <3>3. OpenSince(rb)'
      BY <1>1, <1>3, <2>1, <3>2, OpenSinceKept
    <3>. QED
      BY <1>1, <1>2, <3>1, <3>2, <3>3, ExactUntold DEF Matters
  <2>. QED
    BY <1>1, <2>1 DEF QueuesExact, Registered
<1>. QED
  BY <1>3, <1>4, <1>5 DEF QueuesKept

LEMMA WithdrawKeeps ==
  ASSUME InvP, NEW i \in Ids, Withdraw(i), UNCHANGED <<net, disciplined>>, clock' \in Nat
  PROVE  QueuesKept
<1>1. PICK x : x = obj[i]
  OBVIOUS
<1>2. /\ Others(i) /\ OpenedNow(i) /\ Resting(obj, i) /\ ~Resting(obj', i)
      /\ x \in Object /\ Notify(Negative, i, x)
  BY <1>1, WithdrawEffect DEF InvP
<1>3. /\ \A j \in Ids \ {i} : obj'[j] = obj[j]
      /\ clock <= clock' /\ clock \in Int /\ clock' \in Int
  BY <1>2 DEF Others, InvP, WmInv, Inv, TypeOK
<1>4. x.tag <= clock
  BY <1>1, <1>2, <1>3 DEF InvP, WmInv, TagsDistinct, Resting, Exists
<1>5. ASSUME NEW rb \in RulingBlocks, Registered(rb)
      PROVE  /\ rblocks[rb].queue \in Seq(Element) /\ rblocks[rb].last \in Nat
             /\ rblocks[rb].last <= clock
             /\ QueueSound(rblocks[rb].queue, obj, clock, rb)
             /\ Cares(rb, x.cls) <=> Matters(obj, i, rb)
  BY <1>1, <1>2, <1>5, RegistrationFields DEF InvP, QueuesSound, Cares, Matters
<1>6. ASSUME NEW rb \in RulingBlocks, Registered(rb), NEW new,
             new = AddToQueue(rblocks[rb].queue, rblocks[rb].last, Negative, i, x)
      PROVE  new \in Seq(Element) /\ QueueSound(new, obj', clock', rb)
  <2>1. PICK q, last : q = rblocks[rb].queue /\ last = rblocks[rb].last
    OBVIOUS
  <2>2. /\ q \in Seq(Element) /\ QueueSound(q, obj, clock, rb)
        /\ new = AddToQueue(q, last, Negative, i, x)
    BY <1>5, <1>6, <2>1
  <2>3. /\ x = obj[i] /\ x.tag <= clock /\ x \in Object
        /\ \A j \in Ids \ {i} : obj'[j] = obj[j]
        /\ clock \in Int /\ clock' \in Int /\ clock <= clock'
    BY <1>1, <1>2, <1>3, <1>4
  <2>. QED
    BY ONLY <2>2, <2>3, i \in Ids, SoundWithdrawn
<1>7. /\ SameRegistrations
      /\ \A rb \in RulingBlocks : Registered(rb) =>
           rblocks'[rb].queue =
             IF Cares(rb, x.cls)
             THEN AddToQueue(rblocks[rb].queue, rblocks[rb].last, Negative, i, x)
             ELSE rblocks[rb].queue
  <2>1. \A rb \in RulingBlocks : Cares(rb, x.cls) =>
          AddToQueue(rblocks[rb].queue, rblocks[rb].last, Negative, i, x) \in Seq(Element)
    BY <1>6 DEF Cares
  <2>. QED
    BY <1>2, <2>1, NotifyQueues DEF InvP
<1>8. QueuesSound'
  <2>1. ASSUME NEW rb \in RulingBlocks, Registered(rb)
        PROVE  /\ rblocks'[rb].last <= clock'
               /\ QueueSound(rblocks'[rb].queue, obj', clock', rb)
    <3>1. rblocks'[rb].last <= clock'
      BY <1>3, <1>5, <1>7, <2>1 DEF SameRegistrations
    <3>2. CASE Cares(rb, x.cls)
      BY <1>6, <1>7, <2>1, <3>1, <3>2
    <3>3. CASE ~Cares(rb, x.cls)
      <4>1. QueueSound(rblocks[rb].queue, obj', clock', rb)
        BY <1>3, <1>5, <2>1, <3>3, SoundUntold
      <4>. QED
        BY <1>7, <2>1, <3>1, <3>3, <4>1
    <3>. QED
      BY <3>2, <3>3
  <2>. QED
    BY <1>7, <2>1 DEF QueuesSound, InvP, SameRegistrations
<1>9. QueuesExact'
  <2>1. ASSUME NEW rb \in RulingBlocks, Registered(rb), disciplined
        PROVE  /\ OpenSince(rb)'
               /\ QueueExact(rblocks'[rb].queue, rblocks[rb].last, net[rb], obj', rb)
    <3>1. /\ OpenSince(rb)
          /\ QueueExact(rblocks[rb].queue, rblocks[rb].last, net[rb], obj, rb)
      BY <2>1 DEF InvP, QueuesExact
    <3>2. OpenSince(rb)'
      BY <1>2, <1>7, <2>1, <3>1, OpenSinceKept
    <3>3. ~Matters(obj', i, rb)
      BY <1>2 DEF Matters
    <3>4. CASE ~Cares(rb, x.cls)
      <4>1. QueueExact(rblocks[rb].queue, rblocks[rb].last, net[rb], obj', rb)
        BY <1>3, <1>5, <2>1, <3>1, <3>3, <3>4, ExactUntold
      <4>. QED
        BY <1>7, <2>1, <3>2, <3>4, <4>1
    <3>5. CASE Cares(rb, x.cls)
      <4>1. PICK q : q = rblocks[rb].queue
        OBVIOUS
      <4>2. PICK e : e = MakeElement(Negative, i, x)
        OBVIOUS
      <4>3. PICK new : new = AddToQueue(q, rblocks[rb].last, Negative, i, x)
        OBVIOUS
      <4>4. /\ q \in Seq(Element) /\ QueueSound(q, obj, clock, rb) /\ Matters(obj, i, rb)
            /\ QueueExact(q, rblocks[rb].last, net[rb], obj, rb)
            /\ rblocks'[rb].queue = new
        BY <1>5, <1>7, <2>1, <3>1, <3>5, <4>1, <4>3
      <4>5. CASE HashedAt(q, i) = {} /\ new = Append(q, e)
        <5>1. QueueExact(new, rblocks[rb].last, net[rb], obj', rb)
          BY <1>1, <1>2, <1>3, <3>3, <4>2, <4>4, <4>5, ExactWithdrawn
        <5>. QED
          BY <3>2, <4>4, <5>1
      <4>6. CASE \E p \in HashedAt(q, i) :
                   /\ HashedAt(q, i) = {p}
                   /\ IF q[p].tag > rblocks[rb].last
                      THEN new = RemoveAt(q, p)
                      ELSE new = Append(Detached(q, p, x), e)
        <5>1. PICK p \in HashedAt(q, i) :
                   /\ HashedAt(q, i) = {p}
                   /\ IF q[p].tag > rblocks[rb].last
                      THEN new = RemoveAt(q, p)
                      ELSE new = Append(Detached(q, p, x), e)
          BY <4>6
        <5>2. /\ p \in DOMAIN q /\ q[p].id = i /\ q[p].sign = Positive
              /\ q[p].tag > rblocks[rb].last
          BY <4>4 DEF HashedAt, QueueSound, Announces, QueueExact, Cancellable
        <5>3. QueueExact(new, rblocks[rb].last, net[rb], obj', rb)
          BY <1>3, <3>3, <4>4, <5>1, <5>2, ExactCancelled
        <5>. QED
          BY <3>2, <4>4, <5>3
      <4>. QED
        BY <4>2, <4>3, <4>4, <4>5, <4>6, AddNegative
    <3>. QED
      BY <3>4, <3>5
  <2>. QED
    BY <1>7, <2>1 DEF QueuesExact, SameRegistrations
<1>. QED
  BY <1>7, <1>8, <1>9 DEF QueuesKept

LEMMA PublishKeeps ==
  ASSUME InvP, NEW i \in Ids, Publish(i), UNCHANGED <<net, disciplined>>, clock' \in Nat
  PROVE  QueuesKept
<1>1. PICK x : x = obj[i]
  OBVIOUS
<1>2. /\ Others(i) /\ ~Resting(obj, i) /\ Resting(obj', i)
      /\ x \in Object /\ Exists(i) /\ ~AtRest(i) /\ ~BeingRemoved(i)
      /\ obj'[i].tag = x.tag /\ obj'[i].cls = x.cls /\ Notify(Positive, i, x)
  BY <1>1, PublishEffect DEF InvP
<1>3. /\ \A j \in Ids \ {i} : obj'[j] = obj[j]
      /\ clock <= clock' /\ clock \in Int /\ clock' \in Int
  BY <1>2 DEF Others, InvP, WmInv, Inv, TypeOK
<1>4. x.tag <= clock
  BY <1>1, <1>2, <1>3 DEF InvP, WmInv, TagsDistinct
<1>5. ASSUME NEW rb \in RulingBlocks, Registered(rb)
      PROVE  /\ rblocks[rb].queue \in Seq(Element) /\ rblocks[rb].last \in Nat
             /\ rblocks[rb].last <= clock
             /\ QueueSound(rblocks[rb].queue, obj, clock, rb)
             /\ Cares(rb, x.cls) <=> Matters(obj', i, rb)
             /\ ~Matters(obj, i, rb)
             /\ HashedAt(rblocks[rb].queue, i) = {}
  <2>1. /\ rblocks[rb].queue \in Seq(Element) /\ rblocks[rb].last \in Nat
        /\ rblocks[rb].last <= clock
        /\ QueueSound(rblocks[rb].queue, obj, clock, rb)
    BY <1>5, RegistrationFields DEF InvP, QueuesSound
  <2>2. /\ Cares(rb, x.cls) <=> Matters(obj', i, rb)
        /\ ~Matters(obj, i, rb)
    BY <1>2, <1>5 DEF Cares, Matters
  <2>. QED
    BY <2>1, <2>2, HashedElements
<1>6. ASSUME NEW rb \in RulingBlocks, Registered(rb), Cares(rb, x.cls), NEW new,
             new = AddToQueue(rblocks[rb].queue, rblocks[rb].last, Positive, i, x)
      PROVE  /\ new = Append(rblocks[rb].queue, MakeElement(Positive, i, x))
             /\ new \in Seq(Element) /\ QueueSound(new, obj', clock', rb)
  <2>1. PICK q, last : q = rblocks[rb].queue /\ last = rblocks[rb].last
    OBVIOUS
  <2>2. /\ q \in Seq(Element) /\ QueueSound(q, obj, clock, rb)
        /\ new = AddToQueue(q, last, Positive, i, x)
        /\ Matters(obj', i, rb)
    BY <1>5, <1>6, <2>1
  <2>3. /\ x = obj[i] /\ x.tag <= clock /\ x \in Object
        /\ ~Resting(obj, i) /\ obj'[i].tag = x.tag
        /\ \A j \in Ids \ {i} : obj'[j] = obj[j]
        /\ clock \in Int /\ clock' \in Int /\ clock <= clock'
    BY <1>1, <1>2, <1>3, <1>4
  <2>4. PICK e : e = MakeElement(Positive, i, x)
    OBVIOUS
  <2>5. new = Append(q, e)
    BY <1>5, <1>6, <2>1, <2>2, <2>4, AddPositive
  <2>6. new \in Seq(Element) /\ QueueSound(new, obj', clock', rb)
    BY ONLY <2>2, <2>3, <2>4, <2>5, i \in Ids, SoundPublished
  <2>. QED
    BY <2>1, <2>4, <2>5, <2>6
<1>7. /\ SameRegistrations
      /\ \A rb \in RulingBlocks : Registered(rb) =>
           rblocks'[rb].queue =
             IF Cares(rb, x.cls)
             THEN AddToQueue(rblocks[rb].queue, rblocks[rb].last, Positive, i, x)
             ELSE rblocks[rb].queue
  <2>1. \A rb \in RulingBlocks : Cares(rb, x.cls) =>
          AddToQueue(rblocks[rb].queue, rblocks[rb].last, Positive, i, x) \in Seq(Element)
    BY <1>6 DEF Cares
  <2>. QED
    BY <1>2, <2>1, NotifyQueues DEF InvP
<1>8. QueuesSound'
  <2>1. ASSUME NEW rb \in RulingBlocks, Registered(rb)
        PROVE  /\ rblocks'[rb].last <= clock'
               /\ QueueSound(rblocks'[rb].queue, obj', clock', rb)
    <3>1. rblocks'[rb].last <= clock'
      BY <1>3, <1>5, <1>7, <2>1 DEF SameRegistrations
    <3>2. CASE Cares(rb, x.cls)
      BY <1>6, <1>7, <2>1, <3>1, <3>2
    <3>3. CASE ~Cares(rb, x.cls)
      <4>1. QueueSound(rblocks[rb].queue, obj', clock', rb)
        BY <1>3, <1>5, <2>1, <3>3, SoundUntold
      <4>. QED
        BY <1>7, <2>1, <3>1, <3>3, <4>1
    <3>. QED
      BY <3>2, <3>3
  <2>. QED
    BY <1>7, <2>1 DEF QueuesSound, InvP, SameRegistrations
<1>9. QueuesExact'
  <2>1. ASSUME NEW rb \in RulingBlocks, Registered(rb), disciplined
        PROVE  /\ OpenSince(rb)'
               /\ QueueExact(rblocks'[rb].queue, rblocks[rb].last, net[rb], obj', rb)
    <3>1. /\ OpenSince(rb)
          /\ QueueExact(rblocks[rb].queue, rblocks[rb].last, net[rb], obj, rb)
      BY <2>1 DEF InvP, QueuesExact
    <3>2. OpenSince(rb)'
      BY <1>2, <1>7, <2>1, <3>1, OpenSinceKept
    <3>3. CASE ~Cares(rb, x.cls)
      <4>1. QueueExact(rblocks[rb].queue, rblocks[rb].last, net[rb], obj', rb)
        BY <1>3, <1>5, <2>1, <3>1, <3>3, ExactUntold
      <4>. QED
        BY <1>7, <2>1, <3>2, <3>3, <4>1
    <3>4. CASE Cares(rb, x.cls)
      <4>1. x.tag > rblocks[rb].last
        BY <1>1, <1>2, <3>1, <3>4 DEF OpenSince, BlockNow, Cares
      <4>2. PICK e : e = MakeElement(Positive, i, x)
        OBVIOUS
      <4>3. rblocks'[rb].queue = Append(rblocks[rb].queue, e)
        BY <1>6, <1>7, <2>1, <3>4, <4>2
      <4>4. QueueExact(rblocks'[rb].queue, rblocks[rb].last, net[rb], obj', rb)
        BY <1>2, <1>3, <1>5, <2>1, <3>1, <4>1, <4>2, <4>3, ExactPublished
      <4>. QED
        BY <3>2, <4>4
    <3>. QED
      BY <3>3, <3>4
  <2>. QED
    BY <1>7, <2>1 DEF QueuesExact, SameRegistrations
<1>. QED
  BY <1>7, <1>8, <1>9 DEF QueuesKept

\* A step of the registry leaves working memory alone.
LEMMA WmKept ==
  ASSUME WmInv, [Next]_wmVars
  PROVE  WmInv'
BY InvNext, TagsNext, ListsNext DEF WmInv

LEMMA ChangeKeeps ==
  ASSUME InvP, Change
  PROVE  InvP'
<1>1. PICK i \in Ids : OpenQuietly(i) \/ Withdraw(i) \/ Publish(i)
  BY DEF Change
<1>2. HasControl /\ UNCHANGED <<net, runs, disciplined>>
  BY DEF Change
<1>3. Next
  BY <1>1, QuietEffect, WithdrawEffect, PublishEffect DEF InvP
<1>4. WmInv'
  BY <1>3, WmKept DEF InvP
<1>5. clock' \in Nat
  BY <1>4 DEF WmInv, Inv, TypeOK
<1>6. QueuesKept
  BY <1>1, <1>2, <1>5, QuietKeeps, WithdrawKeeps, PublishKeeps
<1>7. TypeOKP'
  BY <1>2, <1>4, <1>6 DEF QueuesKept, SameRegistrations, InvP, TypeOKP, WmInv, Inv
<1>8. UsesMatchRuns'
  BY <1>2, <1>6 DEF QueuesKept, SameRegistrations, InvP, UsesMatchRuns
<1>9. RunsSound'
  <2>1. ASSUME NEW k \in DOMAIN runs PROVE runs[k].pc = "rhs"
    <3>1. CASE k < Len(runs)
      BY <2>1, <3>1 DEF InvP, RunsSound
    <3>2. CASE k = Len(runs)
      BY <1>2, <2>1, <3>2 DEF HasControl, Running
    <3>. QED
      BY <2>1, <3>1, <3>2 DEF InvP, TypeOKP
  <2>. QED
    BY <1>2, <2>1 DEF RunsSound
<1>. QED
  BY <1>4, <1>6, <1>7, <1>8, <1>9 DEF QueuesKept, InvP

-----------------------------------------------------------------------------
(* The stack of runs.                                                      *)

Users(rb) == {k \in DOMAIN runs : rb \in Activates[runs[k].eb]}

LEMMA RunsOf ==
  ASSUME TypeOKP
  PROVE  /\ DOMAIN runs = 1 .. Len(runs) /\ Len(runs) \in Nat
         /\ \A k \in DOMAIN runs : /\ runs[k] \in Run /\ runs[k].eb \in EntryBlocks
                                   /\ Activates[runs[k].eb] \subseteq RulingBlocks
         /\ \A rb : IsFiniteSet(Users(rb))
         /\ runs # << >> => Len(runs) \in DOMAIN runs
<1>1. DOMAIN runs = 1 .. Len(runs) /\ Len(runs) \in Nat /\ (runs # << >> => Len(runs) # 0)
      /\ \A k \in DOMAIN runs : runs[k] \in Run
  BY DEF TypeOKP
<1>2. ASSUME NEW rb PROVE IsFiniteSet(Users(rb))
  <2>1. Users(rb) \subseteq 1 .. Len(runs)
    BY <1>1 DEF Users
  <2>2. IsFiniteSet(1 .. Len(runs))
    BY <1>1, FS_Interval
  <2>. QED
    BY <2>1, <2>2, FS_Subset
<1>. QED
  BY <1>1, <1>2, ActivatesAssumption DEF Run

LEMMA RunPushed ==
  ASSUME TypeOKP, NEW r \in Run, runs' = Append(runs, r), NEW rb
  PROVE  IF rb \in Activates[r.eb]
         THEN Users(rb)' # {} /\ Cardinality(Users(rb)') = Cardinality(Users(rb)) + 1
         ELSE Users(rb)' = Users(rb)
<1>1. /\ DOMAIN runs' = 1 .. Len(runs) + 1 /\ runs'[Len(runs) + 1] = r
      /\ \A k \in DOMAIN runs : runs'[k] = runs[k]
      /\ DOMAIN runs = 1 .. Len(runs) /\ Len(runs) \in Nat
  BY DEF TypeOKP
<1>2. CASE rb \in Activates[r.eb]
  <2>1. /\ Users(rb)' = Users(rb) \cup {Len(runs) + 1}
        /\ Len(runs) + 1 \notin Users(rb)
    BY <1>1, <1>2 DEF Users
  <2>2. Cardinality(Users(rb) \cup {Len(runs) + 1}) = Cardinality(Users(rb)) + 1
    BY <2>1, RunsOf, FS_AddElement
  <2>. QED
    BY <1>2, <2>1, <2>2
<1>3. CASE rb \notin Activates[r.eb]
  BY <1>1, <1>3 DEF Users
<1>. QED
  BY <1>2, <1>3

LEMMA RunPopped ==
  ASSUME TypeOKP, runs # << >>, runs' = Pop(runs), NEW rb
  PROVE  IF rb \in Activates[Running.eb]
         THEN /\ Len(runs) \in Users(rb)
              /\ Users(rb)' = Users(rb) \ {Len(runs)}
              /\ Cardinality(Users(rb)') = Cardinality(Users(rb)) - 1
              /\ Cardinality(Users(rb)) \in Nat
         ELSE Users(rb)' = Users(rb)
<1>1. /\ Len(runs) \in DOMAIN runs
      /\ DOMAIN runs' = DOMAIN runs \ {Len(runs)}
      /\ \A k \in DOMAIN runs' : runs'[k] = runs[k]
  BY PopProperties DEF TypeOKP
<1>2. CASE rb \in Activates[Running.eb]
  <2>1. Len(runs) \in Users(rb) /\ Users(rb)' = Users(rb) \ {Len(runs)}
    BY <1>1, <1>2 DEF Users, Running
  <2>2. Cardinality(Users(rb) \ {Len(runs)}) = Cardinality(Users(rb)) - 1
    BY <2>1, RunsOf, FS_RemoveElement
  <2>3. Cardinality(Users(rb)) \in Nat
    BY RunsOf, FS_CardinalityType
  <2>. QED
    BY <1>2, <2>1, <2>2, <2>3
<1>3. CASE rb \notin Activates[Running.eb]
  BY <1>1, <1>3 DEF Users, Running
<1>. QED
  BY <1>2, <1>3

\* A run whose program counter and target change keeps its entry block.
LEMMA RunAdvanced ==
  ASSUME TypeOKP, runs # << >>, NEW pc \in {"rhs", "update"}, NEW target \in Nat,
         runs' = [runs EXCEPT ![Len(runs)].pc = pc, ![Len(runs)].target = target]
  PROVE  /\ runs' \in Seq(Run) /\ Len(runs') = Len(runs) /\ DOMAIN runs' = DOMAIN runs
         /\ runs'[Len(runs)].pc = pc /\ runs'[Len(runs)].target = target
         /\ \A k \in DOMAIN runs : k # Len(runs) => runs'[k] = runs[k]
         /\ \A k \in DOMAIN runs : runs'[k].eb = runs[k].eb
<1>1. PICK n : n = Len(runs)
  OBVIOUS
<1>2. n \in DOMAIN runs /\ runs[n] \in Run
  BY <1>1, RunsOf
<1>3. PICK r : r = [runs[n] EXCEPT !.pc = pc, !.target = target]
  OBVIOUS
<1>4. r \in Run /\ r.pc = pc /\ r.target = target /\ r.eb = runs[n].eb
  BY <1>2, <1>3 DEF Run
<1>5. runs' = [runs EXCEPT ![n] = r]
  BY <1>1, <1>2, <1>3
<1>6. /\ runs' \in Seq(Run) /\ Len(runs') = Len(runs) /\ DOMAIN runs' = DOMAIN runs
      /\ \A k \in DOMAIN runs : runs'[k] = IF k = n THEN r ELSE runs[k]
  <2>1. runs \in Seq(Run) /\ n \in DOMAIN runs /\ r \in Run /\ runs' = [runs EXCEPT ![n] = r]
    BY <1>2, <1>4, <1>5 DEF TypeOKP
  <2>. QED
    BY ONLY <2>1, PlaceReplaced
<1>. QED
  BY <1>1, <1>2, <1>4, <1>6

-----------------------------------------------------------------------------
(* The steps of the registry and of the recognize-act cycle.               *)

LEMMA WmStill ==
  ASSUME InvP, UNCHANGED wmVars
  PROVE  WmInv'
BY WmKept DEF InvP

\* A ruling block that a running entry block activates is registered.
LEMMA ActiveRegistered ==
  ASSUME InvP, NEW k \in DOMAIN runs, NEW rb \in Activates[runs[k].eb]
  PROVE  rb \in RulingBlocks /\ Registered(rb) /\ Users(rb) # {}
<1>1. rb \in RulingBlocks
  BY RunsOf DEF InvP
<1>2. k \in Users(rb)
  BY DEF Users
<1>. QED
  BY <1>1, <1>2 DEF InvP, UsesMatchRuns, Users

\* The program counter of the innermost run moves and nothing else does.
LEMMA AdvanceKeeps ==
  ASSUME InvP, runs # << >>, NEW pc \in {"rhs", "update"}, NEW target \in Nat,
         pc = "update" => target = clock,
         runs' = [runs EXCEPT ![Len(runs)].pc = pc, ![Len(runs)].target = target],
         UNCHANGED <<wmVars, rblocks, net, disciplined>>
  PROVE  InvP'
<1>1. /\ runs' \in Seq(Run) /\ Len(runs') = Len(runs) /\ DOMAIN runs' = DOMAIN runs
      /\ runs'[Len(runs)].pc = pc /\ runs'[Len(runs)].target = target
      /\ \A k \in DOMAIN runs : k # Len(runs) => runs'[k] = runs[k]
      /\ \A k \in DOMAIN runs : runs'[k].eb = runs[k].eb
  BY RunAdvanced DEF InvP
<1>2. WmInv'
  BY WmStill
<1>3. TypeOKP'
  BY <1>1, <1>2 DEF InvP, TypeOKP, WmInv, Inv
<1>4. UsesMatchRuns'
  <2>1. \A rb : Users(rb)' = Users(rb)
    BY <1>1 DEF Users
  <2>. QED
    BY <2>1 DEF InvP, UsesMatchRuns, Users, Registered
<1>5. RunsSound'
  BY <1>1 DEF InvP, RunsSound, wmVars
<1>6. QueuesSound'
  BY DEF InvP, QueuesSound, Registered, wmVars
<1>7. QueuesExact'
  <2>1. ASSUME NEW rb \in RulingBlocks PROVE OpenSince(rb)' <=> OpenSince(rb)
    BY DEF OpenSince, Exists, AtRest, BlockNow, BeingRemoved, wmVars
  <2>. QED
    BY <2>1 DEF InvP, QueuesExact, Registered, wmVars
<1>. QED
  BY <1>2, <1>3, <1>4, <1>5, <1>6, <1>7 DEF InvP

LEMMA BeginUpdateKeeps ==
  ASSUME InvP, BeginUpdate
  PROVE  InvP'
<1>1. clock \in Nat
  BY DEF InvP, WmInv, Inv, TypeOK
<1>. QED
  BY <1>1, AdvanceKeeps DEF BeginUpdate, BackInCycle

LEMMA EndUpdateKeeps ==
  ASSUME InvP, EndUpdate
  PROVE  InvP'
BY AdvanceKeeps DEF EndUpdate

LEMMA PropagateKeeps ==
  ASSUME InvP, NEW rb \in RulingBlocks, PropagateToken(rb)
  PROVE  InvP'
<1>1. /\ runs # << >> /\ UNCHANGED <<wmVars, runs, disciplined>>
      /\ rb \in Activates[Running.eb] /\ Ready(rblocks[rb].queue, Running.target)
  BY DEF PropagateToken, ToUpdate
<1>2. Registered(rb)
  BY <1>1, ActiveRegistered, RunsOf DEF Running, InvP
<1>3. PICK q, n, de, seen, tk :
        /\ q = rblocks[rb].queue /\ n = net[rb] /\ de = Head(q)
        /\ seen = TokenInstance(de, obj[de.id])
        /\ tk = [id |-> de.id, cls |-> seen.cls, val |-> seen.val]
  OBVIOUS
<1>4. PICK n2 : n2 = AfterToken(n, de, tk)
  OBVIOUS
<1>5. PICK reg : reg = [rblocks[rb] EXCEPT !.queue = Tail(q)]
  OBVIOUS
<1>6. /\ q \in Seq(Element) /\ q # << >> /\ n \in [Token -> Nat]
      /\ QueueSound(q, obj, clock, rb) /\ rblocks[rb].last <= clock
      /\ rblocks[rb] \in Registration
  BY <1>1, <1>2, <1>3, RegistrationFields DEF Ready, InvP, TypeOKP, QueuesSound
<1>7. /\ reg \in Registration /\ reg # Unregistered /\ reg.queue = Tail(q)
      /\ reg.uses = rblocks[rb].uses /\ reg.last = rblocks[rb].last
  <2>1. Tail(q) \in Seq(Element)
    BY <1>6, Rest
  <2>. QED
    BY <1>5, <1>6, <2>1, UnregisteredAssumption DEF Registration
<1>8. n2 \in [Token -> Nat]
  BY <1>4, <1>6, AfterTokenType
<1>9. rblocks' = [rblocks EXCEPT ![rb] = reg] /\ net' = [net EXCEPT ![rb] = n2]
  BY <1>3, <1>4, <1>5 DEF PropagateToken, AfterToken
<1>10. /\ rblocks' \in [RulingBlocks -> Registration \cup {Unregistered}]
       /\ net' \in [RulingBlocks -> [Token -> Nat]]
       /\ rblocks'[rb] = reg /\ net'[rb] = n2
       /\ \A r \in RulingBlocks \ {rb} : rblocks'[r] = rblocks[r] /\ net'[r] = net[r]
  BY <1>7, <1>8, <1>9 DEF InvP, TypeOKP
<1>11. \A r \in RulingBlocks : Registered(r)' <=> Registered(r)
  BY <1>2, <1>7, <1>10 DEF Registered
<1>12. WmInv'
  BY <1>1, WmStill
<1>13. TypeOKP'
  BY <1>1, <1>10, <1>12 DEF InvP, TypeOKP, WmInv, Inv
<1>14. UsesMatchRuns'
  BY <1>1, <1>2, <1>7, <1>10, <1>11 DEF InvP, UsesMatchRuns
<1>15. RunsSound'
  BY <1>1 DEF InvP, RunsSound, wmVars
<1>16. QueuesSound'
  <2>1. QueueSound(Tail(q), obj, clock, rb)
    BY <1>6, SoundTail
  <2>. QED
    BY <1>1, <1>2, <1>6, <1>7, <1>10, <1>11, <2>1 DEF InvP, QueuesSound, wmVars
<1>17. QueuesExact'
  <2>1. ASSUME NEW r \in RulingBlocks PROVE OpenSince(r)' <=> OpenSince(r)
    BY <1>1, <1>7, <1>10 DEF OpenSince, Exists, AtRest, BlockNow, BeingRemoved, wmVars
  <2>2. ASSUME QueueExact(q, rblocks[rb].last, n, obj, rb)
        PROVE  QueueExact(Tail(q), rblocks[rb].last, n2, obj, rb)
    <3>1. obj \in [Ids -> Object \cup {Absent}]
      BY DEF InvP, WmInv, Inv, TypeOK
    <3>. QED
      BY ONLY <1>3, <1>4, <1>6, <2>2, <3>1, ExactPropagated
  <2>. QED
    BY <1>1, <1>2, <1>3, <1>7, <1>10, <1>11, <2>1, <2>2 DEF InvP, QueuesExact, wmVars
<1>. QED
  BY <1>12, <1>13, <1>14, <1>15, <1>16, <1>17 DEF InvP

LEMMA ExitKeeps ==
  ASSUME InvP, ExitEntryBlock
  PROVE  InvP'
<1>1. /\ runs # << >> /\ runs' = Pop(runs) /\ UNCHANGED <<wmVars, disciplined>>
      /\ DOMAIN rblocks' = RulingBlocks
  BY DEF ExitEntryBlock, BackInCycle
<1>2. /\ runs' \in Seq(Run) /\ Len(runs') = Len(runs) - 1
      /\ DOMAIN runs' \subseteq DOMAIN runs /\ \A k \in DOMAIN runs' : runs'[k] = runs[k]
  BY <1>1, PopProperties DEF InvP, TypeOKP
<1>3. ASSUME NEW rb \in RulingBlocks
      PROVE  /\ Users(rb)' = {} \/ Registered(rb)
             /\ Registered(rb) => rblocks[rb].uses = Cardinality(Users(rb))
             /\ ~Registered(rb) => rblocks'[rb] = rblocks[rb]
  <2>1. /\ Registered(rb) => rblocks[rb].uses = Cardinality(Users(rb))
        /\ ~Registered(rb) => Users(rb) = {}
    BY DEF InvP, UsesMatchRuns, Users
  <2>2. Registered(rb) \/ rb \notin Activates[Running.eb]
    BY <1>1, ActiveRegistered, RunsOf DEF InvP, Running
  <2>3. Users(rb)' \subseteq Users(rb)
    BY <1>2 DEF Users
  <2>. QED
    BY <2>1, <2>2, <2>3 DEF ExitEntryBlock
<1>4. ASSUME NEW rb \in RulingBlocks, Registered(rb), rb \in Activates[Running.eb]
      PROVE  /\ rblocks[rb].uses \in Nat \ {0}
             /\ IF rblocks[rb].uses > 1 \/ rb \in Retain
                THEN /\ rblocks'[rb] = [rblocks[rb] EXCEPT !.uses = @ - 1]
                     /\ Users(rb)' = {} => rb \in Retain
                ELSE rblocks'[rb] = Unregistered /\ Users(rb)' = {}
             /\ Cardinality(Users(rb)') = rblocks[rb].uses - 1
  <2>1. /\ Len(runs) \in Users(rb) /\ IsFiniteSet(Users(rb))
        /\ Users(rb)' = Users(rb) \ {Len(runs)}
        /\ Cardinality(Users(rb)') = Cardinality(Users(rb)) - 1
        /\ Cardinality(Users(rb)) \in Nat
    BY <1>1, <1>4, RunPopped, RunsOf DEF InvP
  <2>2. IsFiniteSet(Users(rb)')
    BY <2>1, FS_Subset
  <2>3. /\ Cardinality(Users(rb)) # 0
        /\ Cardinality(Users(rb)') = 0 <=> Users(rb)' = {}
    BY <2>1, <2>2, FS_EmptySet
  <2>4. rblocks'[rb] = AfterUnregister(rb)
    BY <1>4 DEF ExitEntryBlock
  <2>. QED
    BY <1>3, <1>4, <2>1, <2>3, <2>4 DEF AfterUnregister
<1>5. ASSUME NEW rb \in RulingBlocks, Registered(rb), rb \notin Activates[Running.eb]
      PROVE  rblocks'[rb] = rblocks[rb] /\ Users(rb)' = Users(rb)
  BY <1>1, <1>5, RunPopped DEF ExitEntryBlock, InvP
<1>6. ASSUME NEW rb \in RulingBlocks, Registered(rb)
      PROVE  \/ /\ rblocks'[rb] = Unregistered /\ Users(rb)' = {}
             \/ /\ rblocks'[rb] \in Registration /\ Registered(rb)'
                /\ rblocks'[rb].uses = Cardinality(Users(rb)')
                /\ rblocks'[rb].last = rblocks[rb].last
                /\ rblocks'[rb].queue = rblocks[rb].queue
                /\ Users(rb)' = {} => rb \in Retain
  <2>1. rblocks[rb] \in Registration
    BY <1>6, RegistrationFields DEF InvP
  <2>2. CASE rb \in Activates[Running.eb]
    <3>1. ASSUME NEW reg, reg = [rblocks[rb] EXCEPT !.uses = @ - 1], rblocks[rb].uses \in Nat \ {0}
          PROVE  /\ reg \in Registration /\ reg.uses = rblocks[rb].uses - 1
                 /\ reg.last = rblocks[rb].last /\ reg.queue = rblocks[rb].queue
      BY <2>1, <3>1 DEF Registration
    <3>. QED
      BY <1>4, <1>6, <2>2, <3>1, UnregisteredAssumption DEF Registered
  <2>3. CASE rb \notin Activates[Running.eb]
    <3>1. Users(rb) = {} => rb \in Retain
      BY <1>6 DEF InvP, UsesMatchRuns, Users
    <3>. QED
      BY <1>3, <1>5, <1>6, <2>1, <2>3, <3>1 DEF Registered
  <2>. QED
    BY <2>2, <2>3
<1>7. ASSUME NEW rb \in RulingBlocks
      PROVE  net'[rb] = IF Registered(rb)' THEN net[rb] ELSE NoTokens
  BY <1>7 DEF ExitEntryBlock, Registered
<1>8. WmInv'
  BY <1>1, WmStill
<1>9. TypeOKP'
  <2>1. \A rb \in RulingBlocks : rblocks'[rb] \in Registration \cup {Unregistered}
    BY <1>3, <1>6 DEF Registered
  <2>2. rblocks' = [rb \in RulingBlocks |-> rblocks'[rb]]
    BY DEF ExitEntryBlock
  <2>3. NoTokens \in [Token -> Nat]
    BY DEF NoTokens
  <2>4. net' = [rb \in RulingBlocks |-> net'[rb]]
    BY DEF ExitEntryBlock
  <2>5. net' \in [RulingBlocks -> [Token -> Nat]]
    BY <1>7, <2>3, <2>4 DEF InvP, TypeOKP
  <2>. QED
    BY <1>2, <1>8, <2>1, <2>2, <2>5 DEF TypeOKP, WmInv, Inv
<1>10. UsesMatchRuns'
  BY <1>3, <1>6 DEF UsesMatchRuns, Users, Registered
<1>11. RunsSound'
  BY <1>1, <1>2, RunsOf DEF InvP, RunsSound, wmVars
<1>12. QueuesSound'
  BY <1>1, <1>3, <1>6, <1>7 DEF InvP, QueuesSound, Registered, wmVars
<1>13. QueuesExact'
  <2>1. ASSUME NEW rb \in RulingBlocks, Registered(rb)', OpenSince(rb)
        PROVE  OpenSince(rb)'
    BY <1>1, <1>3, <1>6, <2>1
       DEF OpenSince, Exists, AtRest, BlockNow, BeingRemoved, wmVars, Registered
  <2>. QED
    BY <1>1, <1>3, <1>6, <1>7, <2>1 DEF InvP, QueuesExact, Registered, wmVars
<1>. QED
  BY <1>8, <1>9, <1>10, <1>11, <1>12, <1>13 DEF InvP

\* A network that is filled from the lists while the program is quiet agrees
\* with an empty queue.
LEMMA FilledInQuiet ==
  ASSUME WmInv, NEW rb \in RulingBlocks, QuietFor(rb)
  PROVE  /\ QueueExact(<< >>, clock, InitialTokens(rb), obj, rb)
         /\ \A i \in Ids : Exists(i) /\ ~AtRest(i) /\ BlockNow(i) \in Scope[rb]
                             => BeingRemoved(i)
<1>1. ASSUME NEW i \in Ids
      PROVE  i \in OnLists(rb) <=> Exists(i) /\ ~BeingRemoved(i) /\ BlockNow(i) \in Scope[rb]
  <2>1. \A b \in Scope[rb] : Listed(b, i) <=> Exists(i) /\ ~BeingRemoved(i) /\ BlockNow(i) = b
    BY ScopeAssumption DEF WmInv, ListsExact
  <2>. QED
    BY <2>1 DEF OnLists
<1>2. ASSUME NEW i \in Ids, Matters(obj, i, rb)
      PROVE  i \in OnLists(rb)
  BY <1>1, <1>2, RestNotRemoved DEF Matters, Resting, Exists, AtRest, BlockNow, WmInv
<1>3. ASSUME NEW i \in Ids, i \in OnLists(rb)
      PROVE  Matters(obj, i, rb)
  BY <1>1, <1>3 DEF QuietFor, Matters, Resting, Exists, AtRest, BlockNow
<1>4. ASSUME NEW i \in Ids, Exists(i), ~AtRest(i), BlockNow(i) \in Scope[rb]
      PROVE  BeingRemoved(i)
  BY <1>1, <1>4 DEF QuietFor
<1>5. Lags(InitialTokens(rb), << >>, obj, rb)
  <2>1. ASSUME NEW t \in Token
        PROVE  InitialTokens(rb)[t] = IF Shows(<< >>, obj, rb, t) THEN 1 ELSE 0
    <3>1. t.id \in Ids
      BY DEF Token
    <3>2. Shows(<< >>, obj, rb, t) <=> Matters(obj, t.id, rb) /\ t = TokenOf(t.id, obj[t.id])
      BY DEF Shows, Withdraws
    <3>. QED
      BY <1>2, <1>3, <3>1, <3>2 DEF InitialTokens
  <2>. QED
    BY <2>1 DEF Lags
<1>6. QueueExact(<< >>, clock, InitialTokens(rb), obj, rb)
  BY <1>5 DEF QueueExact, Cancellable, Paired, Reannounced
<1>. QED
  BY <1>4, <1>6

LEMMA EnterKeeps ==
  ASSUME InvP, NEW eb \in EntryBlocks, EnterEntryBlock(eb)
  PROVE  InvP'
<1>1. PICK r : r = [eb |-> eb, base |-> Len(stack), pc |-> "rhs", target |-> 0]
  OBVIOUS
<1>2. /\ HasControl /\ UNCHANGED wmVars /\ runs' = Append(runs, r)
      /\ disciplined' = (disciplined /\ Quiet(eb))
  BY <1>1 DEF EnterEntryBlock
<1>3. r \in Run /\ r.eb = eb /\ r.pc = "rhs"
  BY <1>1 DEF Run, InvP, WmInv, Inv, TypeOK
<1>4. clock \in Nat
  BY DEF InvP, WmInv, Inv, TypeOK
<1>5. ASSUME NEW rb \in RulingBlocks
      PROVE  IF rb \in Activates[eb]
             THEN Users(rb)' # {} /\ Cardinality(Users(rb)') = Cardinality(Users(rb)) + 1
             ELSE Users(rb)' = Users(rb)
  BY <1>2, <1>3, RunPushed DEF InvP
<1>6. ASSUME NEW rb \in RulingBlocks, Registered(rb)
      PROVE  /\ rblocks'[rb] \in Registration /\ Registered(rb)'
             /\ rblocks'[rb].uses = Cardinality(Users(rb)')
             /\ rblocks'[rb].last = rblocks[rb].last
             /\ rblocks'[rb].queue = rblocks[rb].queue
             /\ net'[rb] = net[rb]
             /\ Users(rb)' = {} => rb \in Retain
  <2>1. /\ rblocks[rb] \in Registration /\ rblocks[rb].uses \in Nat
        /\ rblocks[rb].uses = Cardinality(Users(rb))
        /\ Users(rb) = {} => rb \in Retain
    BY <1>6, RegistrationFields DEF InvP, UsesMatchRuns, Users
  <2>2. net'[rb] = net[rb]
    BY <1>6 DEF EnterEntryBlock
  <2>3. CASE rb \in Activates[eb]
    <3>1. PICK reg : reg = [rblocks[rb] EXCEPT !.uses = @ + 1]
      OBVIOUS
    <3>2. rblocks'[rb] = reg
      BY <1>6, <2>3, <3>1 DEF EnterEntryBlock, AfterRegister
    <3>3. /\ reg \in Registration /\ reg.uses = rblocks[rb].uses + 1
          /\ reg.last = rblocks[rb].last /\ reg.queue = rblocks[rb].queue
      BY <2>1, <3>1 DEF Registration
    <3>. QED
      BY <1>5, <2>1, <2>2, <2>3, <3>2, <3>3, UnregisteredAssumption DEF Registered
  <2>4. CASE rb \notin Activates[eb]
    <3>1. rblocks'[rb] = rblocks[rb]
      BY <2>4 DEF EnterEntryBlock
    <3>. QED
      BY <1>5, <1>6, <2>1, <2>2, <2>4, <3>1 DEF Registered
  <2>. QED
    BY <2>3, <2>4
<1>7. ASSUME NEW rb \in RulingBlocks, ~Registered(rb)
      PROVE  IF rb \in Activates[eb]
             THEN /\ rblocks'[rb] \in Registration /\ Registered(rb)'
                  /\ rblocks'[rb].uses = Cardinality(Users(rb)') /\ Users(rb)' # {}
                  /\ rblocks'[rb].last = clock /\ rblocks'[rb].queue = << >>
                  /\ net'[rb] = InitialTokens(rb)
             ELSE /\ rblocks'[rb] = Unregistered /\ Users(rb)' = {}
                  /\ net'[rb] = net[rb]
  <2>1. Users(rb) = {}
    BY <1>7 DEF InvP, UsesMatchRuns, Users
  <2>2. CASE rb \in Activates[eb]
    <3>1. rblocks'[rb] = [uses |-> 1, last |-> clock, queue |-> << >>]
      BY <1>7, <2>2 DEF EnterEntryBlock, AfterRegister
    <3>2. rblocks'[rb] \in Registration
      BY <1>4, <3>1 DEF Registration
    <3>3. net'[rb] = InitialTokens(rb)
      BY <1>7, <2>2 DEF EnterEntryBlock
    <3>4. Cardinality(Users(rb)) = 0
      BY <2>1, FS_EmptySet
    <3>5. Users(rb)' # {} /\ Cardinality(Users(rb)') = 1
      BY <1>5, <2>2, <3>4
    <3>6. /\ rblocks'[rb].uses = 1 /\ rblocks'[rb].last = clock
          /\ rblocks'[rb].queue = << >> /\ Registered(rb)'
      BY <3>1, <3>2, UnregisteredAssumption DEF Registered
    <3>. QED
      BY <2>2, <3>2, <3>3, <3>5, <3>6
  <2>3. CASE rb \notin Activates[eb]
    <3>1. rblocks'[rb] = rblocks[rb] /\ net'[rb] = net[rb]
      BY <2>3 DEF EnterEntryBlock
    <3>. QED
      BY <1>5, <1>7, <2>1, <2>3, <3>1 DEF Registered
  <2>. QED
    BY <2>2, <2>3
<1>8. WmInv'
  BY <1>2, WmStill
<1>9. TypeOKP'
  <2>1. \A rb \in RulingBlocks : rblocks'[rb] \in Registration \cup {Unregistered}
    BY <1>6, <1>7
  <2>2. DOMAIN rblocks' = RulingBlocks /\ rblocks' = [rb \in RulingBlocks |-> rblocks'[rb]]
    BY DEF EnterEntryBlock
  <2>3. \A rb \in RulingBlocks : InitialTokens(rb) \in [Token -> Nat]
    BY DEF InitialTokens
  <2>4. \A rb \in RulingBlocks : net'[rb] \in [Token -> Nat]
    BY <1>6, <1>7, <2>3 DEF InvP, TypeOKP
  <2>5. net' = [rb \in RulingBlocks |-> net'[rb]]
    BY DEF EnterEntryBlock
  <2>6. runs' \in Seq(Run)
    BY <1>2, <1>3 DEF InvP, TypeOKP
  <2>. QED
    BY <1>8, <2>1, <2>2, <2>4, <2>5, <2>6 DEF TypeOKP, WmInv, Inv
<1>10. UsesMatchRuns'
  BY <1>6, <1>7 DEF UsesMatchRuns, Users, Registered
<1>11. RunsSound'
  <2>1. /\ DOMAIN runs' = 1 .. Len(runs) + 1 /\ runs'[Len(runs) + 1] = r
        /\ Len(runs') = Len(runs) + 1
        /\ \A k \in DOMAIN runs : runs'[k] = runs[k]
        /\ DOMAIN runs = 1 .. Len(runs) /\ Len(runs) \in Nat
    BY <1>2, <1>3 DEF InvP, TypeOKP
  <2>2. ASSUME NEW k \in DOMAIN runs PROVE runs[k].pc = "rhs"
    <3>1. CASE k < Len(runs)
      BY <2>2, <3>1 DEF InvP, RunsSound
    <3>2. CASE k = Len(runs)
      <4>1. runs # << >>
        BY <2>2
      <4>. QED
        BY <1>2, <3>2, <4>1 DEF HasControl, Running
    <3>. QED
      BY <2>1, <2>2, <3>1, <3>2
  <2>. QED
    BY <1>3, <2>1, <2>2 DEF RunsSound
<1>12. QueuesSound'
  <2>1. ASSUME NEW rb \in RulingBlocks
        PROVE  QueueSound(<< >>, obj, clock, rb)
    BY DEF QueueSound
  <2>. QED
    BY <1>2, <1>4, <1>6, <1>7, <2>1 DEF InvP, QueuesSound, Registered, wmVars
<1>13. QueuesExact'
  <2>1. ASSUME disciplined, NEW rb \in RulingBlocks, Registered(rb)
        PROVE  /\ OpenSince(rb)'
               /\ QueueExact(rblocks'[rb].queue, rblocks'[rb].last, net'[rb], obj', rb)
    <3>1. OpenSince(rb)
      BY <2>1 DEF InvP, QueuesExact
    <3>2. OpenSince(rb)'
      BY <1>2, <1>6, <2>1, <3>1
         DEF OpenSince, Exists, AtRest, BlockNow, BeingRemoved, wmVars
    <3>. QED
      BY <1>2, <1>6, <2>1, <3>2 DEF InvP, QueuesExact, wmVars
  <2>2. ASSUME disciplined, Quiet(eb), NEW rb \in RulingBlocks, ~Registered(rb), Registered(rb)'
        PROVE  /\ OpenSince(rb)'
               /\ QueueExact(rblocks'[rb].queue, rblocks'[rb].last, net'[rb], obj', rb)
    <3>1. rb \in Activates[eb]
      BY <1>7, <2>2 DEF Registered
    <3>2. QuietFor(rb)
      BY <2>2, <3>1 DEF Quiet
    <3>3. /\ QueueExact(<< >>, clock, InitialTokens(rb), obj, rb)
          /\ \A i \in Ids : Exists(i) /\ ~AtRest(i) /\ BlockNow(i) \in Scope[rb]
                             => BeingRemoved(i)
      BY <3>2, FilledInQuiet DEF InvP
    <3>4. OpenSince(rb)'
      BY <1>2, <3>3 DEF OpenSince, Exists, AtRest, BlockNow, BeingRemoved, wmVars
    <3>. QED
      BY <1>2, <1>7, <2>2, <3>1, <3>3, <3>4 DEF wmVars
  <2>. QED
    BY <1>2, <2>1, <2>2 DEF QueuesExact
<1>. QED
  BY <1>8, <1>9, <1>10, <1>11, <1>12, <1>13 DEF InvP

LEMMA InvPInit == InitP => InvP
<1>. SUFFICES ASSUME InitP PROVE InvP
  OBVIOUS
<1>1. WmInv
  BY InvInit DEF InitP, Init, WmInv, TagsDistinct, ListsExact, Listed, Exists
<1>2. \A rb \in RulingBlocks : ~Registered(rb) /\ net[rb] = NoTokens
  BY DEF InitP, Registered
<1>3. NoTokens \in [Token -> Nat]
  BY DEF NoTokens
<1>4. TypeOKP
  BY <1>1, <1>3 DEF InitP, TypeOKP, WmInv, Inv
<1>5. DOMAIN runs = {}
  BY DEF InitP
<1>. QED
  BY <1>1, <1>2, <1>4, <1>5 DEF InvP, UsesMatchRuns, RunsSound, QueuesSound, QueuesExact

LEMMA InvPNext == InvP /\ [NextP]_vars => InvP'
<1>. SUFFICES ASSUME InvP, [NextP]_vars PROVE InvP'
  OBVIOUS
<1>1. CASE UNCHANGED vars
  <2>1. UNCHANGED wmVars /\ UNCHANGED <<rblocks, net, runs, disciplined>>
    BY <1>1 DEF vars, wmVars
  <2>2. WmInv'
    BY <2>1, WmStill
  <2>3. \A rb : OpenSince(rb)' <=> OpenSince(rb)
    BY <2>1 DEF OpenSince, Exists, AtRest, BlockNow, BeingRemoved, wmVars
  <2>. QED
    BY <2>1, <2>2, <2>3 DEF InvP, TypeOKP, UsesMatchRuns, RunsSound, QueuesSound,
       QueuesExact, Registered, wmVars, WmInv, Inv
<1>2. CASE NextP
  BY <1>2, ChangeKeeps, EnterKeeps, BeginUpdateKeeps, PropagateKeeps, EndUpdateKeeps,
     ExitKeeps DEF NextP
<1>. QED
  BY <1>1, <1>2

-----------------------------------------------------------------------------
(* The theorems.                                                           *)

\* Every variable keeps its type.
THEOREM PropagationTypes == SpecP => []TypeOKP
BY InvPInit, InvPNext, PTL DEF SpecP, InvP

\* The use count rbs.c keeps of a ruling block is the number of running entry
\* blocks that activate it, however entry blocks nest.
THEOREM UsesCorrect == SpecP => []UsesMatchRuns
BY InvPInit, InvPNext, PTL DEF SpecP, InvP

\* rul__delta_get_from_queue fills in a delta from the live object only while
\* that object is the incarnation the delta announced, in every program.
THEOREM UnsnappedLive == SpecP => []UnsnappedDeltasLive
<1>1. InvP => UnsnappedDeltasLive
  <2>1. ASSUME InvP, NEW rb \in RulingBlocks, Registered(rb),
               NEW k \in DOMAIN rblocks[rb].queue,
               rblocks[rb].queue[k].snap = NoSnapshot
        PROVE  /\ rblocks[rb].queue[k].hashed
               /\ Announces(rblocks[rb].queue[k], obj, rb)
    BY <2>1 DEF InvP, QueuesSound, QueueSound
  <2>. QED
    BY <2>1 DEF UnsnappedDeltasLive, Announces, Matters, Resting, AtRest, Exists
<1>. QED
  BY <1>1, InvPInit, InvPNext, PTL DEF SpecP

\* When rul__rbs_update_match_network returns, the queues of all ruling blocks
\* of the entry block are empty: no head is newer than the target tag.
THEOREM DrainedByUpdate == SpecP => UpdateDrains
<1>1. ASSUME InvP, EndUpdate, NEW rb \in Activates[Running.eb]
      PROVE  rblocks[rb].queue = << >>
  <2>1. runs # << >> /\ Running.pc = "update" /\ rb \notin ToUpdate
    BY <1>1 DEF EndUpdate
  <2>2. rb \in RulingBlocks /\ Registered(rb) /\ Running.target = clock
    BY <1>1, <2>1, ActiveRegistered, RunsOf DEF Running, InvP, RunsSound
  <2>3. ~Ready(rblocks[rb].queue, clock)
    BY <1>1, <2>1, <2>2 DEF ToUpdate
  <2>4. rblocks[rb].queue \in Seq(Element) /\ QueueSound(rblocks[rb].queue, obj, clock, rb)
    BY <1>1, <2>2, RegistrationFields DEF InvP, QueuesSound
  <2>5. ASSUME rblocks[rb].queue # << >> PROVE Head(rblocks[rb].queue).tag <= clock
    BY <2>4, <2>5, Rest DEF QueueSound
  <2>. QED
    BY <2>3, <2>5 DEF Ready
<1>2. InvP /\ [NextP]_vars => [EndUpdate => \A rb \in Activates[Running.eb] :
                                             rblocks[rb].queue = << >>]_vars
  BY <1>1
<1>. QED
  BY <1>2, InvPInit, InvPNext, PTL DEF SpecP, UpdateDrains

\* What the network holds of an object is what the queue says of it.
LEMMA ShowsBelieved ==
  ASSUME InvP, NEW rb \in RulingBlocks, Registered(rb), NEW t \in Token
  PROVE  Shows(rblocks[rb].queue, obj, rb, t) <=> t \in Believed(rb, t.id)
<1>1. PICK q : q = rblocks[rb].queue
  OBVIOUS
<1>2. q \in Seq(Element) /\ QueueSound(q, obj, clock, rb)
  BY <1>1, RegistrationFields DEF InvP, QueuesSound
<1>3. ASSUME NEW k \in DOMAIN q, q[k].sign = Negative
      PROVE  q[k].snap \in [cls : Classes, val : Vals]
  <2>1. ~q[k].hashed
    BY <1>2, <1>3 DEF QueueSound, Announces, Positive, Negative
  <2>2. q[k].snap # NoSnapshot
    BY <1>2, <1>3, <2>1 DEF QueueSound
  <2>. QED
    BY <1>2, <2>2, ElementFields DEF Element
<1>4. /\ t.id \in Ids /\ t.cls \in Classes /\ t.val \in Vals
      /\ t = [id |-> t.id, cls |-> t.cls, val |-> t.val]
  BY DEF Token
<1>5. ASSUME NEW k \in DOMAIN q, q[k].sign = Negative
      PROVE  q[k].snap = Snapshot(t) <=>
               t = [id |-> t.id, cls |-> q[k].snap.cls, val |-> q[k].snap.val]
  BY <1>3, <1>4, <1>5 DEF Snapshot
<1>6. /\ QueuedAs(rb, t.id, Negative) = {k \in DOMAIN q : q[k].id = t.id /\ q[k].sign = Negative}
      /\ QueuedAs(rb, t.id, Positive) = {k \in DOMAIN q : q[k].id = t.id /\ q[k].sign = Positive}
  BY <1>1 DEF QueuedAs, Queued
<1>7. CASE QueuedAs(rb, t.id, Negative) # {}
  <2>1. t \in Believed(rb, t.id) <=>
          \E k \in QueuedAs(rb, t.id, Negative) :
            t = [id |-> t.id, cls |-> q[k].snap.cls, val |-> q[k].snap.val]
    BY <1>1, <1>7 DEF Believed
  <2>2. Shows(q, obj, rb, t) <=> Withdraws(q, t)
    BY <1>6, <1>7 DEF Shows
  <2>. QED
    BY <1>1, <1>5, <1>6, <2>1, <2>2 DEF Withdraws
<1>8. CASE QueuedAs(rb, t.id, Negative) = {}
  <2>1. ~Withdraws(q, t)
    BY <1>6, <1>8 DEF Withdraws
  <2>2. QueuedAs(rb, t.id, Positive) = {} <=> \A k \in DOMAIN q : q[k].id # t.id
    BY <1>2, <1>6, <1>8, ElementFields
  <2>3. t \in Believed(rb, t.id) <=>
          /\ QueuedAs(rb, t.id, Positive) = {}
          /\ AtRest(t.id) /\ Cares(rb, obj[t.id].cls) /\ t = TokenOf(t.id, obj[t.id])
    BY <1>8 DEF Believed
  <2>. QED
    BY <1>1, <2>1, <2>2, <2>3 DEF Shows, Matters, Resting, AtRest, Exists, Cares
<1>. QED
  BY <1>7, <1>8

\* In a disciplined program a match network lags working memory by exactly its
\* delta queue.
THEOREM LagsByQueue == SpecP => []NetworkLagsByQueue
<1>1. InvP => NetworkLagsByQueue
  BY ShowsBelieved DEF NetworkLagsByQueue, InvP, QueuesExact, QueueExact, Lags
<1>. QED
  BY <1>1, InvPInit, InvPNext, PTL DEF SpecP

-----------------------------------------------------------------------------
(* Refinement: what a ruling block knows is a lazy view of working memory.  *)

Contents == [cls : Classes, val : Vals]
Known == Contents \cup {NoSnapshot}
QueuedIn(q, i) == \E k \in DOMAIN q : q[k].id = i

LEMMA TokenSnapshot ==
  ASSUME NEW t \in Token
  PROVE  Snapshot(t) \in Contents /\ Snapshot(t) # NoSnapshot
BY SnapshotAssumption DEF Token, Snapshot, Contents

LEMMA ObjectSnapshot ==
  ASSUME NEW o \in Object
  PROVE  Snapshot(o) \in Contents /\ Snapshot(o) # NoSnapshot
BY SnapshotAssumption DEF Object, Snapshot, Contents

LEMMA TruthIs ==
  ASSUME InvP
  PROVE  /\ Truth \in [RulingBlocks -> [Ids -> Known]]
         /\ \A rb \in RulingBlocks, i \in Ids :
              IF Registered(rb) /\ Matters(obj, i, rb)
              THEN Truth[rb][i] = Snapshot(obj[i]) /\ Truth[rb][i] # NoSnapshot
              ELSE Truth[rb][i] = NoSnapshot
<1>1. ASSUME NEW rb \in RulingBlocks, NEW i \in Ids
      PROVE  /\ Relevant(rb, i) <=> Registered(rb) /\ Matters(obj, i, rb)
             /\ Relevant(rb, i) => Snapshot(obj[i]) \in Contents /\ Snapshot(obj[i]) # NoSnapshot
  <2>1. Relevant(rb, i) <=> Registered(rb) /\ Matters(obj, i, rb)
    BY DEF Relevant, AtRest, Exists, Cares, Matters, Resting
  <2>2. Relevant(rb, i) => obj[i] \in Object
    BY DEF Relevant, AtRest, Exists, InvP, WmInv, Inv, TypeOK
  <2>. QED
    BY <2>1, <2>2, ObjectSnapshot
<1>. QED
  BY <1>1 DEF Truth, Known

LEMMA PendingIs ==
  /\ Pending \in [RulingBlocks -> SUBSET Ids]
  /\ \A rb \in RulingBlocks, i \in Ids :
       i \in Pending[rb] <=> Registered(rb) /\ QueuedIn(rblocks[rb].queue, i)
BY DEF Pending, Queued, QueuedIn

LEMMA PicturedIs ==
  ASSUME TypeOKP
  PROVE  /\ Pictured \in [RulingBlocks -> [Ids -> Known]]
         /\ \A rb \in RulingBlocks, i \in Ids :
              IF Held(rb, i) = {} THEN Pictured[rb][i] = NoSnapshot
              ELSE \E t \in Held(rb, i) : Pictured[rb][i] = Snapshot(t)
<1>1. ASSUME NEW S \in SUBSET Token
      PROVE  /\ PictureOf(S) \in Known
             /\ IF S = {} THEN PictureOf(S) = NoSnapshot
                ELSE \E t \in S : PictureOf(S) = Snapshot(t)
  <2>1. CASE S # {}
    <3>1. PICK u : u = CHOOSE t \in S : TRUE
      OBVIOUS
    <3>2. u \in S
      BY <2>1, <3>1
    <3>3. PictureOf(S) = Snapshot(u)
      BY <2>1, <3>1 DEF PictureOf
    <3>. QED
      BY <2>1, <3>2, <3>3, TokenSnapshot DEF Known
  <2>2. CASE S = {}
    BY <2>2 DEF PictureOf, Known
  <2>. QED
    BY <2>1, <2>2
<1>2. \A rb \in RulingBlocks, i \in Ids : Held(rb, i) \in SUBSET Token
  BY DEF Held
<1>. QED
  BY <1>1, <1>2 DEF Pictured

\* The picture of an object is what the queue makes of it.
LEMMA PictureCases ==
  ASSUME InvP, disciplined, NEW rb \in RulingBlocks, NEW i \in Ids
  PROVE  /\ i \notin Pending[rb] => Pictured[rb][i] = Truth[rb][i]
         /\ (\A k \in DOMAIN rblocks[rb].queue :
               rblocks[rb].queue[k].id = i => rblocks[rb].queue[k].sign = Positive)
              /\ i \in Pending[rb] => Pictured[rb][i] = NoSnapshot
         /\ ~Registered(rb) => Pictured[rb][i] = NoSnapshot
<1>1. CASE ~Registered(rb)
  <2>1. net[rb] = NoTokens
    BY <1>1 DEF InvP, QueuesSound
  <2>2. Held(rb, i) = {}
    BY <2>1 DEF Held, NoTokens
  <2>. QED
    BY <1>1, <2>2, PicturedIs, TruthIs, PendingIs DEF InvP
<1>2. CASE Registered(rb)
  <2>1. PICK q : q = rblocks[rb].queue
    OBVIOUS
  <2>2. Lags(net[rb], q, obj, rb)
    BY <1>2, <2>1 DEF InvP, QueuesExact, QueueExact
  <2>3. ASSUME NEW t \in Token
        PROVE  t \in Held(rb, i) <=> t.id = i /\ Shows(q, obj, rb, t)
    BY <2>2 DEF Held, Lags
  <2>4. CASE ~QueuedIn(q, i)
    <3>1. ASSUME NEW t \in Token
          PROVE  t \in Held(rb, i) <=> Matters(obj, i, rb) /\ t = TokenOf(i, obj[i])
      BY <2>3, <2>4 DEF Shows, Withdraws, QueuedIn, TokenOf
    <3>2. CASE Matters(obj, i, rb)
      <4>1. obj[i] \in Object
        BY <3>2 DEF Matters, Resting, InvP, WmInv, Inv, TypeOK
      <4>2. PICK u : u = TokenOf(i, obj[i])
        OBVIOUS
      <4>3. u \in Token /\ Snapshot(u) = Snapshot(obj[i])
        BY <4>1, <4>2 DEF TokenOf, Token, Object, Snapshot
      <4>4. Held(rb, i) = {u}
        BY <3>1, <3>2, <4>2, <4>3 DEF Held
      <4>5. Pictured[rb][i] = Snapshot(obj[i])
        BY <4>3, <4>4, PicturedIs DEF InvP
      <4>. QED
        BY <1>2, <2>1, <2>4, <3>2, <4>5, TruthIs, PendingIs
    <3>3. CASE ~Matters(obj, i, rb)
      <4>1. Held(rb, i) = {}
        BY <3>1, <3>3 DEF Held
      <4>. QED
        BY <1>2, <2>1, <2>4, <3>3, <4>1, TruthIs, PendingIs, PicturedIs DEF InvP
    <3>. QED
      BY <3>2, <3>3
  <2>5. CASE QueuedIn(q, i)
    <3>1. i \in Pending[rb]
      BY <1>2, <2>1, <2>5, PendingIs
    <3>2. ASSUME \A k \in DOMAIN q : q[k].id = i => q[k].sign = Positive
          PROVE  Held(rb, i) = {}
      <4>1. \A t \in Token : t.id = i => ~Shows(q, obj, rb, t)
        BY <2>5, <3>2 DEF Shows, Withdraws, QueuedIn, Positive, Negative
      <4>. QED
        BY <2>3, <4>1 DEF Held
    <3>. QED
      BY <1>2, <2>1, <3>1, <3>2, PicturedIs DEF InvP
  <2>. QED
    BY <2>4, <2>5
<1>. QED
  BY <1>1, <1>2

ViewTypes ==
  /\ Truth \in [RulingBlocks -> [Ids -> Known]]
  /\ Pending \in [RulingBlocks -> SUBSET Ids]
  /\ Pictured \in [RulingBlocks -> [Ids -> Known]]

TruthFacts ==
  \A rb \in RulingBlocks, i \in Ids :
    IF Registered(rb) /\ Matters(obj, i, rb)
    THEN Truth[rb][i] = Snapshot(obj[i]) /\ Truth[rb][i] # NoSnapshot
    ELSE Truth[rb][i] = NoSnapshot

PendingFacts ==
  \A rb \in RulingBlocks, i \in Ids :
    i \in Pending[rb] <=> Registered(rb) /\ QueuedIn(rblocks[rb].queue, i)

PictureFacts ==
  \A rb \in RulingBlocks, i \in Ids :
    /\ i \notin Pending[rb] => Pictured[rb][i] = Truth[rb][i]
    /\ (\A k \in DOMAIN rblocks[rb].queue :
          rblocks[rb].queue[k].id = i => rblocks[rb].queue[k].sign = Positive)
         /\ i \in Pending[rb] => Pictured[rb][i] = NoSnapshot
    /\ ~Registered(rb) => Pictured[rb][i] = NoSnapshot

ViewFacts == ViewTypes /\ TruthFacts /\ PendingFacts /\ PictureFacts

LEMMA ViewHolds == InvP /\ disciplined => ViewFacts
BY TruthIs, PendingIs, PicturedIs, PictureCases
   DEF InvP, ViewFacts, ViewTypes, TruthFacts, PendingFacts, PictureFacts

LEMMA ViewHoldsNext == (InvP /\ disciplined)' => ViewFacts'
BY ViewHolds, PTL

\* A delta of an object puts no other object into a queue or out of it.
LEMMA AddQueued ==
  ASSUME NEW q \in Seq(Element), NEW o, NEW t, NEW rb, QueueSound(q, o, t, rb),
         NEW i \in Ids, NEW x \in Object, NEW last, NEW sign \in {Positive, Negative},
         sign = Positive => HashedAt(q, i) = {},
         NEW new, new = AddToQueue(q, last, sign, i, x), NEW j \in Ids \ {i}
  PROVE  QueuedIn(new, j) <=> QueuedIn(q, j)
<1>1. /\ Len(q) \in Nat /\ DOMAIN q = 1 .. Len(q)
      /\ \A k \in DOMAIN q : k \in Int /\ q[k].id \in Ids
  BY ElementFields
<1>2. PICK e : e = MakeElement(sign, i, x)
  OBVIOUS
<1>3. e \in Element /\ e.id = i
  BY <1>2, Announcement, Withdrawal
<1>4. ASSUME NEW r \in Seq(Element), DOMAIN r = DOMAIN q,
             \A k \in DOMAIN q : r[k].id = q[k].id, new = Append(r, e)
      PROVE  QueuedIn(new, j) <=> QueuedIn(q, j)
  <2>1. /\ Len(r) \in Nat /\ DOMAIN r = 1 .. Len(r) /\ DOMAIN new = 1 .. Len(r) + 1
        /\ \A k \in DOMAIN r : new[k] = r[k]
        /\ new[Len(r) + 1] = e
    BY <1>3, <1>4
  <2>. QED
    BY <1>3, <1>4, <2>1 DEF QueuedIn
<1>5. CASE new = Append(q, e)
  BY <1>4, <1>5
<1>6. ASSUME NEW p \in DOMAIN q, new = Append(Detached(q, p, x), e)
      PROVE  QueuedIn(new, j) <=> QueuedIn(q, j)
  <2>1. PICK d : d = [q[p] EXCEPT !.hashed = FALSE, !.snap = Snapshot(x)]
    OBVIOUS
  <2>2. d \in Element /\ d.id = q[p].id
    <3>1. PICK y, s : y = q[p] /\ s = Snapshot(x)
      OBVIOUS
    <3>2. y \in Element /\ s \in [cls : Classes, val : Vals]
      BY <3>1, ElementFields, ObjectSnapshot DEF Contents
    <3>3. d = [y EXCEPT !.hashed = FALSE, !.snap = s]
      BY <2>1, <3>1
    <3>4. d \in Element /\ d.id = y.id
      BY ONLY <3>2, <3>3 DEF Element
    <3>. QED
      BY <3>1, <3>4
  <2>3. Detached(q, p, x) = [q EXCEPT ![p] = d]
    BY <2>1 DEF Detached
  <2>4. PICK r : r = Detached(q, p, x)
    OBVIOUS
  <2>5. /\ r \in Seq(Element) /\ DOMAIN r = DOMAIN q
        /\ \A k \in DOMAIN q : r[k] = IF k = p THEN d ELSE q[k]
    BY <2>2, <2>3, <2>4, PlaceReplaced
  <2>. QED
    BY <1>4, <1>6, <2>2, <2>4, <2>5
<1>7. ASSUME NEW p \in HashedAt(q, i), new = RemoveAt(q, p)
      PROVE  QueuedIn(new, j) <=> QueuedIn(q, j)
  <2>1. p \in DOMAIN q /\ q[p].id = i /\ p \in 1 .. Len(q)
    BY <1>1 DEF HashedAt
  <2>2. /\ DOMAIN new = 1 .. Len(q) - 1
        /\ \A n \in DOMAIN new : new[n] = IF n < p THEN q[n] ELSE q[n + 1]
    BY <1>7, <2>1, TakenOut
  <2>3. ASSUME NEW n \in DOMAIN new, new[n].id = j PROVE QueuedIn(q, j)
    <3>1. n \in DOMAIN q /\ n + 1 \in DOMAIN q
      BY <1>1, <2>2
    <3>. QED
      BY <2>2, <2>3, <3>1 DEF QueuedIn
  <2>4. ASSUME NEW n \in DOMAIN q, q[n].id = j PROVE QueuedIn(new, j)
    <3>1. n # p
      BY <2>1, <2>4
    <3>2. CASE n < p
      <4>1. n \in DOMAIN new /\ new[n] = q[n]
        BY <1>1, <2>1, <2>2, <3>2
      <4>. QED
        BY <2>4, <4>1 DEF QueuedIn
    <3>3. CASE n > p
      <4>1. n - 1 \in DOMAIN new /\ new[n - 1] = q[n]
        BY <1>1, <2>1, <2>2, <3>3
      <4>. QED
        BY <2>4, <4>1 DEF QueuedIn
    <3>. QED
      BY <1>1, <2>1, <3>1, <3>2, <3>3
  <2>. QED
    BY <2>3, <2>4 DEF QueuedIn
<1>8. CASE sign = Positive
  BY <1>2, <1>5, <1>8, AddPositive
<1>9. CASE sign = Negative
  BY <1>2, <1>5, <1>6, <1>7, <1>9, AddNegative DEF HashedAt
<1>. QED
  BY <1>8, <1>9

\* A change of one object, for the ruling blocks that match on it.
LEMMA ChangeQueues ==
  ASSUME InvP, NEW i \in Ids, OpenQuietly(i) \/ Withdraw(i) \/ Publish(i),
         NEW rb \in RulingBlocks, Registered(rb), NEW j \in Ids \ {i}
  PROVE  QueuedIn(rblocks'[rb].queue, j) <=> QueuedIn(rblocks[rb].queue, j)
<1>1. CASE OpenQuietly(i)
  BY <1>1, QuietEffect DEF InvP
<1>2. ASSUME NEW sign \in {Positive, Negative}, Notify(sign, i, obj[i]), obj[i] \in Object,
             sign = Positive => ~Resting(obj, i)
      PROVE  QueuedIn(rblocks'[rb].queue, j) <=> QueuedIn(rblocks[rb].queue, j)
  <2>1. PICK q, x, last, new : /\ q = rblocks[rb].queue /\ x = obj[i] /\ last = rblocks[rb].last
                               /\ new = AddToQueue(q, last, sign, i, x)
    OBVIOUS
  <2>2. q \in Seq(Element) /\ QueueSound(q, obj, clock, rb) /\ rblocks[rb] \in Registration
    BY <2>1, RegistrationFields DEF InvP, QueuesSound
  <2>3. sign = Positive => HashedAt(q, i) = {}
    BY <1>2, <2>2, HashedElements DEF Matters
  <2>4. QueuedIn(new, j) <=> QueuedIn(q, j)
    <3>1. x \in Object
      BY <1>2, <2>1
    <3>. QED
      BY ONLY <2>1, <2>2, <2>3, <3>1, i \in Ids, j \in Ids \ {i}, sign \in {Positive, Negative},
         AddQueued
  <2>5. CASE Cares(rb, x.cls)
    <3>1. rblocks'[rb] = [rblocks[rb] EXCEPT !.queue = new]
      BY <1>2, <2>1, <2>5 DEF Notify
    <3>2. rblocks'[rb].queue = new
      BY <2>2, <3>1 DEF Registration
    <3>. QED
      BY <2>1, <2>4, <3>2
  <2>6. CASE ~Cares(rb, x.cls)
    BY <1>2, <2>1, <2>6 DEF Notify
  <2>. QED
    BY <2>5, <2>6
<1>3. CASE Withdraw(i)
  BY <1>2, <1>3, WithdrawEffect DEF InvP, Positive, Negative
<1>4. CASE Publish(i)
  BY <1>2, <1>4, PublishEffect DEF InvP
<1>. QED
  BY <1>1, <1>3, <1>4

LEMMA ViewChange ==
  ASSUME InvP, InvP', disciplined', Change
  PROVE  \E i \in Ids : View!Change(i)
<1>1. PICK i \in Ids : OpenQuietly(i) \/ Withdraw(i) \/ Publish(i)
  BY DEF Change
<1>2. UNCHANGED <<net, runs, disciplined>> /\ clock' \in Nat
  BY DEF Change, InvP, WmInv, Inv, TypeOK
<1>3. SameRegistrations /\ Others(i)
  BY <1>1, <1>2, QuietKeeps, WithdrawKeeps, PublishKeeps, QuietEffect, WithdrawEffect,
     PublishEffect DEF QueuesKept, InvP
<1>4. /\ \A rb \in RulingBlocks : Registered(rb)' <=> Registered(rb)
      /\ \A j \in Ids \ {i} : obj'[j] = obj[j]
  BY <1>3 DEF SameRegistrations, Others
<1>5. ViewFacts /\ ViewFacts'
  BY <1>2, ViewHolds, ViewHoldsNext
<1>6. Watching' = Watching
  BY <1>4 DEF Watching
<1>7. Pictured' = Pictured
  BY <1>2 DEF Pictured, Held
<1>8. ASSUME NEW rb \in RulingBlocks, NEW j \in Ids \ {i}
      PROVE  /\ Truth'[rb][j] = Truth[rb][j]
             /\ j \in Pending'[rb] <=> j \in Pending[rb]
  <2>1. Matters(obj', j, rb) <=> Matters(obj, j, rb)
    BY <1>4 DEF Matters, Resting
  <2>2. Truth'[rb][j] = Truth[rb][j]
    BY <1>4, <1>5, <2>1 DEF ViewFacts, TruthFacts
  <2>3. j \in Pending'[rb] <=> j \in Pending[rb]
    BY <1>1, <1>4, <1>5, ChangeQueues DEF ViewFacts, PendingFacts
  <2>. QED
    BY <2>2, <2>3
<1>9. ASSUME NEW rb \in RulingBlocks, rb \notin Watching
      PROVE  Truth'[rb] = Truth[rb] /\ Pending'[rb] = Pending[rb]
  <2>1. ~Registered(rb) /\ ~Registered(rb)'
    BY <1>4, <1>9 DEF Watching
  <2>2. \A j \in Ids : Truth'[rb][j] = Truth[rb][j]
    BY <1>5, <2>1 DEF ViewFacts, TruthFacts
  <2>3. Truth'[rb] = Truth[rb]
    BY <1>5, <2>2 DEF ViewFacts, ViewTypes
  <2>4. Pending'[rb] = {} /\ Pending[rb] = {}
    BY <1>5, <2>1 DEF ViewFacts, ViewTypes, PendingFacts
  <2>. QED
    BY <2>3, <2>4
<1>10. Truth' \in [RulingBlocks -> View!Picture] /\ Pending' \in [RulingBlocks -> SUBSET Ids]
  BY <1>5 DEF ViewFacts, ViewTypes, View!Picture, Known, Contents
<1>11. ASSUME NEW rb \in RulingBlocks PROVE View!Accurate(rb)'
  BY <1>5 DEF ViewFacts, PictureFacts, View!Accurate
<1>. QED
  BY <1>6, <1>7, <1>8, <1>9, <1>10, <1>11 DEF View!Change

\* One entry of a table of tables is replaced.
LEMMA OneEntry ==
  ASSUME NEW A, NEW B, NEW C, NEW f \in [A -> [B -> C]], NEW g \in [A -> [B -> C]],
         NEW a \in A, NEW b \in B, NEW c, g[a][b] = c,
         \A y \in B \ {b} : g[a][y] = f[a][y],
         \A x \in A \ {a} : \A y \in B : g[x][y] = f[x][y]
  PROVE  g = [f EXCEPT ![a][b] = c]
<1>1. ASSUME NEW x \in A \ {a} PROVE g[x] = f[x]
  OBVIOUS
<1>2. g[a] = [f[a] EXCEPT ![b] = c]
  OBVIOUS
<1>. QED
  BY <1>1, <1>2

\* A token teaches the viewer what an object is now, or makes it forget one.
LEMMA ViewPropagate ==
  ASSUME InvP, InvP', disciplined', NEW rb \in RulingBlocks, PropagateToken(rb)
  PROVE  \E i \in Ids : View!Forget(rb, i) \/ View!Learn(rb, i)
<1>1. /\ runs # << >> /\ UNCHANGED <<wmVars, runs>> /\ disciplined
      /\ rb \in Activates[Running.eb] /\ Ready(rblocks[rb].queue, Running.target)
  BY DEF PropagateToken, ToUpdate
<1>2. Registered(rb)
  BY <1>1, ActiveRegistered, RunsOf DEF Running, InvP
<1>3. PICK q, n, de, seen, tk :
        /\ q = rblocks[rb].queue /\ n = net[rb] /\ de = Head(q)
        /\ seen = TokenInstance(de, obj[de.id])
        /\ tk = [id |-> de.id, cls |-> seen.cls, val |-> seen.val]
  OBVIOUS
<1>4. /\ q \in Seq(Element) /\ q # << >> /\ n \in [Token -> Nat]
      /\ QueueSound(q, obj, clock, rb) /\ rblocks[rb] \in Registration
      /\ QueueExact(q, rblocks[rb].last, n, obj, rb)
      /\ obj \in [Ids -> Object \cup {Absent}]
  BY <1>1, <1>2, <1>3, RegistrationFields
     DEF Ready, InvP, TypeOKP, QueuesSound, QueuesExact, WmInv, Inv, TypeOK
<1>5. /\ de \in Element /\ de.id \in Ids /\ tk \in Token /\ tk.id = de.id
      /\ IF de.sign = Positive
         THEN /\ Matters(obj, de.id, rb) /\ tk = TokenOf(de.id, obj[de.id])
              /\ \A k \in DOMAIN q \ {1} : q[k].id # de.id
         ELSE /\ de.sign = Negative
              /\ de.snap \in [cls : Classes, val : Vals] /\ de.snap = Snapshot(tk)
              /\ \A k \in DOMAIN q \ {1} : q[k].id = de.id => q[k].sign = Positive
              /\ Matters(obj, de.id, rb) => \E k \in DOMAIN q \ {1} : q[k].id = de.id
  <2>1. HeadSpeaks(q, obj, rb, de, tk)
    BY ONLY <1>3, <1>4, HeadToken
  <2>. QED
    BY <2>1 DEF HeadSpeaks
<1>6. PICK i \in Ids : i = de.id
  BY <1>5
<1>7. PICK r : r = Tail(q)
  OBVIOUS
<1>8. /\ 1 \in DOMAIN q /\ de = q[1]
      /\ \A k \in DOMAIN r : k + 1 \in DOMAIN q \ {1} /\ r[k] = q[k + 1]
      /\ \A k \in DOMAIN q \ {1} : k - 1 \in DOMAIN r /\ r[k - 1] = q[k]
  BY <1>3, <1>4, <1>7, Rest
<1>9. /\ rblocks' = [rblocks EXCEPT ![rb].queue = r]
      /\ net' = [net EXCEPT ![rb] = AfterToken(n, de, tk)]
  BY <1>3, <1>7 DEF PropagateToken, AfterToken
<1>10. /\ rblocks'[rb].queue = r
       /\ \A rb2 \in RulingBlocks \ {rb} : rblocks'[rb2] = rblocks[rb2] /\ net'[rb2] = net[rb2]
       /\ \A t \in Token : t.id # i => net'[rb][t] = net[rb][t]
  <2>1. rblocks \in [RulingBlocks -> Registration \cup {Unregistered}]
        /\ net \in [RulingBlocks -> [Token -> Nat]]
    BY DEF InvP, TypeOKP
  <2>2. \A t \in Token : t.id # i => AfterToken(n, de, tk)[t] = n[t]
    BY <1>4, <1>5, <1>6 DEF AfterToken
  <2>3. rblocks'[rb].queue = r
    BY <1>4, <1>9, <2>1 DEF Registration
  <2>. QED
    BY <1>3, <1>9, <2>1, <2>2, <2>3
<1>11. \A rb2 \in RulingBlocks : Registered(rb2)' <=> Registered(rb2)
  <2>1. ASSUME NEW reg, reg = [rblocks[rb] EXCEPT !.queue = r] PROVE reg # Unregistered
    <3>1. r \in Seq(Element)
      BY <1>4, <1>7, Rest
    <3>2. reg \in Registration
      BY <1>4, <2>1, <3>1 DEF Registration
    <3>. QED
      BY <3>2, UnregisteredAssumption
  <2>2. rblocks'[rb] = [rblocks[rb] EXCEPT !.queue = r]
    BY <1>9 DEF InvP, TypeOKP
  <2>. QED
    BY <1>2, <1>10, <2>1, <2>2 DEF Registered
<1>12. ViewFacts /\ ViewFacts'
  BY <1>1, ViewHolds, ViewHoldsNext
<1>13. Watching' = Watching
  BY <1>11 DEF Watching
<1>14. Truth' = Truth
  <2>1. \A rb2 \in RulingBlocks, j \in Ids : Truth'[rb2][j] = Truth[rb2][j]
    BY <1>1, <1>11, <1>12 DEF ViewFacts, TruthFacts, wmVars
  <2>. QED
    BY <1>12, <2>1 DEF ViewFacts, ViewTypes
<1>15. /\ i \in Pending[rb]
       /\ \A j \in Ids \ {i} : j \in Pending'[rb] <=> j \in Pending[rb]
       /\ i \in Pending'[rb] <=> \E k \in DOMAIN q \ {1} : q[k].id = i
       /\ \A rb2 \in RulingBlocks \ {rb} : Pending'[rb2] = Pending[rb2]
  <2>1. \A j \in Ids : QueuedIn(r, j) <=> \E k \in DOMAIN q \ {1} : q[k].id = j
    BY <1>8 DEF QueuedIn
  <2>2. \A j \in Ids : QueuedIn(q, j) <=> j = i \/ \E k \in DOMAIN q \ {1} : q[k].id = j
    BY <1>6, <1>8 DEF QueuedIn
  <2>3. \A rb2 \in RulingBlocks \ {rb}, j \in Ids : j \in Pending'[rb2] <=> j \in Pending[rb2]
    BY <1>10, <1>11, <1>12 DEF ViewFacts, PendingFacts
  <2>4. \A rb2 \in RulingBlocks : Pending'[rb2] \subseteq Ids /\ Pending[rb2] \subseteq Ids
    BY <1>12 DEF ViewFacts, ViewTypes
  <2>5. \A rb2 \in RulingBlocks \ {rb} : Pending'[rb2] = Pending[rb2]
    BY <2>3, <2>4
  <2>. QED
    BY <1>2, <1>3, <1>10, <1>11, <1>12, <2>1, <2>2, <2>5 DEF ViewFacts, PendingFacts
<1>16. /\ \A j \in Ids \ {i} : Pictured'[rb][j] = Pictured[rb][j]
       /\ \A rb2 \in RulingBlocks \ {rb} : \A j \in Ids : Pictured'[rb2][j] = Pictured[rb2][j]
  <2>1. \A j \in Ids \ {i} : Held(rb, j)' = Held(rb, j)
    BY <1>10 DEF Held
  <2>2. \A rb2 \in RulingBlocks \ {rb} : \A j \in Ids : Held(rb2, j)' = Held(rb2, j)
    BY <1>10 DEF Held
  <2>. QED
    BY <2>1, <2>2 DEF Pictured
<1>17. ASSUME NEW c, Pictured'[rb][i] = c
       PROVE  Pictured' = [Pictured EXCEPT ![rb][i] = c]
  <2>1. /\ Pictured \in [RulingBlocks -> [Ids -> Known]]
        /\ Pictured' \in [RulingBlocks -> [Ids -> Known]]
    BY <1>12 DEF ViewFacts, ViewTypes
  <2>. QED
    BY ONLY <1>16, <1>17, <2>1, i \in Ids, rb \in RulingBlocks, OneEntry
<1>18. /\ i \notin Pending'[rb] => Pending' = [Pending EXCEPT ![rb] = @ \ {i}]
       /\ i \in Pending'[rb] => Pending' = Pending
  <2>1. /\ Pending \in [RulingBlocks -> SUBSET Ids] /\ Pending' \in [RulingBlocks -> SUBSET Ids]
    BY <1>12 DEF ViewFacts, ViewTypes
  <2>2. i \notin Pending'[rb] => Pending'[rb] = Pending[rb] \ {i}
    BY <1>15, <2>1
  <2>3. i \in Pending'[rb] => Pending'[rb] = Pending[rb]
    BY <1>15, <2>1
  <2>. QED
    BY <1>15, <2>1, <2>2, <2>3
<1>19. CASE de.sign = Positive
  <2>1. i \notin Pending'[rb]
    BY <1>5, <1>6, <1>15, <1>19
  <2>2. Pictured[rb][i] = NoSnapshot
    <3>1. \A k \in DOMAIN q : q[k].id = i => q[k].sign = Positive
      BY <1>5, <1>6, <1>8, <1>19
    <3>. QED
      BY <1>3, <1>12, <1>15, <3>1 DEF ViewFacts, PictureFacts
  <2>3. Pictured'[rb][i] = Truth[rb][i]
    BY <1>12, <1>14, <2>1 DEF ViewFacts, PictureFacts
  <2>4. View!Learn(rb, i)
    BY <1>13, <1>14, <1>15, <1>17, <1>18, <2>1, <2>2, <2>3 DEF View!Learn
  <2>. QED
    BY <2>4
<1>20. CASE de.sign # Positive
  <2>1. i \in Pending'[rb] <=> Matters(obj, i, rb)
    <3>1. ASSUME NEW k \in DOMAIN q \ {1}, q[k].id = i PROVE Matters(obj, i, rb)
      <4>1. q[k].hashed
        BY <1>4, <1>5, <1>6, <1>20, <3>1 DEF QueueExact, Cancellable
      <4>. QED
        BY <1>4, <3>1, <4>1 DEF QueueSound, Announces
    <3>. QED
      BY <1>5, <1>6, <1>15, <1>20, <3>1
  <2>2. Pictured'[rb][i] = NoSnapshot
    <3>1. CASE i \in Pending'[rb]
      <4>1. \A k \in DOMAIN r : r[k].id = i => r[k].sign = Positive
        BY <1>5, <1>6, <1>8, <1>20
      <4>. QED
        BY <1>10, <1>12, <3>1, <4>1 DEF ViewFacts, PictureFacts
    <3>2. CASE i \notin Pending'[rb]
      <4>1. Truth[rb][i] = NoSnapshot
        BY <1>12, <2>1, <3>2 DEF ViewFacts, TruthFacts
      <4>. QED
        BY <1>12, <1>14, <3>2, <4>1 DEF ViewFacts, PictureFacts
    <3>. QED
      BY <3>1, <3>2
  <2>3. Truth[rb][i] = NoSnapshot <=> i \notin Pending'[rb]
    BY <1>2, <1>12, <2>1 DEF ViewFacts, TruthFacts
  <2>4. Pictured' = [Pictured EXCEPT ![rb][i] = NoSnapshot]
    BY <1>17, <2>2
  <2>5. Pending' = [Pending EXCEPT ![rb] = IF Truth[rb][i] = NoSnapshot THEN @ \ {i} ELSE @]
    BY <1>12, <1>18, <2>3 DEF ViewFacts, ViewTypes
  <2>6. View!Forget(rb, i)
    BY <1>13, <1>14, <1>15, <2>4, <2>5 DEF View!Forget
  <2>. QED
    BY <2>6
<1>. QED
  BY <1>19, <1>20

LEMMA ViewStart ==
  ASSUME InvP, InvP', disciplined', NEW eb \in EntryBlocks, EnterEntryBlock(eb)
  PROVE  \E s \in SUBSET RulingBlocks : View!Start(s)
<1>1. PICK s \in SUBSET RulingBlocks : s = Activates[eb]
  BY ActivatesAssumption
<1>2. disciplined /\ UNCHANGED wmVars
  BY DEF EnterEntryBlock
<1>3. ViewFacts /\ ViewFacts'
  BY <1>2, ViewHolds, ViewHoldsNext
<1>4. ASSUME NEW rb \in RulingBlocks
      PROVE  /\ Registered(rb)' <=> Registered(rb) \/ rb \in s
             /\ Registered(rb) => /\ rblocks'[rb].queue = rblocks[rb].queue
                                  /\ net'[rb] = net[rb]
             /\ ~Registered(rb) /\ rb \notin s => net'[rb] = net[rb]
             /\ ~Registered(rb) /\ rb \in s => rblocks'[rb].queue = << >>
  <2>1. CASE Registered(rb)
    <3>1. rblocks[rb] \in Registration
      BY <2>1, RegistrationFields DEF InvP
    <3>2. ASSUME NEW reg, reg = [rblocks[rb] EXCEPT !.uses = @ + 1]
          PROVE  reg \in Registration /\ reg.queue = rblocks[rb].queue
      BY <3>1, <3>2 DEF Registration
    <3>3. rblocks'[rb] = [rblocks[rb] EXCEPT !.uses = @ + 1] \/ rblocks'[rb] = rblocks[rb]
      BY <2>1 DEF EnterEntryBlock, AfterRegister
    <3>4. rblocks'[rb] \in Registration /\ rblocks'[rb].queue = rblocks[rb].queue
      BY <3>1, <3>2, <3>3
    <3>5. net'[rb] = net[rb]
      BY <2>1 DEF EnterEntryBlock
    <3>. QED
      BY <2>1, <3>4, <3>5, UnregisteredAssumption DEF Registered
  <2>2. CASE ~Registered(rb) /\ rb \in s
    <3>1. rblocks'[rb] = [uses |-> 1, last |-> clock, queue |-> << >>]
      BY <1>1, <2>2 DEF EnterEntryBlock, AfterRegister
    <3>2. rblocks'[rb] \in Registration
      BY <3>1 DEF Registration, InvP, WmInv, Inv, TypeOK
    <3>. QED
      BY <2>2, <3>1, <3>2, UnregisteredAssumption DEF Registered
  <2>3. CASE ~Registered(rb) /\ rb \notin s
    BY <1>1, <2>3 DEF EnterEntryBlock, Registered
  <2>. QED
    BY <2>1, <2>2, <2>3
<1>5. Watching' = Watching \cup s
  BY <1>4 DEF Watching
<1>6. ASSUME NEW rb \in RulingBlocks PROVE Pending'[rb] = Pending[rb]
  <2>1. ASSUME NEW i \in Ids PROVE i \in Pending'[rb] <=> i \in Pending[rb]
    <3>1. ~QueuedIn(<< >>, i)
      BY DEF QueuedIn
    <3>. QED
      BY <1>3, <1>4, <3>1 DEF ViewFacts, PendingFacts
  <2>. QED
    BY <1>3, <2>1 DEF ViewFacts, ViewTypes
<1>7. Pending' = Pending
  BY <1>3, <1>6 DEF ViewFacts, ViewTypes
<1>8. ASSUME NEW rb \in RulingBlocks \ (s \ Watching)
      PROVE  Truth'[rb] = Truth[rb] /\ Pictured'[rb] = Pictured[rb]
  <2>1. /\ Registered(rb)' <=> Registered(rb)
        /\ net'[rb] = net[rb]
    BY <1>4, <1>8 DEF Watching
  <2>2. \A i \in Ids : Truth'[rb][i] = Truth[rb][i]
    BY <1>2, <1>3, <2>1 DEF ViewFacts, TruthFacts, wmVars
  <2>3. \A i \in Ids : Held(rb, i)' = Held(rb, i)
    BY <2>1 DEF Held
  <2>. QED
    BY <1>3, <2>2, <2>3 DEF ViewFacts, ViewTypes, Pictured
<1>9. ASSUME NEW rb \in s \ Watching
      PROVE  Pictured'[rb] = Truth'[rb]
  <2>1. ASSUME NEW i \in Ids PROVE Pictured'[rb][i] = Truth'[rb][i]
    <3>1. ~Registered(rb)
      BY <1>9 DEF Watching
    <3>2. i \notin Pending'[rb]
      BY <1>3, <1>6, <3>1 DEF ViewFacts, PendingFacts
    <3>. QED
      BY <1>3, <3>2 DEF ViewFacts, PictureFacts
  <2>. QED
    BY <1>3, <2>1 DEF ViewFacts, ViewTypes
<1>10. Pictured' = [rb \in RulingBlocks |-> IF rb \in s \ Watching THEN Truth'[rb]
                                            ELSE Pictured[rb]]
  BY <1>3, <1>8, <1>9 DEF ViewFacts, ViewTypes
<1>11. Truth' \in [RulingBlocks -> View!Picture]
  BY <1>3 DEF ViewFacts, ViewTypes, View!Picture, Known, Contents
<1>12. View!Start(s)
  BY <1>5, <1>7, <1>8, <1>10, <1>11 DEF View!Start
<1>. QED
  BY <1>12

LEMMA ViewStop ==
  ASSUME InvP, InvP', disciplined', ExitEntryBlock
  PROVE  \E s \in SUBSET RulingBlocks : View!Stop(s)
<1>1. PICK s \in SUBSET RulingBlocks : s = {rb \in RulingBlocks : ~Registered(rb)'}
  OBVIOUS
<1>2. disciplined /\ UNCHANGED wmVars
  BY DEF ExitEntryBlock
<1>3. ViewFacts /\ ViewFacts'
  BY <1>2, ViewHolds, ViewHoldsNext
<1>4. ASSUME NEW rb \in RulingBlocks, rb \notin s
      PROVE  /\ Registered(rb)' /\ Registered(rb)
             /\ rblocks'[rb].queue = rblocks[rb].queue /\ net'[rb] = net[rb]
  <2>1. Registered(rb)' /\ net'[rb] = net[rb]
    BY <1>1, <1>4 DEF ExitEntryBlock, Registered
  <2>2. CASE rb \in Activates[Running.eb]
    <3>1. runs # << >>
      BY DEF ExitEntryBlock, BackInCycle
    <3>2. Registered(rb)
      BY <2>2, <3>1, ActiveRegistered, RunsOf DEF InvP, Running
    <3>3. rblocks[rb] \in Registration
      BY <3>2, RegistrationFields DEF InvP
    <3>4. rblocks'[rb] = [rblocks[rb] EXCEPT !.uses = @ - 1]
      BY <2>1, <2>2 DEF ExitEntryBlock, AfterUnregister, Registered
    <3>5. rblocks'[rb].queue = rblocks[rb].queue
      BY <3>3, <3>4 DEF Registration
    <3>. QED
      BY <2>1, <3>2, <3>5
  <2>3. CASE rb \notin Activates[Running.eb]
    <3>1. rblocks'[rb] = rblocks[rb]
      BY <2>3 DEF ExitEntryBlock
    <3>. QED
      BY <2>1, <3>1 DEF Registered
  <2>. QED
    BY <2>2, <2>3
<1>5. Watching' = Watching \ s
  BY <1>1, <1>4 DEF Watching
<1>6. ASSUME NEW rb \in s
      PROVE  /\ Truth'[rb] = View!Blank /\ Pictured'[rb] = View!Blank /\ Pending'[rb] = {}
  <2>1. ~Registered(rb)'
    BY <1>1, <1>6
  <2>2. \A i \in Ids : Truth'[rb][i] = NoSnapshot /\ Pictured'[rb][i] = NoSnapshot
    BY <1>3, <2>1 DEF ViewFacts, TruthFacts, PictureFacts
  <2>3. Pending'[rb] = {}
    BY <1>3, <2>1 DEF ViewFacts, ViewTypes, PendingFacts
  <2>. QED
    BY <1>3, <2>2, <2>3 DEF ViewFacts, ViewTypes, View!Blank
<1>7. ASSUME NEW rb \in RulingBlocks, rb \notin s
      PROVE  /\ Truth'[rb] = Truth[rb] /\ Pictured'[rb] = Pictured[rb]
             /\ Pending'[rb] = Pending[rb]
  <2>1. \A i \in Ids : Truth'[rb][i] = Truth[rb][i]
    BY <1>2, <1>3, <1>4, <1>7 DEF ViewFacts, TruthFacts, wmVars
  <2>2. \A i \in Ids : Held(rb, i)' = Held(rb, i)
    BY <1>4, <1>7 DEF Held
  <2>3. \A i \in Ids : i \in Pending'[rb] <=> i \in Pending[rb]
    BY <1>3, <1>4, <1>7 DEF ViewFacts, PendingFacts
  <2>. QED
    BY <1>3, <2>1, <2>2, <2>3 DEF ViewFacts, ViewTypes, Pictured
<1>8. Truth' = [rb \in RulingBlocks |-> IF rb \in s THEN View!Blank ELSE Truth[rb]]
  BY <1>3, <1>6, <1>7 DEF ViewFacts, ViewTypes
<1>9. Pictured' = [rb \in RulingBlocks |-> IF rb \in s THEN View!Blank ELSE Pictured[rb]]
  BY <1>3, <1>6, <1>7 DEF ViewFacts, ViewTypes
<1>10. Pending' = [rb \in RulingBlocks |-> IF rb \in s THEN {} ELSE Pending[rb]]
  BY <1>3, <1>6, <1>7 DEF ViewFacts, ViewTypes
<1>11. View!Stop(s)
  BY <1>5, <1>8, <1>9, <1>10 DEF View!Stop
<1>. QED
  BY <1>11

\* Nothing a viewer could see moves.
LEMMA ViewStill ==
  ASSUME UNCHANGED <<wmVars, rblocks, net>>
  PROVE  UNCHANGED View!vars
<1>1. UNCHANGED Watching
  BY DEF Watching, Registered
<1>2. UNCHANGED Truth
  BY DEF Truth, Relevant, AtRest, Exists, Cares, Registered, wmVars
<1>3. UNCHANGED Pictured
  BY DEF Pictured, Held
<1>4. UNCHANGED Pending
  BY DEF Pending, Registered, Queued
<1>. QED
  BY <1>1, <1>2, <1>3, <1>4 DEF View!vars

LEMMA ViewInit ==
  ASSUME InitP
  PROVE  View!Init
<1>1. InvP /\ disciplined /\ \A rb \in RulingBlocks : ~Registered(rb)
  BY InvPInit DEF InitP, Registered
<1>2. ViewFacts
  BY <1>1, ViewHolds
<1>3. Watching = {}
  BY <1>1 DEF Watching
<1>4. ASSUME NEW rb \in RulingBlocks
      PROVE  Truth[rb] = View!Blank /\ Pictured[rb] = View!Blank /\ Pending[rb] = {}
  BY <1>1, <1>2 DEF ViewFacts, ViewTypes, TruthFacts, PictureFacts, PendingFacts, View!Blank
<1>. QED
  BY <1>2, <1>3, <1>4 DEF ViewFacts, ViewTypes, View!Init

LEMMA ViewNext ==
  ASSUME InvP, InvP', [NextP]_vars
  PROVE  [disciplined' => View!Next]_(View!vars)
<1>. SUFFICES ASSUME disciplined'
              PROVE  View!Next \/ UNCHANGED View!vars
  OBVIOUS
<1>1. CASE UNCHANGED vars
  BY <1>1, ViewStill DEF vars, wmVars
<1>2. CASE Change
  BY <1>2, ViewChange DEF View!Next
<1>3. ASSUME NEW eb \in EntryBlocks, EnterEntryBlock(eb)
      PROVE  View!Next
  BY <1>3, ViewStart DEF View!Next
<1>4. CASE BeginUpdate \/ EndUpdate
  BY <1>4, ViewStill DEF BeginUpdate, EndUpdate
<1>5. ASSUME NEW rb \in RulingBlocks, PropagateToken(rb)
      PROVE  View!Next
  BY <1>5, ViewPropagate DEF View!Next
<1>6. CASE ExitEntryBlock
  BY <1>6, ViewStop DEF View!Next
<1>. QED
  BY <1>1, <1>2, <1>3, <1>4, <1>5, <1>6 DEF NextP

\* A disciplined program implements LazyView: whatever the program does to
\* working memory, a network only ever forgets an object or learns it as it is
\* at that moment, one queued object at a time.
THEOREM ViewImplemented == SpecP => ImplementsView
<1>1. InitP => View!Init
  BY ViewInit
<1>2. InvP /\ InvP' /\ [NextP]_vars => [disciplined' => View!Next]_(View!vars)
  BY ViewNext
<1>. QED
  BY <1>1, <1>2, InvPInit, InvPNext, PTL DEF SpecP, ImplementsView
=============================================================================
