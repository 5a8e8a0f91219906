---------------------------- MODULE WmSweepProofs ----------------------------
(***************************************************************************)
(* The sweeps of WmSweep keep their places in the lists of working memory  *)
(* and remove all they were asked to remove, for any number of objects,    *)
(* classes and blocks, and any nesting of sweeps, removals and changes,    *)
(* unless code that a sweep called takes the object at its place.          *)
(*                                                                         *)
(* A list is in the order of its cells, so what lies ahead of a sweep is a *)
(* comparison of cells, which nothing changes that other code lists or     *)
(* takes from the lists; and what a sweep was asked for is under no change *)
(* of a frame below it (SweepOK).                                          *)
(***************************************************************************)
EXTENDS WmSweep, SequenceFacts, FiniteSetTheorems

ChangeFrame == [kind : {"change"}, of : Id]
RemovalFrame == [kind : {"removal"}, of : Id, cell : Nat]
SweepFrame == [kind : {"sweep"}, class : Class \cup {NoClass}, block : 1 .. Len(Block) + 1,
               cursor : Int, lost : BOOLEAN, of : SUBSET Nat]
Frame == ChangeFrame \cup RemovalFrame \cup SweepFrame
Record == [class : Class \cup {"none"}, changes : Int, cell : Nat]

Types ==
  /\ obj \in [Id -> Record]
  /\ lists \in [Range(Block) -> Seq(Id)]
  /\ nextCell \in Nat \ {0}
  /\ stack \in Seq(Frame)

FramesOn(o) == {i \in DOMAIN stack : stack[i].kind # "sweep" /\ stack[i].of = o}
BeingRemoved(o) == \E i \in DOMAIN stack : stack[i].kind = "removal" /\ stack[i].of = o

\* The changes of an object are counted in it, and none is of one that is gone.
Nesting ==
  \A o \in Id : /\ IsFiniteSet(FramesOn(o))
                /\ obj[o].changes = Cardinality(FramesOn(o))
                /\ FramesOn(o) # {} => o \in Objects

\* An object being removed is under no other change, and has its cell still.
RemovalsApart ==
  \A i \in DOMAIN stack, o \in Id :
    stack[i].kind = "removal" /\ stack[i].of = o => /\ stack[i].cell = obj[o].cell
                                                   /\ FramesOn(o) = {i}

CellsOwn ==
  \A o \in Objects : /\ obj[o].cell \in 1 .. nextCell - 1
                     /\ \A p \in Objects : obj[p].cell = obj[o].cell => p = o

\* The lists hold the objects not being removed, in the order of their cells.
ListsHold ==
  \A b \in Range(Block), o \in Id :
    o \in Range(lists[b]) <=> /\ o \in Objects /\ ~BeingRemoved(o)
                              /\ ClassBlock[obj[o].class] = b
ListsAscend ==
  \A b \in Range(Block) : \A j, k \in DOMAIN lists[b] :
    j < k => obj[lists[b][j]].cell < obj[lists[b][k]].cell

\* The sweep s has not come to the object o yet.
Ahead(s, o) ==
  LET p == Place(Block, ClassBlock[obj[o].class])
  IN  s.block < p \/ (s.block = p /\ s.cursor # NULL /\ s.cursor <= obj[o].cell)

\* What a sweep was asked for is under no change of code below it; and while the
\* sweep has its place, that is live, and what it was asked for is ahead of it,
\* being removed, or gone.
SweepOK(i) ==
  LET s == stack[i]
  IN  /\ \A j \in 1 .. i - 1 : stack[j].kind # "sweep" => obj[stack[j].of].cell \notin s.of
      /\ s.of \subseteq 1 .. nextCell - 1
      /\ ~s.lost =>
           /\ PlaceLive(s)
           /\ \A o \in Objects :
                Seeks(s, obj[o].class) /\ obj[o].cell \in s.of => BeingRemoved(o) \/ Ahead(s, o)

Inv == /\ Types /\ Nesting /\ RemovalsApart /\ CellsOwn
       /\ ListsHold /\ ListsAscend
       /\ \A i \in Sweeps : SweepOK(i)

Assumptions == BlockAssumption /\ ClassAssumption

-----------------------------------------------------------------------------
(* The stack *)

LEMMA FrontOf ==
  ASSUME NEW S, NEW s \in Seq(S), s # <<>>
  PROVE  /\ Front(s) \in Seq(S) /\ Len(Front(s)) = Len(s) - 1
         /\ DOMAIN Front(s) = 1 .. Len(s) - 1
         /\ \A i \in 1 .. Len(s) - 1 : Front(s)[i] = s[i]
         /\ Len(s) \in DOMAIN s /\ Len(s) \in Nat \ {0} /\ DOMAIN s = 1 .. Len(s)
         /\ Last(s) = s[Len(s)] /\ Last(s) \in S
<1>1. Len(s) \in Nat \ {0} /\ DOMAIN s = 1 .. Len(s) /\ Len(s) \in DOMAIN s
  OBVIOUS
<1>2. Len(s) - 1 \in 0 .. Len(s)
  BY <1>1
<1>. DEFINE n == Len(s) - 1
<1>3. n \in 0 .. Len(s) /\ Front(s) = SubSeq(s, 1, n)
  BY <1>2 DEF Front
<1>. HIDE DEF n
<1>4. /\ SubSeq(s, 1, n) \in Seq(S)
      /\ Len(SubSeq(s, 1, n)) = n /\ DOMAIN SubSeq(s, 1, n) = 1 .. n
      /\ \A i \in 1 .. n : SubSeq(s, 1, n)[i] = s[i]
  BY <1>3, Prefix
<1>5. Last(s) = s[Len(s)] /\ Last(s) \in S
  BY <1>1 DEF Last
<1>. QED
  BY <1>1, <1>3, <1>4, <1>5 DEF n

LEMMA PushedOn ==
  ASSUME NEW S, NEW s \in Seq(S), NEW e \in S
  PROVE  /\ Append(s, e) \in Seq(S) /\ Len(Append(s, e)) = Len(s) + 1
         /\ DOMAIN Append(s, e) = 1 .. Len(s) + 1
         /\ \A i \in 1 .. Len(s) : Append(s, e)[i] = s[i]
         /\ Append(s, e)[Len(s) + 1] = e
         /\ Len(s) \in Nat /\ DOMAIN s = 1 .. Len(s)
OBVIOUS

\* Where an element of a sequence without repetitions stands.
LEMMA Placed ==
  ASSUME NEW S, NEW s \in Seq(S), NEW i \in DOMAIN s,
         \A j, k \in DOMAIN s : s[j] = s[k] => j = k
  PROVE  Place(s, s[i]) = i
BY DEF Place

\* The headers are the negated numbers of the blocks.
LEMMA Headers ==
  ASSUME BlockAssumption, NEW n \in 1 .. Len(Block)
  PROVE  /\ Place(Block, Block[n]) = n /\ Header(Block[n]) = -n
         /\ Block[n] \in Range(Block)
<1>1. Block \in Seq(Range(Block)) /\ n \in DOMAIN Block
  BY DEF BlockAssumption
<1>2. \A j, k \in DOMAIN Block : Block[j] = Block[k] => j = k
  BY DEF BlockAssumption, IsInjective
<1>3. Place(Block, Block[n]) = n
  BY <1>1, <1>2, Placed
<1>. QED
  BY <1>1, <1>3 DEF Header, Range

\* A block stands where it is in the list of blocks.
LEMMA Blocks ==
  ASSUME BlockAssumption, NEW b \in Range(Block)
  PROVE  /\ Place(Block, b) \in 1 .. Len(Block) /\ Block[Place(Block, b)] = b
         /\ Header(b) = -Place(Block, b) /\ Len(Block) \in Nat
<1>1. Block \in Seq(Range(Block))
  BY DEF BlockAssumption
<1>2. PICK n \in DOMAIN Block : Block[n] = b
  BY DEF Range
<1>3. n \in 1 .. Len(Block)
  BY <1>1
<1>. QED
  BY <1>1, <1>2, <1>3, Headers DEF Header

LEMMA FrameKinds ==
  ASSUME NEW f \in Frame
  PROVE  /\ f.kind \in {"change", "removal", "sweep"}
         /\ f.kind # "sweep" => f.of \in Id
         /\ f.kind = "removal" => f.cell \in Nat
         /\ f.kind = "sweep" => f \in SweepFrame
BY DEF Frame, ChangeFrame, RemovalFrame, SweepFrame

\* Two stacks that differ in where their sweeps are.
SameFrames(s) ==
  /\ s \in Seq(Frame) /\ Len(s) = Len(stack)
  /\ \A j \in DOMAIN stack : s[j] = stack[j] \/ (s[j].kind = "sweep" /\ stack[j].kind = "sweep")

LEMMA Unmoved ==
  ASSUME Types
  PROVE  SameFrames(stack)
BY DEF SameFrames, Types

\* What becomes of a frame that other code runs above: a sweep may lose its place.
Kept(f, g) ==
  /\ g.kind = f.kind
  /\ f.kind # "sweep" => g = f
  /\ f.kind = "sweep" => g.of = f.of /\ (~g.lost => g = f)

LEMMA MarkedKeeps ==
  ASSUME NEW s \in Seq(Frame), NEW o
  PROVE  /\ Marked(s, o) \in Seq(Frame) /\ Len(Marked(s, o)) = Len(s)
         /\ DOMAIN Marked(s, o) = DOMAIN s
         /\ \A i \in DOMAIN s :
              /\ Marked(s, o)[i] \in Frame /\ Kept(s[i], Marked(s, o)[i])
              /\ s[i].kind = "sweep" /\ ~Marked(s, o)[i].lost => s[i].cursor # obj[o].cell
<1>. DEFINE m == Marked(s, o)
<1>1. DOMAIN s = 1 .. Len(s) /\ Len(s) \in Nat
  OBVIOUS
<1>2. DOMAIN m = DOMAIN s
  BY DEF Marked
<1>3. ASSUME NEW i \in DOMAIN s
      PROVE  /\ m[i] \in Frame /\ Kept(s[i], m[i])
             /\ s[i].kind = "sweep" /\ ~m[i].lost => s[i].cursor # obj[o].cell
  <2>1. s[i] \in Frame
    OBVIOUS
  <2>2. CASE s[i].kind = "sweep" /\ s[i].cursor = obj[o].cell
    <3>1. m[i] = [s[i] EXCEPT !.lost = TRUE] /\ s[i] \in SweepFrame
      BY <2>1, <2>2, FrameKinds DEF Marked
    <3>2. m[i] \in SweepFrame /\ m[i].kind = "sweep" /\ m[i].of = s[i].of /\ m[i].lost
      BY <3>1 DEF SweepFrame
    <3>. QED
      BY <2>2, <3>2 DEF Frame, Kept
  <2>3. CASE ~(s[i].kind = "sweep" /\ s[i].cursor = obj[o].cell)
    <3>1. m[i] = s[i]
      BY <2>3 DEF Marked
    <3>. QED
      BY <2>1, <2>3, <3>1 DEF Kept
  <2>. QED
    BY <2>2, <2>3
<1>. HIDE DEF m
<1>4. m \in Seq(Frame) /\ Len(m) = Len(s)
  <2>1. m = [i \in 1 .. Len(s) |-> m[i]]
    <3>1. m = [i \in DOMAIN s |-> m[i]]
      BY DEF m, Marked
    <3>. QED
      BY <1>1, <3>1
  <2>. QED
    BY <1>1, <1>2, <1>3, <2>1
<1>. QED
  BY <1>2, <1>3, <1>4 DEF m

LEMMA PushFrames ==
  ASSUME Types, Nesting, NEW s, SameFrames(s), NEW f \in Frame, stack' = Append(s, f),
         NEW o \in Id
  PROVE  /\ IsFiniteSet(FramesOn(o)')
         /\ (f.kind # "sweep" /\ f.of = o) =>
              /\ FramesOn(o)' = FramesOn(o) \cup {Len(stack) + 1}
              /\ Cardinality(FramesOn(o)') = Cardinality(FramesOn(o)) + 1
         /\ ~(f.kind # "sweep" /\ f.of = o) => FramesOn(o)' = FramesOn(o)
         /\ BeingRemoved(o)' <=> BeingRemoved(o) \/ (f.kind = "removal" /\ f.of = o)
<1>1. /\ s \in Seq(Frame) /\ Len(s) = Len(stack) /\ DOMAIN s = DOMAIN stack
      /\ Len(stack) \in Nat /\ DOMAIN stack = 1 .. Len(stack)
      /\ \A j \in DOMAIN stack :
            s[j] = stack[j] \/ (s[j].kind = "sweep" /\ stack[j].kind = "sweep")
  BY DEF SameFrames, Types
<1>2. /\ DOMAIN stack' = 1 .. Len(stack) + 1
      /\ \A j \in DOMAIN stack : stack'[j] = s[j]
      /\ stack'[Len(stack) + 1] = f
  BY <1>1, PushedOn
<1>3. IsFiniteSet(FramesOn(o)) /\ Len(stack) + 1 \notin FramesOn(o)
  BY <1>1 DEF Nesting, FramesOn
<1>4. \A j \in DOMAIN stack : stack'[j] = stack[j] \/ (stack'[j].kind = "sweep" /\ stack[j].kind = "sweep")
  BY <1>1, <1>2
<1>5. ASSUME f.kind # "sweep", f.of = o
      PROVE  FramesOn(o)' = FramesOn(o) \cup {Len(stack) + 1}
  BY <1>1, <1>2, <1>4, <1>5 DEF FramesOn
<1>6. ASSUME ~(f.kind # "sweep" /\ f.of = o)
      PROVE  FramesOn(o)' = FramesOn(o)
  BY <1>1, <1>2, <1>4, <1>6 DEF FramesOn
<1>7. BeingRemoved(o)' <=> BeingRemoved(o) \/ (f.kind = "removal" /\ f.of = o)
  BY <1>1, <1>2, <1>4 DEF BeingRemoved
<1>8. /\ IsFiniteSet(FramesOn(o) \cup {Len(stack) + 1})
      /\ Cardinality(FramesOn(o) \cup {Len(stack) + 1}) = Cardinality(FramesOn(o)) + 1
  BY <1>3, FS_AddElement
<1>. QED
  BY <1>3, <1>5, <1>6, <1>7, <1>8

LEMMA PopFrames ==
  ASSUME Types, Nesting, stack # <<>>, stack' = Front(stack), NEW o \in Id
  PROVE  /\ IsFiniteSet(FramesOn(o)')
         /\ (Top.kind # "sweep" /\ Top.of = o) =>
              /\ Len(stack) \in FramesOn(o)
              /\ FramesOn(o)' = FramesOn(o) \ {Len(stack)}
              /\ Cardinality(FramesOn(o)') = Cardinality(FramesOn(o)) - 1
         /\ ~(Top.kind # "sweep" /\ Top.of = o) => FramesOn(o)' = FramesOn(o)
         /\ ~(Top.kind = "removal" /\ Top.of = o) => (BeingRemoved(o)' <=> BeingRemoved(o))
<1>1. /\ Len(stack) \in Nat \ {0} /\ DOMAIN stack = 1 .. Len(stack)
      /\ DOMAIN stack' = 1 .. Len(stack) - 1
      /\ \A j \in 1 .. Len(stack) - 1 : stack'[j] = stack[j]
      /\ Top = stack[Len(stack)]
  BY FrontOf DEF Types, Top
<1>2. IsFiniteSet(FramesOn(o)) /\ Cardinality(FramesOn(o)) \in Nat
  BY FS_CardinalityType DEF Nesting
<1>3. FramesOn(o)' = FramesOn(o) \ {Len(stack)}
  BY <1>1 DEF FramesOn
<1>4. Len(stack) \in FramesOn(o) <=> Top.kind # "sweep" /\ Top.of = o
  BY <1>1 DEF FramesOn
<1>5. ~(Top.kind = "removal" /\ Top.of = o) => (BeingRemoved(o)' <=> BeingRemoved(o))
  BY <1>1 DEF BeingRemoved
<1>6. /\ IsFiniteSet(FramesOn(o) \ {Len(stack)})
      /\ Len(stack) \in FramesOn(o) =>
           Cardinality(FramesOn(o) \ {Len(stack)}) = Cardinality(FramesOn(o)) - 1
  BY <1>2, FS_RemoveElement, FS_Difference
<1>7. Len(stack) \notin FramesOn(o) => FramesOn(o)' = FramesOn(o)
  BY <1>3
<1>. QED
  BY <1>3, <1>4, <1>5, <1>6, <1>7

LEMMA KeepFrames ==
  ASSUME Types, SameFrames(stack'), NEW o \in Id
  PROVE  FramesOn(o)' = FramesOn(o) /\ (BeingRemoved(o)' <=> BeingRemoved(o))
<1>1. /\ Len(stack') = Len(stack) /\ DOMAIN stack' = DOMAIN stack
      /\ \A j \in DOMAIN stack :
            stack'[j] = stack[j] \/ (stack'[j].kind = "sweep" /\ stack[j].kind = "sweep")
  BY DEF SameFrames, Types
<1>. QED
  BY <1>1 DEF FramesOn, BeingRemoved

\* An object under no change has no frame.
LEMMA AtRest ==
  ASSUME Nesting, NEW o \in Id, obj[o].changes = 0
  PROVE  FramesOn(o) = {} /\ ~BeingRemoved(o)
<1>1. FramesOn(o) = {}
  BY FS_EmptySet DEF Nesting
<1>. QED
  BY <1>1 DEF FramesOn, BeingRemoved

-----------------------------------------------------------------------------
(* Objects and their frames *)

LEMMA ObjectsAre ==
  ASSUME Types, NEW o \in Id
  PROVE  /\ o \in Objects <=> obj[o].class \in Class
         /\ obj[o] \in Record
BY DEF Types, Objects

LEMMA PushNests ==
  ASSUME Inv, Types', NEW s, SameFrames(s), NEW f \in Frame, stack' = Append(s, f),
         f.kind # "sweep" => /\ f.of \in Objects /\ ~BeingRemoved(f.of)
                             /\ obj'[f.of].changes = obj[f.of].changes + 1,
         f.kind = "removal" => obj[f.of].changes = 0 /\ f.cell = obj[f.of].cell,
         \A o \in Id : /\ obj'[o].cell = obj[o].cell /\ obj'[o].class = obj[o].class
                       /\ ~(f.kind # "sweep" /\ f.of = o) => obj'[o].changes = obj[o].changes
  PROVE  Nesting' /\ RemovalsApart'
<1>1. Types /\ Nesting /\ RemovalsApart
  BY DEF Inv
<1>2. ASSUME NEW o \in Id
      PROVE  /\ IsFiniteSet(FramesOn(o)')
             /\ obj'[o].changes = Cardinality(FramesOn(o)')
             /\ FramesOn(o)' # {} => o \in Objects'
  <2>1. o \in Objects' <=> o \in Objects
    BY DEF Objects
  <2>2. /\ IsFiniteSet(FramesOn(o)) /\ obj[o].changes = Cardinality(FramesOn(o))
        /\ FramesOn(o) # {} => o \in Objects
    BY <1>1 DEF Nesting
  <2>3. CASE f.kind # "sweep" /\ f.of = o
    BY <2>1, <2>2, <2>3, <1>1, PushFrames
  <2>4. CASE ~(f.kind # "sweep" /\ f.of = o)
    BY <2>1, <2>2, <2>4, <1>1, PushFrames
  <2>. QED
    BY <2>3, <2>4
<1>3. Nesting'
  BY <1>2 DEF Nesting
<1>4. /\ DOMAIN stack' = 1 .. Len(stack) + 1 /\ DOMAIN stack = 1 .. Len(stack)
      /\ Len(stack) \in Nat /\ stack'[Len(stack) + 1] = f
      /\ \A j \in DOMAIN stack :
           stack'[j] = stack[j] \/ (stack'[j].kind = "sweep" /\ stack[j].kind = "sweep")
  BY <1>1, PushedOn DEF SameFrames, Types
<1>5. ASSUME NEW i \in DOMAIN stack', NEW o \in Id, stack'[i].kind = "removal", stack'[i].of = o
      PROVE  stack'[i].cell = obj'[o].cell /\ FramesOn(o)' = {i}
  <2>1. CASE i = Len(stack) + 1
    <3>1. /\ f.kind = "removal" /\ stack'[i] = f /\ f.of = o
          /\ FramesOn(o) = {}
      BY <1>1, <1>4, <1>5, <2>1, FrameKinds, AtRest
    <3>2. FramesOn(o)' = FramesOn(o) \cup {Len(stack) + 1}
      BY <1>1, <3>1, PushFrames
    <3>. QED
      BY <3>1, <3>2, <2>1
  <2>2. CASE i \in DOMAIN stack
    <3>1. stack'[i] = stack[i] /\ stack[i].kind = "removal" /\ stack[i].of = o
      BY <1>4, <1>5, <2>2
    <3>2. ~(f.kind # "sweep" /\ f.of = o)
      BY <3>1, <2>2 DEF BeingRemoved
    <3>3. FramesOn(o)' = FramesOn(o)
      BY <1>1, <3>2, PushFrames
    <3>4. stack[i].cell = obj[o].cell /\ FramesOn(o) = {i}
      BY <1>1, <2>2, <3>1 DEF RemovalsApart
    <3>. QED
      BY <3>1, <3>3, <3>4
  <2>. QED
    BY <1>4, <2>1, <2>2
<1>6. RemovalsApart'
  BY <1>5 DEF RemovalsApart
<1>. QED
  BY <1>3, <1>6

LEMMA PopNests ==
  ASSUME Inv, ClassAssumption, Types', stack # <<>>, stack' = Front(stack),
         \A o \in Id : ~(Top.kind # "sweep" /\ Top.of = o) => obj'[o] = obj[o],
         Top.kind = "change" =>
           /\ obj'[Top.of].changes = obj[Top.of].changes - 1
           /\ obj'[Top.of].class = obj[Top.of].class /\ obj'[Top.of].cell = obj[Top.of].cell,
         Top.kind = "removal" => obj'[Top.of] = Dead
  PROVE  Nesting' /\ RemovalsApart'
<1>1. Types /\ Nesting /\ RemovalsApart
  BY DEF Inv
<1>2. /\ Len(stack) \in Nat \ {0} /\ DOMAIN stack = 1 .. Len(stack)
      /\ DOMAIN stack' = 1 .. Len(stack) - 1
      /\ \A j \in 1 .. Len(stack) - 1 : stack'[j] = stack[j]
      /\ Top = stack[Len(stack)] /\ Top \in Frame
  BY <1>1, FrontOf DEF Types, Top
<1>3. Top.kind \in {"change", "removal", "sweep"}
  BY <1>2, FrameKinds
<1>4. ASSUME NEW o \in Id
      PROVE  /\ IsFiniteSet(FramesOn(o)')
             /\ obj'[o].changes = Cardinality(FramesOn(o)')
             /\ FramesOn(o)' # {} => o \in Objects'
  <2>1. /\ IsFiniteSet(FramesOn(o)) /\ obj[o].changes = Cardinality(FramesOn(o))
        /\ FramesOn(o) # {} => o \in Objects
    BY <1>1 DEF Nesting
  <2>2. CASE Top.kind = "change" /\ Top.of = o
    <3>1. o \in Objects' <=> o \in Objects
      BY <2>2 DEF Objects
    <3>2. /\ IsFiniteSet(FramesOn(o)') /\ Len(stack) \in FramesOn(o)
          /\ Cardinality(FramesOn(o)') = Cardinality(FramesOn(o)) - 1
      BY <1>1, <2>2, PopFrames
    <3>. QED
      BY <2>1, <2>2, <3>1, <3>2
  <2>3. CASE Top.kind = "removal" /\ Top.of = o
    <3>0. /\ Len(stack) \in DOMAIN stack
          /\ stack[Len(stack)].kind = "removal" /\ stack[Len(stack)].of = o
      BY <1>2, <2>3
    <3>1. FramesOn(o) = {Len(stack)}
      BY <1>1, <3>0 DEF RemovalsApart
    <3>2. FramesOn(o)' = FramesOn(o) \ {Len(stack)}
      BY <1>1, <2>3, PopFrames
    <3>3. FramesOn(o)' = {} /\ Cardinality({}) = 0 /\ IsFiniteSet({})
      BY <3>1, <3>2, FS_EmptySet
    <3>. QED
      BY <2>3, <3>3 DEF Dead
  <2>4. CASE ~(Top.kind # "sweep" /\ Top.of = o)
    <3>1. FramesOn(o)' = FramesOn(o)
      BY <1>1, <2>4, PopFrames
    <3>2. obj'[o] = obj[o] /\ (o \in Objects' <=> o \in Objects)
      BY <2>4 DEF Objects
    <3>. QED
      BY <2>1, <3>1, <3>2
  <2>. QED
    BY <1>3, <2>2, <2>3, <2>4
<1>5. Nesting'
  BY <1>4 DEF Nesting
<1>6. ASSUME NEW i \in DOMAIN stack', NEW o \in Id, stack'[i].kind = "removal", stack'[i].of = o
      PROVE  stack'[i].cell = obj'[o].cell /\ FramesOn(o)' = {i}
  <2>1. /\ i \in DOMAIN stack /\ i # Len(stack) /\ stack'[i] = stack[i]
        /\ stack[i].kind = "removal" /\ stack[i].of = o
    BY <1>2, <1>6
  <2>2. stack[i].cell = obj[o].cell /\ FramesOn(o) = {i}
    BY <1>1, <2>1 DEF RemovalsApart
  <2>3. ~(Top.kind # "sweep" /\ Top.of = o)
    BY <1>2, <2>1, <2>2 DEF FramesOn
  <2>4. FramesOn(o)' = FramesOn(o)
    BY <1>1, <2>2, <2>3, PopFrames
  <2>. QED
    BY <2>1, <2>2, <2>3, <2>4
<1>7. RemovalsApart'
  BY <1>6 DEF RemovalsApart
<1>. QED
  BY <1>5, <1>7

LEMMA KeepNests ==
  ASSUME Inv, SameFrames(stack'),
         \A o \in Id : /\ obj'[o].changes = obj[o].changes
                       /\ obj'[o].cell = obj[o].cell \/ FramesOn(o) = {}
                       /\ o \in Objects => o \in Objects'
  PROVE  Nesting' /\ RemovalsApart'
<1>1. Types /\ Nesting /\ RemovalsApart
  BY DEF Inv
<1>2. \A o \in Id : FramesOn(o)' = FramesOn(o)
  BY <1>1, KeepFrames
<1>3. Nesting'
  BY <1>1, <1>2 DEF Nesting
<1>4. ASSUME NEW i \in DOMAIN stack', NEW o \in Id, stack'[i].kind = "removal", stack'[i].of = o
      PROVE  stack'[i].cell = obj'[o].cell /\ FramesOn(o)' = {i}
  <2>1. i \in DOMAIN stack /\ stack'[i] = stack[i]
    BY <1>1, <1>4 DEF SameFrames, Types
  <2>2. stack[i].cell = obj[o].cell /\ FramesOn(o) = {i}
    BY <1>1, <1>4, <2>1 DEF RemovalsApart
  <2>. QED
    BY <1>2, <2>1, <2>2
<1>5. RemovalsApart'
  BY <1>4 DEF RemovalsApart
<1>. QED
  BY <1>3, <1>5

-----------------------------------------------------------------------------
(* The lists *)

\* A list has no object twice.
LEMMA ListsOnce ==
  ASSUME Types, ListsAscend, NEW b \in Range(Block), NEW j \in DOMAIN lists[b],
         NEW k \in DOMAIN lists[b], lists[b][j] = lists[b][k]
  PROVE  j = k
<1>1. lists[b] \in Seq(Id)
  BY DEF Types
<1>2. j \in Nat /\ k \in Nat /\ lists[b][j] \in Id /\ lists[b][k] \in Id
  BY <1>1
<1>3. obj[lists[b][j]].cell \in Nat
  BY <1>2 DEF Types, Record
<1>4. ~(j < k) /\ ~(k < j)
  BY <1>3 DEF ListsAscend
<1>. QED
  BY <1>2, <1>4

\* An object that is not being removed is taken from its list.
LEMMA Unlisting ==
  ASSUME Inv, ClassAssumption, NEW o \in Objects, ~BeingRemoved(o),
         NEW u, u = Unlisted(ClassBlock[obj[o].class], o)
  PROVE  /\ u \in [Range(Block) -> Seq(Id)]
         /\ \A b \in Range(Block), p \in Id :
              p \in Range(u[b]) <=> p # o /\ p \in Range(lists[b])
         /\ \A b \in Range(Block) : \A j, k \in DOMAIN u[b] :
              j < k => obj[u[b][j]].cell < obj[u[b][k]].cell
<1>. DEFINE c == ClassBlock[obj[o].class]
            l == lists[c]
            p == Place(l, o)
<1>1. Types /\ ListsHold /\ ListsAscend
  BY DEF Inv
<1>2. o \in Id /\ c \in Range(Block)
  BY DEF Objects, Class, ClassAssumption
<1>3. l \in Seq(Id) /\ DOMAIN l = 1 .. Len(l) /\ Len(l) \in Nat
  BY <1>1, <1>2 DEF Types
<1>4. o \in Range(l)
  BY <1>1, <1>2 DEF ListsHold
<1>5. PICK i \in DOMAIN l : l[i] = o
  BY <1>4 DEF Range
<1>6. \A j, k \in DOMAIN l : l[j] = l[k] => j = k
  BY <1>1, <1>2, ListsOnce
<1>7. Place(l, l[i]) = i
  BY <1>3, <1>5, <1>6, Placed
<1>8. p \in DOMAIN l /\ l[p] = o
  BY <1>5, <1>7
<1>9. u = [lists EXCEPT ![c] = RemoveAt(l, p)]
  BY DEF Unlisted
<1>. HIDE DEF p
<1>10. /\ RemoveAt(l, p) \in Seq(Id)
       /\ DOMAIN RemoveAt(l, p) = 1 .. Len(l) - 1
       /\ \A n \in DOMAIN RemoveAt(l, p) :
             RemoveAt(l, p)[n] = IF n < p THEN l[n] ELSE l[n + 1]
  BY <1>3, <1>8, TakenOut
<1>. DEFINE r == RemoveAt(l, p)
<1>. HIDE DEF r
<1>11. /\ lists \in [Range(Block) -> Seq(Id)] /\ r \in Seq(Id)
       /\ u = [lists EXCEPT ![c] = r] /\ u[c] = r
       /\ \A b \in Range(Block) : b # c => u[b] = lists[b]
  BY <1>1, <1>2, <1>9, <1>10 DEF r, Types
<1>12. u \in [Range(Block) -> Seq(Id)]
  BY <1>11
<1>13. p \in 1 .. Len(l)
  BY <1>3, <1>8
<1>14. /\ DOMAIN r = 1 .. Len(l) - 1
       /\ \A n \in DOMAIN r : r[n] = IF n < p THEN l[n] ELSE l[n + 1]
  BY <1>10 DEF r
<1>. HIDE DEF l, c
<1>15. ASSUME NEW q \in Id
       PROVE  q \in Range(r) <=> q # o /\ q \in Range(l)
  <2>1. ASSUME q \in Range(r)
        PROVE  q # o /\ q \in Range(l)
    <3>1. PICK n \in DOMAIN r : r[n] = q
      BY <2>1 DEF Range
    <3>2. n \in 1 .. Len(l) - 1
      BY <1>14, <3>1
    <3>3. CASE n < p
      <4>1. n \in DOMAIN l /\ l[n] = q /\ n # p
        BY <1>3, <1>13, <1>14, <3>1, <3>2, <3>3
      <4>. QED
        BY <4>1, <1>6, <1>8 DEF Range
    <3>4. CASE ~(n < p)
      <4>1. n + 1 \in DOMAIN l /\ l[n + 1] = q /\ n + 1 # p
        BY <1>3, <1>13, <1>14, <3>1, <3>2, <3>4
      <4>. QED
        BY <4>1, <1>6, <1>8 DEF Range
    <3>. QED
      BY <3>3, <3>4
  <2>2. ASSUME q # o, q \in Range(l)
        PROVE  q \in Range(r)
    <3>1. PICK n \in DOMAIN l : l[n] = q
      BY <2>2 DEF Range
    <3>2. n # p /\ n \in 1 .. Len(l)
      BY <1>3, <1>8, <2>2, <3>1
    <3>3. CASE n < p
      <4>1. n \in DOMAIN r /\ r[n] = q
        BY <1>3, <1>13, <1>14, <3>1, <3>2, <3>3
      <4>. QED
        BY <4>1 DEF Range
    <3>4. CASE ~(n < p)
      <4>1. n - 1 \in DOMAIN r /\ ~(n - 1 < p) /\ (n - 1) + 1 = n
        BY <1>3, <1>13, <1>14, <3>2, <3>4
      <4>2. r[n - 1] = q
        BY <1>14, <3>1, <4>1
      <4>. QED
        BY <4>1, <4>2 DEF Range
    <3>. QED
      BY <3>3, <3>4
  <2>. QED
    BY <2>1, <2>2
<1>16. ASSUME NEW j \in DOMAIN r, NEW k \in DOMAIN r, j < k
       PROVE  obj[r[j]].cell < obj[r[k]].cell
  <2>. DEFINE at(n) == IF n < p THEN n ELSE n + 1
  <2>1. /\ at(j) \in DOMAIN l /\ at(k) \in DOMAIN l /\ at(j) < at(k)
        /\ r[j] = l[at(j)] /\ r[k] = l[at(k)]
    BY <1>3, <1>13, <1>14, <1>16
  <2>. HIDE DEF at
  <2>2. obj[l[at(j)]].cell < obj[l[at(k)]].cell
    BY <1>1, <1>2, <2>1 DEF ListsAscend, l
  <2>. QED
    BY <2>1, <2>2
<1>17. ASSUME NEW b \in Range(Block), NEW q \in Id
       PROVE  q \in Range(u[b]) <=> q # o /\ q \in Range(lists[b])
  <2>1. CASE b = c
    BY <1>11, <1>15, <2>1 DEF l
  <2>2. CASE b # c
    <3>1. o \notin Range(lists[b])
      BY <1>1, <1>2, <2>2 DEF ListsHold, c
    <3>. QED
      BY <1>11, <2>2, <3>1
  <2>. QED
    BY <2>1, <2>2
<1>18. ASSUME NEW b \in Range(Block), NEW j \in DOMAIN u[b], NEW k \in DOMAIN u[b], j < k
       PROVE  obj[u[b][j]].cell < obj[u[b][k]].cell
  <2>1. CASE b = c
    BY <1>11, <1>16, <1>18, <2>1
  <2>2. CASE b # c
    BY <1>1, <1>11, <1>18, <2>2 DEF ListsAscend
  <2>. QED
    BY <2>1, <2>2
<1>. QED
  BY <1>12, <1>17, <1>18

\* Nothing is listed or taken from a list, and what is listed stays what it is.
LEMMA ListsKept ==
  ASSUME Inv, Types', lists' = lists,
         \A o \in Id : /\ o \in Objects' /\ ~BeingRemoved(o)' <=> o \in Objects /\ ~BeingRemoved(o)
                       /\ o \in Objects /\ ~BeingRemoved(o) =>
                            obj'[o].class = obj[o].class /\ obj'[o].cell = obj[o].cell
  PROVE  /\ ListsHold' /\ ListsAscend'
         /\ \A b \in Range(Block) : Cells(b)' = Cells(b)
<1>1. Types /\ ListsHold /\ ListsAscend
  BY DEF Inv
<1>2. ListsHold'
  BY <1>1 DEF ListsHold
<1>3. ASSUME NEW b \in Range(Block), NEW j \in DOMAIN lists[b]
      PROVE  obj'[lists[b][j]].cell = obj[lists[b][j]].cell
  <2>1. lists[b][j] \in Id /\ lists[b][j] \in Range(lists[b])
    BY <1>1 DEF Types, Range
  <2>2. lists[b][j] \in Objects /\ ~BeingRemoved(lists[b][j])
    BY <1>1, <2>1 DEF ListsHold
  <2>. QED
    BY <2>1, <2>2
<1>4. ListsAscend'
  BY <1>1, <1>3 DEF ListsAscend
<1>5. \A b \in Range(Block) : Cells(b)' = Cells(b)
  BY <1>3 DEF Cells
<1>. QED
  BY <1>2, <1>4, <1>5

\* An object is taken from its list, to be removed.
LEMMA ListsLess ==
  ASSUME Inv, ClassAssumption, Types', NEW o \in Objects, ~BeingRemoved(o),
         lists' = Unlisted(ClassBlock[obj[o].class], o),
         \A p \in Id : /\ obj'[p].class = obj[p].class /\ obj'[p].cell = obj[p].cell
                       /\ BeingRemoved(p)' <=> BeingRemoved(p) \/ p = o
  PROVE  /\ ListsHold' /\ ListsAscend'
         /\ \A b \in Range(Block) : Cells(b) \ {obj[o].cell} \subseteq Cells(b)'
<1>. DEFINE u == Unlisted(ClassBlock[obj[o].class], o)
<1>1. Types /\ ListsHold
  BY DEF Inv
<1>2. /\ u \in [Range(Block) -> Seq(Id)]
      /\ \A b \in Range(Block), p \in Id :
           p \in Range(u[b]) <=> p # o /\ p \in Range(lists[b])
      /\ \A b \in Range(Block) : \A j, k \in DOMAIN u[b] :
           j < k => obj[u[b][j]].cell < obj[u[b][k]].cell
  BY Unlisting
<1>3. lists' = u
  OBVIOUS
<1>. HIDE DEF u
<1>4. \A p \in Id : p \in Objects' <=> p \in Objects
  BY DEF Objects
<1>5. ListsHold'
  BY <1>1, <1>2, <1>3, <1>4 DEF ListsHold
<1>6. ListsAscend'
  <2>1. \A b \in Range(Block) : \A j \in DOMAIN u[b] : u[b][j] \in Id
    BY <1>2
  <2>. QED
    BY <1>2, <1>3, <2>1 DEF ListsAscend
<1>7. ASSUME NEW b \in Range(Block), NEW c \in Cells(b), c # obj[o].cell
      PROVE  c \in Cells(b)'
  <2>1. PICK j \in DOMAIN lists[b] : obj[lists[b][j]].cell = c
    BY DEF Cells
  <2>. DEFINE p == lists[b][j]
  <2>2. p \in Id /\ p \in Range(lists[b]) /\ p # o
    BY <1>1, <1>7, <2>1 DEF Types, Range
  <2>3. p \in Range(u[b])
    BY <1>2, <2>2
  <2>4. PICK k \in DOMAIN u[b] : u[b][k] = p
    BY <2>3 DEF Range
  <2>5. obj'[u[b][k]].cell = c
    BY <2>1, <2>2, <2>4
  <2>. QED
    BY <1>3, <2>5 DEF Cells
<1>. QED
  BY <1>5, <1>6, <1>7

\* An object that is on no list of u gets a new cell at the end of a list of u.
LEMMA ListsMore ==
  ASSUME Inv, ClassAssumption, Types', NEW o \in Id, NEW c \in Class, NEW u,
         u \in [Range(Block) -> Seq(Id)],
         \A b \in Range(Block), p \in Id : p \in Range(u[b]) <=> p # o /\ p \in Range(lists[b]),
         \A b \in Range(Block) : \A j, k \in DOMAIN u[b] :
           j < k => obj[u[b][j]].cell < obj[u[b][k]].cell,
         lists' = [u EXCEPT ![ClassBlock[c]] = Append(@, o)],
         obj'[o].class = c, obj'[o].cell = nextCell,
         \A p \in Id : p # o => obj'[p] = obj[p],
         ~BeingRemoved(o), \A p \in Id : BeingRemoved(p)' <=> BeingRemoved(p)
  PROVE  /\ ListsHold' /\ ListsAscend'
         /\ \A b \in Range(Block) : \A d \in Cells(b) : d # obj[o].cell \/ o \notin Objects => d \in Cells(b)'
<1>. DEFINE k == ClassBlock[c]
<1>1. Types /\ ListsHold /\ CellsOwn /\ nextCell \in Nat
  BY DEF Inv, Types
<1>2. k \in Range(Block)
  BY DEF Class, ClassAssumption
<1>3. /\ \A b \in Range(Block) : b # k => lists'[b] = u[b]
      /\ lists'[k] = Append(u[k], o) /\ u[k] \in Seq(Id)
  BY <1>2
<1>4. /\ DOMAIN lists'[k] = 1 .. Len(u[k]) + 1 /\ DOMAIN u[k] = 1 .. Len(u[k])
      /\ \A i \in 1 .. Len(u[k]) : lists'[k][i] = u[k][i]
      /\ lists'[k][Len(u[k]) + 1] = o /\ Len(u[k]) \in Nat
  BY <1>3, PushedOn
<1>5. \A p \in Id : p \in Objects' <=> p \in Objects \/ p = o
  BY DEF Objects
<1>6. Range(lists'[k]) = Range(u[k]) \cup {o}
  BY <1>4 DEF Range
<1>. HIDE DEF k
<1>7. ASSUME NEW b \in Range(Block), NEW p \in Id
      PROVE  p \in Range(lists'[b]) <=> p \in Objects' /\ ~BeingRemoved(p)' /\ ClassBlock[obj'[p].class] = b
  <2>1. CASE p = o
    <3>1. b = k => p \in Range(lists'[b])
      BY <1>6, <2>1
    <3>2. b # k => p \notin Range(lists'[b])
      BY <1>3, <2>1
    <3>. QED
      BY <2>1, <3>1, <3>2, <1>5 DEF k
  <2>2. CASE p # o
    <3>1. p \in Range(lists'[b]) <=> p \in Range(u[b])
      BY <1>3, <1>6, <2>2
    <3>2. p \in Range(u[b]) <=> p \in Range(lists[b])
      BY <2>2
    <3>3. p \in Range(lists[b]) <=> p \in Objects /\ ~BeingRemoved(p) /\ ClassBlock[obj[p].class] = b
      BY <1>1 DEF ListsHold
    <3>4. obj'[p] = obj[p]
      BY <2>2
    <3>. QED
      BY <1>5, <2>2, <3>1, <3>2, <3>3, <3>4
  <2>. QED
    BY <2>1, <2>2
<1>8. ListsHold'
  BY <1>7 DEF ListsHold
<1>9. ASSUME NEW b \in Range(Block), NEW i \in DOMAIN u[b]
      PROVE  /\ u[b][i] \in Id /\ u[b][i] # o /\ obj'[u[b][i]] = obj[u[b][i]]
             /\ obj[u[b][i]].cell \in Nat /\ obj[u[b][i]].cell < nextCell
  <2>1. u[b][i] \in Id /\ u[b][i] \in Range(u[b])
    BY DEF Range
  <2>2. u[b][i] # o /\ u[b][i] \in Range(lists[b])
    BY <2>1
  <2>3. u[b][i] \in Objects
    BY <1>1, <2>1, <2>2 DEF ListsHold
  <2>4. obj[u[b][i]].cell \in 1 .. nextCell - 1
    BY <1>1, <2>3 DEF CellsOwn
  <2>. QED
    BY <1>1, <2>1, <2>2, <2>4
<1>10. ASSUME NEW b \in Range(Block), NEW i \in DOMAIN lists'[b], NEW j \in DOMAIN lists'[b], i < j
       PROVE  obj'[lists'[b][i]].cell < obj'[lists'[b][j]].cell
  <2>1. CASE b # k
    BY <1>3, <1>9, <1>10, <2>1
  <2>2. CASE b = k
    <3>1. i \in DOMAIN u[k] /\ lists'[k][i] = u[k][i]
      BY <1>4, <1>10, <2>2
    <3>2. CASE j = Len(u[k]) + 1
      BY <1>2, <1>4, <1>9, <2>2, <3>1, <3>2
    <3>3. CASE j # Len(u[k]) + 1
      <4>1. j \in DOMAIN u[k] /\ lists'[k][j] = u[k][j]
        BY <1>4, <2>2, <3>3
      <4>. QED
        BY <1>2, <1>9, <1>10, <2>2, <3>1, <4>1
    <3>. QED
      BY <3>2, <3>3
  <2>. QED
    BY <2>1, <2>2
<1>11. ListsAscend'
  BY <1>10 DEF ListsAscend
<1>12. ASSUME NEW b \in Range(Block), NEW d \in Cells(b), d # obj[o].cell \/ o \notin Objects
       PROVE  d \in Cells(b)'
  <2>1. PICK i \in DOMAIN lists[b] : obj[lists[b][i]].cell = d
    BY DEF Cells
  <2>. DEFINE p == lists[b][i]
  <2>2. p \in Id /\ p \in Range(lists[b])
    BY <1>1, <2>1 DEF Types, Range
  <2>3. p # o
    BY <1>1, <1>12, <2>1, <2>2 DEF ListsHold
  <2>4. p \in Range(lists'[b])
    BY <1>3, <1>6, <2>2, <2>3
  <2>5. PICK n \in DOMAIN lists'[b] : lists'[b][n] = p
    BY <2>4 DEF Range
  <2>6. obj'[lists'[b][n]].cell = d
    BY <2>1, <2>2, <2>3, <2>5
  <2>. QED
    BY <2>6 DEF Cells
<1>. QED
  BY <1>8, <1>11, <1>12

\* A cell is given out once.
LEMMA CellsKept ==
  ASSUME Inv, Types', nextCell' >= nextCell,
         \A o \in Objects' : \/ o \in Objects /\ obj'[o].cell = obj[o].cell
                             \/ obj'[o].cell = nextCell /\ nextCell' = nextCell + 1,
         \A o, p \in Objects' : obj'[o].cell = nextCell /\ obj'[p].cell = nextCell => o = p
  PROVE  CellsOwn'
<1>1. CellsOwn /\ nextCell \in Nat /\ nextCell' \in Nat
  BY DEF Inv, Types
<1>2. ASSUME NEW o \in Objects'
      PROVE  obj'[o].cell \in 1 .. nextCell' - 1
  <2>1. CASE o \in Objects /\ obj'[o].cell = obj[o].cell
    BY <1>1, <2>1 DEF CellsOwn
  <2>2. CASE obj'[o].cell = nextCell /\ nextCell' = nextCell + 1
    BY <1>1, <2>2 DEF Inv, Types
  <2>. QED
    BY <2>1, <2>2
<1>3. ASSUME NEW o \in Objects', NEW p \in Objects', obj'[p].cell = obj'[o].cell
      PROVE  p = o
  <2>1. CASE obj'[o].cell = nextCell
    BY <1>3, <2>1
  <2>2. CASE obj'[o].cell # nextCell
    BY <1>1, <1>3, <2>2 DEF CellsOwn
  <2>. QED
    BY <2>1, <2>2
<1>. QED
  BY <1>2, <1>3 DEF CellsOwn

-----------------------------------------------------------------------------
(* Sweeps that a step does not move *)

\* What was asked for keeps being under no change of code below the sweep.
LEMMA BelowKept ==
  ASSUME Inv, Types', Nesting', NEW i \in Sweeps, i \in DOMAIN stack',
         stack'[i].of = stack[i].of,
         \A j \in 1 .. i - 1 : Kept(stack[j], stack'[j]),
         nextCell' >= nextCell,
         \A o \in Objects' : obj'[o].cell \in 1 .. nextCell - 1 =>
             o \in Objects /\ obj'[o].cell = obj[o].cell
  PROVE  /\ \A j \in 1 .. i - 1 :
              stack'[j].kind # "sweep" => obj'[stack'[j].of].cell \notin stack'[i].of
         /\ stack'[i].of \subseteq 1 .. nextCell' - 1
<1>1. /\ Types /\ nextCell \in Nat /\ nextCell' \in Nat
      /\ i \in Nat /\ i \in 1 .. Len(stack) /\ DOMAIN stack = 1 .. Len(stack)
      /\ i \in 1 .. Len(stack') /\ DOMAIN stack' = 1 .. Len(stack')
      /\ Len(stack) \in Nat /\ Len(stack') \in Nat
  BY DEF Inv, Types, Sweeps
<1>2. /\ \A j \in 1 .. i - 1 : stack[j].kind # "sweep" => obj[stack[j].of].cell \notin stack[i].of
      /\ stack[i].of \subseteq 1 .. nextCell - 1
  BY DEF Inv, SweepOK
<1>3. ASSUME NEW j \in 1 .. i - 1, stack'[j].kind # "sweep"
      PROVE  obj'[stack'[j].of].cell \notin stack'[i].of
  <2>1. j \in DOMAIN stack /\ j \in DOMAIN stack'
    BY <1>1
  <2>2. stack'[j] = stack[j] /\ stack[j].kind # "sweep" /\ stack[j] \in Frame
    BY <1>1, <1>3, <2>1 DEF Kept, Types
  <2>3. stack[j].of \in Id
    BY <2>2, FrameKinds
  <2>4. \A p \in Id : p = stack[j].of => j \in FramesOn(p)'
    BY <2>1, <2>2 DEF FramesOn
  <2>5. stack[j].of \in Objects'
    BY <2>3, <2>4 DEF Nesting
  <2>6. obj'[stack[j].of].cell \in stack[i].of => obj'[stack[j].of].cell = obj[stack[j].of].cell
    BY <1>2, <2>5
  <2>. QED
    BY <1>2, <1>3, <2>2, <2>6
<1>4. stack'[i].of \subseteq 1 .. nextCell' - 1
  BY <1>1, <1>2
<1>. QED
  BY <1>3, <1>4

LEMMA SweepKept ==
  ASSUME Inv, BlockAssumption, Types', Nesting', NEW i \in Sweeps, i \in DOMAIN stack',
         \A j \in 1 .. i : Kept(stack[j], stack'[j]),
         nextCell' >= nextCell,
         ~stack'[i].lost => \A b \in Range(Block) :
             stack[i].cursor \in Cells(b) => stack[i].cursor \in Cells(b)',
         \A o \in Objects' : obj'[o].cell \in 1 .. nextCell - 1 =>
             /\ o \in Objects /\ obj'[o].cell = obj[o].cell /\ obj'[o].class = obj[o].class
             /\ BeingRemoved(o) => BeingRemoved(o)'
  PROVE  SweepOK(i)'
<1>1. /\ Types /\ nextCell \in Nat /\ i \in Nat /\ i \in 1 .. Len(stack)
      /\ i \in 1 .. i /\ stack[i].kind = "sweep" /\ stack[i] \in Frame
  BY DEF Inv, Types, Sweeps
<1>2. PICK s \in SweepFrame : s = stack[i]
  BY <1>1, FrameKinds
<1>3. stack'[i].of = s.of /\ (~stack'[i].lost => stack'[i] = s)
  BY <1>1, <1>2 DEF Kept
<1>4. \A j \in 1 .. i - 1 : Kept(stack[j], stack'[j])
  BY <1>1
<1>5. /\ \A j \in 1 .. i - 1 :
           stack'[j].kind # "sweep" => obj'[stack'[j].of].cell \notin stack'[i].of
      /\ stack'[i].of \subseteq 1 .. nextCell' - 1
  BY <1>2, <1>3, <1>4, BelowKept
<1>6. ASSUME ~stack'[i].lost
      PROVE  /\ PlaceLive(s)'
             /\ \A o \in Objects' :
                  Seeks(s, obj'[o].class) /\ obj'[o].cell \in s.of => BeingRemoved(o)' \/ Ahead(s, o)'
  <2>1. stack'[i] = s /\ s.of \subseteq 1 .. nextCell - 1
    BY <1>2, <1>3, <1>6 DEF Inv, SweepOK
  <2>2. PlaceLive(s) /\ \A o \in Objects :
           Seeks(s, obj[o].class) /\ obj[o].cell \in s.of => BeingRemoved(o) \/ Ahead(s, o)
    BY <1>2, <1>6, <2>1 DEF Inv, SweepOK
  <2>3. ASSUME s.block <= Len(Block), NEW b, b = Block[s.block]
        PROVE  s.cursor \in Cells(b)' \cup {Header(b), NULL}
    <3>1. s.block \in 1 .. Len(Block)
      BY <1>2, <2>3 DEF SweepFrame, BlockAssumption
    <3>2. b \in Range(Block)
      BY <2>3, <3>1, Headers
    <3>3. s.cursor \in Cells(b) \cup {Header(b), NULL}
      BY <2>2, <2>3 DEF PlaceLive
    <3>. QED
      BY <1>2, <1>6, <3>2, <3>3
  <2>4. PlaceLive(s)'
    BY <2>3 DEF PlaceLive, Cells
  <2>5. ASSUME NEW o \in Objects', Seeks(s, obj'[o].class), obj'[o].cell \in s.of
        PROVE  BeingRemoved(o)' \/ Ahead(s, o)'
    <3>1. /\ o \in Objects /\ obj'[o].cell = obj[o].cell /\ obj'[o].class = obj[o].class
          /\ BeingRemoved(o) => BeingRemoved(o)'
      BY <2>1, <2>5
    <3>2. Ahead(s, o) => Ahead(s, o)'
      BY <3>1 DEF Ahead
    <3>. QED
      BY <2>2, <2>5, <3>1, <3>2
  <2>. QED
    BY <2>4, <2>5
<1>. QED
  BY <1>2, <1>3, <1>5, <1>6 DEF SweepOK, PlaceLive, Cells, Seeks, Ahead

\* A sweep that runs: what it was asked for is under no change.
LEMMA TopSweep ==
  ASSUME Inv, stack # <<>>, Top.kind = "sweep"
  PROVE  /\ Len(stack) \in Sweeps /\ SweepOK(Len(stack))
         /\ Top = stack[Len(stack)] /\ Top \in SweepFrame
         /\ \A o \in Objects : obj[o].cell \in Top.of => obj[o].changes = 0 /\ ~BeingRemoved(o)
<1>1. /\ Top = stack[Len(stack)] /\ Top \in Frame /\ DOMAIN stack = 1 .. Len(stack)
      /\ Len(stack) \in DOMAIN stack /\ Len(stack) \in Nat
  BY FrontOf DEF Inv, Types, Top
<1>2. Len(stack) \in Sweeps
  BY <1>1 DEF Sweeps
<1>3. SweepOK(Len(stack))
  BY <1>2 DEF Inv
<1>4. \A j \in 1 .. Len(stack) - 1 :
        stack[j].kind # "sweep" => obj[stack[j].of].cell \notin Top.of
  BY <1>1, <1>3 DEF SweepOK
<1>5. ASSUME NEW o \in Objects, obj[o].cell \in Top.of
      PROVE  obj[o].changes = 0 /\ ~BeingRemoved(o)
  <2>1. FramesOn(o) = {} /\ o \in Id
    BY <1>1, <1>4, <1>5 DEF FramesOn, Objects
  <2>2. obj[o].changes = 0
    BY <2>1, FS_EmptySet DEF Inv, Nesting
  <2>. QED
    BY <2>1, <2>2, AtRest DEF Inv
<1>. QED
  BY <1>1, <1>2, <1>3, <1>5, FrameKinds

-----------------------------------------------------------------------------
(* What RHS code and methods do *)

LEMMA CreateInv ==
  ASSUME Inv, Assumptions, NEW o \in Id, NEW c \in Class, Create(o, c)
  PROVE  Inv'
<1>1. /\ Types /\ Nesting /\ ListsHold /\ ListsAscend /\ nextCell \in Nat
      /\ BlockAssumption /\ ClassAssumption
  BY DEF Inv, Types, Assumptions
<1>. DEFINE new == [class |-> c, changes |-> 0, cell |-> nextCell]
<1>2. /\ Acting /\ o \notin Objects
      /\ obj' = [obj EXCEPT ![o] = new]
      /\ lists' = [lists EXCEPT ![ClassBlock[c]] = Append(@, o)]
      /\ nextCell' = nextCell + 1 /\ stack' = stack
  BY DEF Create, AddLast
<1>3. new \in Record /\ new.class = c /\ new.changes = 0 /\ new.cell = nextCell
  BY <1>1 DEF Record
<1>. HIDE DEF new
<1>4. obj' \in [Id -> Record] /\ obj'[o] = new /\ \A p \in Id : p # o => obj'[p] = obj[p]
  BY <1>1, <1>2, <1>3 DEF Types
<1>5. ClassBlock[c] \in Range(Block) /\ lists[ClassBlock[c]] \in Seq(Id)
  BY <1>1 DEF ClassAssumption, Class, Types
<1>6. lists' \in [Range(Block) -> Seq(Id)]
  BY <1>1, <1>2, <1>5 DEF Types
<1>7. Types'
  BY <1>1, <1>2, <1>4, <1>6 DEF Types
<1>8. \A p \in Id : p \in Objects' <=> p \in Objects \/ p = o
  BY <1>3, <1>4 DEF Objects
<1>9. FramesOn(o) = {} /\ obj[o].changes = 0 /\ ~BeingRemoved(o)
  <2>1. FramesOn(o) = {} /\ obj[o].changes = Cardinality(FramesOn(o))
    BY <1>1, <1>2 DEF Nesting
  <2>2. obj[o].changes = 0
    BY <2>1, FS_EmptySet
  <2>. QED
    BY <1>1, <2>1, <2>2, AtRest
<1>10. SameFrames(stack') /\ \A p \in Id : BeingRemoved(p)' <=> BeingRemoved(p)
  BY <1>1, <1>2, Unmoved, KeepFrames
<1>11. Nesting' /\ RemovalsApart'
  <2>1. \A p \in Id : /\ obj'[p].changes = obj[p].changes
                      /\ obj'[p].cell = obj[p].cell \/ FramesOn(p) = {}
                      /\ p \in Objects => p \in Objects'
    BY <1>3, <1>4, <1>8, <1>9
  <2>. QED
    BY <1>10, <2>1, KeepNests
<1>12. CellsOwn'
  <2>1. \A p \in Objects' : \/ p \in Objects /\ obj'[p].cell = obj[p].cell
                            \/ p = o /\ obj'[p].cell = nextCell /\ nextCell' = nextCell + 1
    BY <1>2, <1>3, <1>4, <1>8 DEF Objects
  <2>2. \A p \in Objects : obj[p].cell # nextCell
    BY <1>1 DEF Inv, CellsOwn
  <2>3. \A p, q \in Objects' : obj'[p].cell = nextCell /\ obj'[q].cell = nextCell => p = q
    BY <2>1, <2>2
  <2>4. nextCell' >= nextCell
    BY <1>1, <1>2
  <2>. QED
    BY <1>7, <2>1, <2>3, <2>4, CellsKept
<1>13. /\ ListsHold' /\ ListsAscend'
       /\ \A b \in Range(Block) : \A d \in Cells(b) : d # obj[o].cell \/ o \notin Objects => d \in Cells(b)'
  <2>1. \A b \in Range(Block), p \in Id : p \in Range(lists[b]) <=> p # o /\ p \in Range(lists[b])
    BY <1>1, <1>2 DEF ListsHold
  <2>2. \A b \in Range(Block) : \A j, k \in DOMAIN lists[b] :
           j < k => obj[lists[b][j]].cell < obj[lists[b][k]].cell
    BY <1>1 DEF ListsAscend
  <2>3. lists \in [Range(Block) -> Seq(Id)] /\ obj'[o].class = c /\ obj'[o].cell = nextCell
    BY <1>1, <1>3, <1>4 DEF Types
  <2>. QED
    BY <1>1, <1>2, <1>4, <1>7, <1>9, <1>10, <2>1, <2>2, <2>3, ListsMore
<1>14. ASSUME NEW i \in Sweeps
       PROVE  SweepOK(i)'
  <2>1. i \in DOMAIN stack' /\ \A j \in 1 .. i : Kept(stack[j], stack'[j])
    BY <1>2 DEF Sweeps, Kept
  <2>2. \A p \in Objects' : obj'[p].cell \in 1 .. nextCell - 1 =>
             /\ p \in Objects /\ obj'[p].cell = obj[p].cell /\ obj'[p].class = obj[p].class
             /\ BeingRemoved(p) => BeingRemoved(p)'
    BY <1>1, <1>3, <1>4, <1>8, <1>10 DEF Objects
  <2>3. \A b \in Range(Block) : stack[i].cursor \in Cells(b) => stack[i].cursor \in Cells(b)'
    BY <1>2, <1>13
  <2>4. nextCell' >= nextCell
    BY <1>1, <1>2
  <2>. QED
    BY <1>1, <1>7, <1>11, <2>1, <2>2, <2>3, <2>4, SweepKept
<1>15. Sweeps' = Sweeps
  BY <1>2 DEF Sweeps
<1>. QED
  BY <1>7, <1>11, <1>12, <1>13, <1>14, <1>15 DEF Inv

\* What a step has to show of the sweeps when it pushes a frame on the stack s.
LEMMA WaitingKept ==
  ASSUME Inv, BlockAssumption, Types', Nesting', NEW s \in Seq(Frame), Len(s) = Len(stack),
         NEW f, stack' = Append(s, f), nextCell' = nextCell,
         NEW i \in Sweeps, \A j \in 1 .. i : Kept(stack[j], s[j]),
         ~s[i].lost => \A b \in Range(Block) :
            stack[i].cursor \in Cells(b) => stack[i].cursor \in Cells(b)',
         \A o \in Id : /\ obj'[o].cell = obj[o].cell /\ obj'[o].class = obj[o].class
                       /\ BeingRemoved(o) => BeingRemoved(o)'
  PROVE  SweepOK(i)'
<1>1. /\ i \in 1 .. Len(stack) /\ Len(stack) \in Nat /\ i \in 1 .. i
      /\ Len(stack') = Len(s) + 1 /\ DOMAIN stack' = 1 .. Len(s) + 1
      /\ \A j \in 1 .. Len(s) : stack'[j] = s[j]
  <2>1. i \in 1 .. Len(stack) /\ Len(stack) \in Nat
    BY DEF Inv, Types, Sweeps
  <2>. QED
    BY <2>1
<1>2. i \in DOMAIN stack' /\ \A j \in 1 .. i : stack'[j] = s[j]
  BY <1>1
<1>3. nextCell' >= nextCell
  BY DEF Inv, Types
<1>4. \A o \in Objects' : obj'[o].cell \in 1 .. nextCell - 1 =>
          /\ o \in Objects /\ obj'[o].cell = obj[o].cell /\ obj'[o].class = obj[o].class
          /\ BeingRemoved(o) => BeingRemoved(o)'
  BY DEF Objects
<1>. QED
  BY <1>1, <1>2, <1>3, <1>4, SweepKept

\* Only the count of changes of o is set.
LEMMA ChangesSet ==
  ASSUME Types, NEW o \in Id, NEW n \in Int, obj' = [obj EXCEPT ![o].changes = n]
  PROVE  /\ obj' \in [Id -> Record] /\ obj'[o].changes = n
         /\ \A p \in Id : /\ obj'[p].class = obj[p].class /\ obj'[p].cell = obj[p].cell
                          /\ p # o => obj'[p] = obj[p]
<1>. DEFINE new == [obj[o] EXCEPT !.changes = n]
<1>1. obj \in [Id -> Record] /\ obj[o] \in Record
  BY DEF Types
<1>2. new \in Record /\ new.changes = n /\ new.class = obj[o].class /\ new.cell = obj[o].cell
  BY <1>1 DEF Record
<1>3. obj' = [obj EXCEPT ![o] = new]
  OBVIOUS
<1>. HIDE DEF new
<1>. QED
  BY <1>1, <1>2, <1>3

LEMMA ChangeInv ==
  ASSUME Inv, Assumptions, NEW o \in Id, Change(o)
  PROVE  Inv'
<1>1. /\ Types /\ BlockAssumption /\ obj[o] \in Record
  BY DEF Inv, Types, Assumptions
<1>. DEFINE f == [kind |-> "change", of |-> o]
<1>2. /\ Acting /\ o \in Objects /\ ~BeingRemoved(o)
      /\ obj' = [obj EXCEPT ![o].changes = @ + 1]
      /\ stack' = Append(stack, f) /\ lists' = lists /\ nextCell' = nextCell
  BY DEF Change, Push, BeingRemoved
<1>3. f \in Frame /\ f.kind = "change" /\ f.of = o
  BY DEF Frame, ChangeFrame
<1>. HIDE DEF f
<1>4. /\ obj' \in [Id -> Record] /\ obj'[o].changes = obj[o].changes + 1
      /\ \A p \in Id : /\ obj'[p].class = obj[p].class /\ obj'[p].cell = obj[p].cell
                       /\ p # o => obj'[p] = obj[p]
  <2>1. obj[o].changes + 1 \in Int
    BY <1>1 DEF Record
  <2>. QED
    BY <1>1, <1>2, <2>1, ChangesSet
<1>5. stack' \in Seq(Frame)
  BY <1>1, <1>2, <1>3 DEF Types
<1>6. Types'
  BY <1>1, <1>2, <1>4, <1>5 DEF Types
<1>7. SameFrames(stack)
  BY <1>1, Unmoved
<1>8. Nesting' /\ RemovalsApart'
  <2>1. /\ f.kind # "sweep" => /\ f.of \in Objects /\ ~BeingRemoved(f.of)
                               /\ obj'[f.of].changes = obj[f.of].changes + 1
        /\ f.kind = "removal" => obj[f.of].changes = 0 /\ f.cell = obj[f.of].cell
        /\ \A p \in Id : /\ obj'[p].cell = obj[p].cell /\ obj'[p].class = obj[p].class
                         /\ ~(f.kind # "sweep" /\ f.of = p) => obj'[p].changes = obj[p].changes
    BY <1>2, <1>3, <1>4
  <2>. QED
    BY <1>2, <1>3, <1>6, <1>7, <2>1, PushNests
<1>9. \A p \in Id : BeingRemoved(p)' <=> BeingRemoved(p)
  BY <1>1, <1>2, <1>3, <1>7, PushFrames DEF Inv
<1>10. \A p \in Id : p \in Objects' <=> p \in Objects
  BY <1>4 DEF Objects
<1>11. CellsOwn'
  BY <1>1, <1>2, <1>4, <1>10 DEF Inv, CellsOwn, Objects
<1>12. ListsHold' /\ ListsAscend' /\ \A b \in Range(Block) : Cells(b)' = Cells(b)
  BY <1>2, <1>4, <1>6, <1>9, <1>10, ListsKept
<1>13. ASSUME NEW i \in Sweeps
       PROVE  SweepOK(i)'
  <2>1. /\ \A j \in 1 .. i : Kept(stack[j], stack[j])
        /\ stack \in Seq(Frame) /\ Len(stack) = Len(stack)
    BY <1>1 DEF Kept, Types
  <2>2. ~stack[i].lost => \A b \in Range(Block) :
            stack[i].cursor \in Cells(b) => stack[i].cursor \in Cells(b)'
    BY <1>12
  <2>. QED
    BY <1>1, <1>2, <1>4, <1>6, <1>8, <1>9, <2>1, <2>2, WaitingKept
<1>14. Sweeps' = Sweeps
  BY <1>1, <1>2, <1>3, PushedOn DEF Sweeps, Types
<1>. QED
  BY <1>6, <1>8, <1>11, <1>12, <1>13, <1>14 DEF Inv

LEMMA SpecializeInv ==
  ASSUME Inv, Assumptions, NEW o \in Id, NEW c \in Class, Specialize(o, c)
  PROVE  Inv'
<1>1. /\ Types /\ Nesting /\ ListsHold /\ nextCell \in Nat /\ obj[o] \in Record
      /\ BlockAssumption /\ ClassAssumption
  BY DEF Inv, Types, Assumptions
<1>. DEFINE old == ClassBlock[obj[o].class]
            u == Unlisted(old, o)
            new == [obj[o] EXCEPT !.class = c, !.cell = nextCell]
<1>2. /\ Acting /\ o \in Objects /\ obj[o].changes = 0
      /\ obj' = [obj EXCEPT ![o] = new]
      /\ lists' = [u EXCEPT ![ClassBlock[c]] = Append(@, o)]
      /\ nextCell' = nextCell + 1 /\ stack' = Marked(stack, o)
  BY DEF Specialize
<1>3. new \in Record /\ new.class = c /\ new.changes = 0 /\ new.cell = nextCell
  BY <1>1, <1>2 DEF Record
<1>. HIDE DEF new
<1>4. obj' \in [Id -> Record] /\ obj'[o] = new /\ \A p \in Id : p # o => obj'[p] = obj[p]
  BY <1>1, <1>2, <1>3 DEF Types
<1>5. FramesOn(o) = {} /\ ~BeingRemoved(o)
  BY <1>1, <1>2, AtRest
<1>6. /\ u \in [Range(Block) -> Seq(Id)]
      /\ \A b \in Range(Block), p \in Id : p \in Range(u[b]) <=> p # o /\ p \in Range(lists[b])
      /\ \A b \in Range(Block) : \A j, k \in DOMAIN u[b] :
           j < k => obj[u[b][j]].cell < obj[u[b][k]].cell
  BY <1>1, <1>2, <1>5, Unlisting
<1>. HIDE DEF u
<1>7. lists' \in [Range(Block) -> Seq(Id)]
  <2>1. ClassBlock[c] \in Range(Block) /\ u[ClassBlock[c]] \in Seq(Id)
    BY <1>1, <1>6 DEF ClassAssumption, Class
  <2>. QED
    BY <1>2, <1>6, <2>1
<1>0. /\ stack' \in Seq(Frame) /\ Len(stack') = Len(stack) /\ DOMAIN stack' = DOMAIN stack
      /\ \A j \in DOMAIN stack : Kept(stack[j], stack'[j])
      /\ \A j \in Sweeps : ~stack'[j].lost => stack[j].cursor # obj[o].cell
  BY <1>1, <1>2, MarkedKeeps DEF Types, Sweeps
<1>8. Types'
  BY <1>0, <1>1, <1>2, <1>4, <1>7 DEF Types
<1>9. \A p \in Id : p \in Objects' <=> p \in Objects
  BY <1>2, <1>3, <1>4 DEF Objects
<1>10. SameFrames(stack') /\ \A p \in Id : BeingRemoved(p)' <=> BeingRemoved(p)
  <2>1. SameFrames(stack')
    BY <1>0 DEF SameFrames, Kept
  <2>. QED
    BY <1>1, <2>1, KeepFrames
<1>11. Nesting' /\ RemovalsApart'
  <2>1. \A p \in Id : /\ obj'[p].changes = obj[p].changes
                      /\ obj'[p].cell = obj[p].cell \/ FramesOn(p) = {}
                      /\ p \in Objects => p \in Objects'
    BY <1>2, <1>3, <1>4, <1>5, <1>9
  <2>. QED
    BY <1>10, <2>1, KeepNests
<1>12. CellsOwn'
  <2>1. \A p \in Objects' : \/ p \in Objects /\ obj'[p].cell = obj[p].cell
                            \/ p = o /\ obj'[p].cell = nextCell /\ nextCell' = nextCell + 1
    BY <1>2, <1>3, <1>4, <1>9 DEF Objects
  <2>2. \A p \in Objects : obj[p].cell # nextCell
    BY <1>1 DEF Inv, CellsOwn
  <2>3. \A p, q \in Objects' : obj'[p].cell = nextCell /\ obj'[q].cell = nextCell => p = q
    BY <2>1, <2>2
  <2>4. nextCell' >= nextCell
    BY <1>1, <1>2
  <2>. QED
    BY <1>8, <2>1, <2>3, <2>4, CellsKept
<1>13. /\ ListsHold' /\ ListsAscend'
       /\ \A b \in Range(Block) : \A d \in Cells(b) : d # obj[o].cell \/ o \notin Objects => d \in Cells(b)'
  <2>1. obj'[o].class = c /\ obj'[o].cell = nextCell
    BY <1>3, <1>4
  <2>. QED
    BY <1>1, <1>2, <1>4, <1>5, <1>6, <1>8, <1>10, <2>1, ListsMore
<1>14. ASSUME NEW i \in Sweeps
       PROVE  SweepOK(i)'
  <2>1. i \in DOMAIN stack' /\ \A j \in 1 .. i : Kept(stack[j], stack'[j])
    BY <1>0, <1>1 DEF Sweeps, Types
  <2>2. \A p \in Objects' : obj'[p].cell \in 1 .. nextCell - 1 =>
             /\ p \in Objects /\ obj'[p].cell = obj[p].cell /\ obj'[p].class = obj[p].class
             /\ BeingRemoved(p) => BeingRemoved(p)'
    BY <1>1, <1>3, <1>4, <1>9, <1>10 DEF Objects
  <2>3. ~stack'[i].lost => \A b \in Range(Block) :
            stack[i].cursor \in Cells(b) => stack[i].cursor \in Cells(b)'
    BY <1>0, <1>13
  <2>4. nextCell' >= nextCell
    BY <1>1, <1>2
  <2>. QED
    BY <1>1, <1>8, <1>11, <2>1, <2>2, <2>3, <2>4, SweepKept
<1>15. Sweeps' = Sweeps
  BY <1>0 DEF Sweeps, Kept
<1>. QED
  BY <1>8, <1>11, <1>12, <1>13, <1>14, <1>15 DEF Inv

\* What every removal does to objects and lists: the sweeps are left to show.
LEMMA DestroyedKeeps ==
  ASSUME Inv, Assumptions, NEW o \in Objects, obj[o].changes = 0,
         NEW s, SameFrames(s), Destroyed(o, s)
  PROVE  /\ Types' /\ Nesting' /\ RemovalsApart' /\ CellsOwn' /\ ListsHold' /\ ListsAscend'
         /\ \A b \in Range(Block) : Cells(b) \ {obj[o].cell} \subseteq Cells(b)'
         /\ \A p \in Id : /\ obj'[p].class = obj[p].class /\ obj'[p].cell = obj[p].cell
                          /\ BeingRemoved(p)' <=> BeingRemoved(p) \/ p = o
         /\ stack' = Append(s, [kind |-> "removal", of |-> o, cell |-> obj[o].cell])
         /\ nextCell' = nextCell
<1>. DEFINE f == [kind |-> "removal", of |-> o, cell |-> obj[o].cell]
<1>1. Types /\ Nesting /\ o \in Id /\ obj[o] \in Record /\ ClassAssumption
  BY DEF Inv, Types, Assumptions, Objects
<1>2. /\ obj' = [obj EXCEPT ![o].changes = 1]
      /\ lists' = Unlisted(ClassBlock[obj[o].class], o)
      /\ stack' = Append(s, f) /\ nextCell' = nextCell
  BY DEF Destroyed
<1>3. f \in Frame /\ f.kind = "removal" /\ f.of = o /\ f.cell = obj[o].cell
  BY <1>1 DEF Frame, RemovalFrame, Record
<1>4. ~BeingRemoved(o)
  BY <1>1, AtRest
<1>5. /\ obj' \in [Id -> Record] /\ obj'[o].changes = 1
      /\ \A p \in Id : /\ obj'[p].class = obj[p].class /\ obj'[p].cell = obj[p].cell
                       /\ p # o => obj'[p] = obj[p]
  <2>1. PICK n \in Int : n = 1
    OBVIOUS
  <2>2. obj' = [obj EXCEPT ![o].changes = n]
    BY <1>2, <2>1
  <2>3. /\ obj' \in [Id -> Record] /\ obj'[o].changes = n
        /\ \A p \in Id : /\ obj'[p].class = obj[p].class /\ obj'[p].cell = obj[p].cell
                         /\ p # o => obj'[p] = obj[p]
    BY <1>1, <2>2, ChangesSet
  <2>. QED
    BY <2>1, <2>3
<1>6. lists' \in [Range(Block) -> Seq(Id)]
  BY <1>1, <1>2, <1>4, Unlisting
<1>. HIDE DEF f
<1>7. Types'
  BY <1>1, <1>2, <1>3, <1>5, <1>6, PushedOn DEF Types, SameFrames
<1>8. Nesting' /\ RemovalsApart'
  <2>1. /\ f.kind # "sweep" => /\ f.of \in Objects /\ ~BeingRemoved(f.of)
                               /\ obj'[f.of].changes = obj[f.of].changes + 1
        /\ f.kind = "removal" => obj[f.of].changes = 0 /\ f.cell = obj[f.of].cell
        /\ \A p \in Id : /\ obj'[p].cell = obj[p].cell /\ obj'[p].class = obj[p].class
                         /\ ~(f.kind # "sweep" /\ f.of = p) => obj'[p].changes = obj[p].changes
    BY <1>3, <1>4, <1>5
  <2>. QED
    BY <1>2, <1>3, <1>7, <2>1, PushNests
<1>9. \A p \in Id : BeingRemoved(p)' <=> BeingRemoved(p) \/ p = o
  BY <1>1, <1>2, <1>3, PushFrames
<1>10. CellsOwn'
  BY <1>2, <1>5 DEF Inv, CellsOwn, Objects
<1>11. /\ ListsHold' /\ ListsAscend'
       /\ \A b \in Range(Block) : Cells(b) \ {obj[o].cell} \subseteq Cells(b)'
  BY <1>1, <1>2, <1>4, <1>5, <1>7, <1>9, ListsLess
<1>. QED
  BY <1>2, <1>5, <1>7, <1>8, <1>9, <1>10, <1>11 DEF f

LEMMA DestroyInv ==
  ASSUME Inv, Assumptions, NEW o \in Id, Destroy(o)
  PROVE  Inv'
<1>. DEFINE f == [kind |-> "removal", of |-> o, cell |-> obj[o].cell]
<1>1. /\ o \in Objects /\ obj[o].changes = 0 /\ Destroyed(o, Marked(stack, o))
      /\ BlockAssumption /\ stack \in Seq(Frame) /\ DOMAIN stack = 1 .. Len(stack)
      /\ Len(stack) \in Nat
  BY DEF Destroy, Inv, Assumptions, Types
<1>2. PICK s \in Seq(Frame) : s = Marked(stack, o)
  BY <1>1, MarkedKeeps
<1>3. /\ Len(s) = Len(stack) /\ DOMAIN s = DOMAIN stack
      /\ \A j \in DOMAIN stack :
           /\ Kept(stack[j], s[j])
           /\ stack[j].kind = "sweep" /\ ~s[j].lost => stack[j].cursor # obj[o].cell
  BY <1>1, <1>2, MarkedKeeps
<1>4. SameFrames(s)
  BY <1>2, <1>3 DEF SameFrames, Kept
<1>5. /\ Types' /\ Nesting' /\ RemovalsApart' /\ CellsOwn' /\ ListsHold' /\ ListsAscend'
      /\ \A b \in Range(Block) : Cells(b) \ {obj[o].cell} \subseteq Cells(b)'
      /\ \A p \in Id : /\ obj'[p].class = obj[p].class /\ obj'[p].cell = obj[p].cell
                       /\ BeingRemoved(p)' <=> BeingRemoved(p) \/ p = o
      /\ stack' = Append(s, f) /\ nextCell' = nextCell
  BY <1>1, <1>2, <1>4, DestroyedKeeps
<1>6. f.kind = "removal"
  OBVIOUS
<1>. HIDE DEF f
<1>7. ASSUME NEW i \in Sweeps
      PROVE  SweepOK(i)'
  <2>1. \A j \in 1 .. i : Kept(stack[j], s[j])
    BY <1>1, <1>3 DEF Sweeps
  <2>2. ~s[i].lost => \A b \in Range(Block) :
            stack[i].cursor \in Cells(b) => stack[i].cursor \in Cells(b)'
    BY <1>3, <1>5 DEF Sweeps
  <2>. QED
    BY <1>1, <1>3, <1>5, <2>1, <2>2, WaitingKept
<1>8. Sweeps' = Sweeps
  <2>1. /\ DOMAIN stack' = 1 .. Len(stack) + 1
        /\ \A i \in 1 .. Len(stack) : stack'[i] = s[i]
        /\ stack'[Len(stack) + 1] = f
    BY <1>1, <1>3, <1>5
  <2>. QED
    BY <1>1, <1>3, <1>6, <2>1 DEF Sweeps, Kept
<1>. QED
  BY <1>5, <1>7, <1>8 DEF Inv

LEMMA StartSweepInv ==
  ASSUME Inv, Assumptions, NEW c \in Class \cup {NoClass}, StartSweep(c)
  PROVE  Inv'
<1>1. /\ Types /\ Nesting /\ CellsOwn /\ nextCell \in Nat /\ DOMAIN stack = 1 .. Len(stack)
      /\ Len(stack) \in Nat /\ BlockAssumption /\ ClassAssumption
  BY DEF Inv, Types, Assumptions
<1>. DEFINE rest == {p \in Objects : /\ c \in {obj[p].class, NoClass} \/ <<obj[p].class, c>> \in Inherits
                                     /\ obj[p].changes = 0}
            of == {obj[p].cell : p \in rest}
            new == [kind |-> "sweep", class |-> c, block |-> 1,
                    cursor |-> Header(Block[1]), lost |-> FALSE, of |-> of]
<1>2. /\ Acting /\ stack' = Append(stack, new)
      /\ obj' = obj /\ lists' = lists /\ nextCell' = nextCell
  BY <1>1 DEF StartSweep, Push
<1>. HIDE DEF of
<1>3. 1 \in 1 .. Len(Block) /\ Header(Block[1]) = -1
  <2>2. 1 \in 1 .. Len(Block)
    BY <1>1 DEF BlockAssumption
  <2>. QED
    BY <1>1, <2>2, Headers
<1>4. of \subseteq 1 .. nextCell - 1
  BY <1>1 DEF CellsOwn, of
<1>5. PICK f : /\ f = new /\ f \in Frame
               /\ f.kind = "sweep" /\ f.class = c /\ f.block = 1
               /\ f.cursor = -1 /\ f.of = of /\ f.lost = FALSE
  <2>1. of \in SUBSET Nat /\ 1 \in 1 .. Len(Block) + 1 /\ Header(Block[1]) \in Int
    BY <1>1, <1>3, <1>4
  <2>2. new \in SweepFrame
    BY <2>1 DEF SweepFrame
  <2>. QED
    BY <1>3, <2>2 DEF Frame
<1>6. /\ \A p \in Objects : obj[p].cell \in of => obj[p].changes = 0
      /\ \A p \in Objects : obj[p].cell \in Nat \ {0}
  <2>1. ASSUME NEW p \in Objects
        PROVE  obj[p].cell \in Nat \ {0} /\ \A q \in Objects : obj[q].cell = obj[p].cell => q = p
    BY <1>1 DEF CellsOwn
  <2>2. ASSUME NEW p \in Objects, obj[p].cell \in of
        PROVE  obj[p].changes = 0
    <3>1. PICK q \in rest : obj[q].cell = obj[p].cell
      BY <2>2 DEF of
    <3>2. q = p
      BY <2>1, <3>1
    <3>. QED
      BY <3>2
  <2>. QED
    BY <2>1, <2>2
<1>. HIDE DEF new
<1>0. PICK n \in Nat : n = Len(stack) + 1
  BY <1>1
<1>7. /\ DOMAIN stack' = 1 .. n /\ \A i \in 1 .. Len(stack) : stack'[i] = stack[i]
      /\ stack'[n] = f /\ Len(stack') = n
  BY <1>0, <1>1, <1>2, <1>5, PushedOn DEF Types
<1>8. Types'
  BY <1>1, <1>2, <1>5, PushedOn DEF Types
<1>9. SameFrames(stack)
  BY <1>1, Unmoved
<1>10. Nesting' /\ RemovalsApart'
  BY <1>2, <1>5, <1>8, <1>9, PushNests
<1>11. \A p \in Id : BeingRemoved(p)' <=> BeingRemoved(p)
  BY <1>1, <1>2, <1>5, <1>9, PushFrames
<1>12. CellsOwn'
  BY <1>1, <1>2 DEF CellsOwn, Objects
<1>13. ListsHold' /\ ListsAscend'
  <2>1. \A p \in Id : p \in Objects' <=> p \in Objects
    BY <1>2 DEF Objects
  <2>. QED
    BY <1>2, <1>8, <1>11, <2>1, ListsKept
<1>14. \A i \in Sweeps : SweepOK(i)'
  <2>1. ASSUME NEW i \in Sweeps
        PROVE  SweepOK(i)'
    <3>1. \A j \in 1 .. i : Kept(stack[j], stack[j])
      BY DEF Kept
    <3>2. /\ stack \in Seq(Frame) /\ Len(stack) = Len(stack)
          /\ \A b \in Range(Block) : Cells(b)' = Cells(b)
      BY <1>1, <1>2 DEF Types, Cells
    <3>3. ~stack[i].lost => \A b \in Range(Block) :
            stack[i].cursor \in Cells(b) => stack[i].cursor \in Cells(b)'
      BY <3>2
    <3>. QED
      BY <1>1, <1>2, <1>8, <1>10, <1>11, <3>1, <3>2, <3>3, WaitingKept
  <2>. QED
    BY <2>1
<1>16. Sweeps' = Sweeps \cup {n}
  BY <1>0, <1>1, <1>5, <1>7 DEF Sweeps
<1>17. SweepOK(n)'
  <2>1. ASSUME NEW j \in 1 .. n - 1, stack'[j].kind # "sweep"
        PROVE  obj'[stack'[j].of].cell \notin f.of
    <3>1. j \in DOMAIN stack /\ stack'[j] = stack[j] /\ stack[j] \in Frame
      BY <1>0, <1>1, <1>7 DEF Types
    <3>. DEFINE o == stack[j].of
    <3>2. stack[j].kind # "sweep" /\ o \in Id /\ j \in FramesOn(o)
      BY <2>1, <3>1, FrameKinds DEF FramesOn
    <3>3. o \in Objects /\ obj[o].changes # 0
      <4>1. o \in Objects
        BY <1>1, <3>2 DEF Nesting
      <4>. QED
        BY <1>1, <3>2, <4>1, AtRest
    <3>. QED
      BY <1>2, <1>5, <1>6, <3>1, <3>2, <3>3
  <2>2. f.of \subseteq 1 .. nextCell' - 1
    BY <1>2, <1>4, <1>5
  <2>3. ASSUME NEW b, b = Block[f.block]
        PROVE  f.cursor \in Cells(b)' \cup {Header(b), NULL}
    BY <1>3, <1>5, <2>3
  <2>4. ASSUME NEW o \in Objects'
        PROVE  Ahead(f, o)'
    <3>1. o \in Id /\ obj[o].class \in Class /\ obj[o].cell \in Nat \ {0}
      BY <1>2, <1>6 DEF Objects
    <3>2. Place(Block, ClassBlock[obj[o].class]) \in 1 .. Len(Block)
      BY <1>1, <3>1, Blocks DEF ClassAssumption, Class
    <3>3. Place(Block, ClassBlock[obj[o].class]) \in Nat \ {0}
      BY <3>2
    <3>4. f.block < Place(Block, ClassBlock[obj[o].class]) \/ f.block = Place(Block, ClassBlock[obj[o].class])
      BY <1>5, <3>3
    <3>5. f.cursor # NULL /\ f.cursor <= obj[o].cell
      BY <1>5, <3>1 DEF NULL
    <3>6. f.block < Place(Block, ClassBlock[obj'[o].class]) \/ (f.block = Place(Block, ClassBlock[obj'[o].class]) /\ f.cursor # NULL /\ f.cursor <= obj'[o].cell)
      BY <1>2, <3>4, <3>5
    <3>. QED
      BY <3>6 DEF Ahead
  <2>. QED
    BY <1>7, <2>1, <2>2, <2>3, <2>4 DEF SweepOK, PlaceLive, Cells
<1>. QED
  BY <1>8, <1>10, <1>12, <1>13, <1>14, <1>16, <1>17 DEF Inv

LEMMA EndInv ==
  ASSUME Inv, Assumptions, End
  PROVE  Inv'
<1>1. /\ Types /\ Nesting /\ RemovalsApart /\ CellsOwn /\ nextCell \in Nat
      /\ BlockAssumption /\ ClassAssumption
  BY DEF Inv, Types, Assumptions
<1>. DEFINE o == Top.of
            new == IF Top.kind = "removal" THEN Dead
                   ELSE [obj[o] EXCEPT !.changes = obj[o].changes - 1]
<1>2. /\ stack # <<>> /\ Top.kind \in {"change", "removal"}
      /\ obj' = [obj EXCEPT ![o] = new]
      /\ stack' = Front(stack) /\ lists' = lists /\ nextCell' = nextCell
  BY DEF End
<1>3. /\ Len(stack) \in Nat \ {0} /\ DOMAIN stack = 1 .. Len(stack)
      /\ stack' \in Seq(Frame) /\ Len(stack') = Len(stack) - 1
      /\ DOMAIN stack' = 1 .. Len(stack) - 1
      /\ \A i \in 1 .. Len(stack) - 1 : stack'[i] = stack[i]
      /\ Top = stack[Len(stack)] /\ Top \in Frame
  BY <1>1, <1>2, FrontOf DEF Types, Top
<1>4. PICK q \in Id : q = o
  BY <1>2, <1>3, FrameKinds
<1>5. Len(stack) \in FramesOn(q) /\ q \in Objects /\ obj[q] \in Record
  <2>1. Len(stack) \in FramesOn(q)
    BY <1>2, <1>3, <1>4 DEF FramesOn
  <2>. QED
    BY <1>1, <2>1 DEF Nesting, Types
<1>6. /\ new \in Record
      /\ Top.kind = "removal" => new = Dead
      /\ Top.kind = "change" => /\ new.changes = obj[q].changes - 1
                                /\ new.class = obj[q].class /\ new.cell = obj[q].cell
  BY <1>2, <1>4, <1>5 DEF Record, Dead, NULL, NoClass
<1>. HIDE DEF new
<1>7. /\ obj' \in [Id -> Record] /\ obj'[q] = new /\ \A p \in Id : p # q => obj'[p] = obj[p]
  BY <1>1, <1>2, <1>4, <1>6 DEF Types
<1>8. Types'
  BY <1>1, <1>2, <1>3, <1>7 DEF Types
<1>9. Nesting' /\ RemovalsApart'
  <2>1. \A p \in Id : ~(Top.kind # "sweep" /\ Top.of = p) => obj'[p] = obj[p]
    BY <1>2, <1>4, <1>7
  <2>2. /\ Top.kind = "change" =>
             /\ obj'[Top.of].changes = obj[Top.of].changes - 1
             /\ obj'[Top.of].class = obj[Top.of].class /\ obj'[Top.of].cell = obj[Top.of].cell
        /\ Top.kind = "removal" => obj'[Top.of] = Dead
    BY <1>4, <1>6, <1>7
  <2>. QED
    BY <1>1, <1>2, <1>8, <2>1, <2>2, PopNests
<1>10. \A p \in Id : ~(Top.kind = "removal" /\ p = q) => (BeingRemoved(p)' <=> BeingRemoved(p))
  BY <1>1, <1>2, <1>4, PopFrames
<1>11. /\ \A p \in Id : p # q => (p \in Objects' <=> p \in Objects)
       /\ Top.kind = "change" => q \in Objects'
       /\ Top.kind = "removal" => q \notin Objects' /\ BeingRemoved(q)
  <2>1. Dead.class \notin Class
    BY <1>1 DEF Dead, NoClass, ClassAssumption, Class
  <2>2. Top.kind = "removal" => BeingRemoved(q)
    BY <1>3, <1>4 DEF BeingRemoved
  <2>. QED
    BY <1>5, <1>6, <1>7, <2>1, <2>2 DEF Objects
<1>12. \A p \in Objects' : p \in Objects /\ obj'[p].cell = obj[p].cell /\ obj'[p].class = obj[p].class
  BY <1>2, <1>5, <1>6, <1>7, <1>11 DEF Objects
<1>13. CellsOwn'
  BY <1>1, <1>2, <1>12 DEF CellsOwn
<1>14. /\ ListsHold' /\ ListsAscend'
       /\ \A b \in Range(Block) : Cells(b)' = Cells(b)
  <2>1. ASSUME NEW p \in Id
        PROVE  /\ p \in Objects' /\ ~BeingRemoved(p)' <=> p \in Objects /\ ~BeingRemoved(p)
               /\ p \in Objects /\ ~BeingRemoved(p) =>
                    obj'[p].class = obj[p].class /\ obj'[p].cell = obj[p].cell
    <3>1. CASE p = q
      BY <1>2, <1>5, <1>6, <1>7, <1>10, <1>11, <3>1
    <3>2. CASE p # q
      BY <1>7, <1>10, <1>11, <3>2
    <3>. QED
      BY <3>1, <3>2
  <2>. QED
    BY <1>2, <1>8, <2>1, ListsKept
<1>15. ASSUME NEW i \in Sweeps'
       PROVE  i \in Sweeps /\ SweepOK(i)'
  <2>1. /\ i \in 1 .. Len(stack) - 1 /\ stack'[i] = stack[i] /\ i \in Sweeps
        /\ i \in DOMAIN stack'
    BY <1>3 DEF Sweeps
  <2>2. \A j \in 1 .. i : Kept(stack[j], stack'[j])
    <3>1. \A j \in 1 .. i : j \in 1 .. Len(stack) - 1
      BY <1>3, <2>1
    <3>. QED
      BY <1>3, <3>1 DEF Kept
  <2>3. \A p \in Objects' : obj'[p].cell \in 1 .. nextCell - 1 =>
             /\ p \in Objects /\ obj'[p].cell = obj[p].cell /\ obj'[p].class = obj[p].class
             /\ BeingRemoved(p) => BeingRemoved(p)'
    BY <1>10, <1>11, <1>12 DEF Objects
  <2>4. \A b \in Range(Block) : stack[i].cursor \in Cells(b) => stack[i].cursor \in Cells(b)'
    BY <1>14
  <2>5. nextCell' >= nextCell
    BY <1>1, <1>2
  <2>. QED
    BY <1>1, <1>8, <1>9, <2>1, <2>2, <2>3, <2>4, <2>5, SweepKept
<1>. QED
  BY <1>8, <1>9, <1>13, <1>14, <1>15 DEF Inv

-----------------------------------------------------------------------------
(* The sweep *)

\* The sweep on top is given another place, from which what it had ahead of it is
\* ahead of it still, and what is not is being removed.
LEMMA SweepMoved ==
  ASSUME Inv, Types', Nesting', stack # <<>>, Top.kind = "sweep", NEW n, n = Len(stack),
         NEW g \in SweepFrame, n \in DOMAIN stack', stack'[n] = g,
         g.class = Top.class, g.of = Top.of, g.lost = Top.lost,
         \A j \in 1 .. n - 1 : Kept(stack[j], stack'[j]),
         nextCell' = nextCell,
         \A o \in Id : obj'[o].class = obj[o].class /\ obj'[o].cell = obj[o].cell,
         \A b : g.block <= Len(Block) /\ b = Block[g.block] =>
                  g.cursor \in Cells(b)' \cup {Header(b), NULL},
         \A o \in Objects :
           /\ Seeks(Top, obj[o].class) /\ obj[o].cell \in Top.of
           /\ Ahead(Top, o) /\ ~BeingRemoved(o)
           => BeingRemoved(o)' \/ Ahead(g, o)
  PROVE  SweepOK(n)'
<1>2. /\ n \in Sweeps /\ SweepOK(n) /\ Top = stack[n]
      /\ \A o \in Objects : obj[o].cell \in Top.of => ~BeingRemoved(o)
  BY TopSweep
<1>3. \A o \in Objects' : o \in Objects /\ obj'[o].class = obj[o].class /\ obj'[o].cell = obj[o].cell
  BY DEF Objects
<1>4. nextCell' >= nextCell /\ n \in DOMAIN stack' /\ stack'[n] = g
      /\ stack'[n].of = stack[n].of /\ \A j \in 1 .. n - 1 : Kept(stack[j], stack'[j])
  BY <1>2 DEF Inv, Types
<1>5. /\ \A j \in 1 .. n - 1 :
           stack'[j].kind # "sweep" => obj'[stack'[j].of].cell \notin stack'[n].of
      /\ stack'[n].of \subseteq 1 .. nextCell' - 1
  BY <1>2, <1>3, <1>4, BelowKept
<1>6. PlaceLive(g)'
  BY DEF PlaceLive, Cells
<1>7. ASSUME ~g.lost, NEW o \in Objects', Seeks(g, obj'[o].class), obj'[o].cell \in g.of
      PROVE  BeingRemoved(o)' \/ Ahead(g, o)'
  <2>1. /\ o \in Objects /\ obj'[o].class = obj[o].class /\ obj'[o].cell = obj[o].cell
        /\ Seeks(Top, obj[o].class) /\ obj[o].cell \in Top.of
    BY <1>3, <1>7 DEF Seeks
  <2>2. ~BeingRemoved(o) /\ Ahead(Top, o)
    BY <1>2, <1>7, <2>1 DEF SweepOK
  <2>3. BeingRemoved(o)' \/ Ahead(g, o)
    BY <2>1, <2>2
  <2>. QED
    BY <2>1, <2>3 DEF Ahead
<1>. QED
  BY <1>4, <1>5, <1>6, <1>7 DEF SweepOK, PlaceLive, Cells, Seeks, Ahead

\* It is the only frame to change, and nothing else does.
LEMMA Moved ==
  ASSUME Inv, Assumptions, stack # <<>>, Top.kind = "sweep",
         UNCHANGED <<obj, lists, nextCell>>, NEW g \in SweepFrame,
         stack' \in Seq(Frame), Len(stack') = Len(stack), stack'[Len(stack)] = g,
         \A j \in 1 .. Len(stack) - 1 : stack'[j] = stack[j],
         g.class = Top.class, g.of = Top.of, g.lost = Top.lost,
         \A b : g.block <= Len(Block) /\ b = Block[g.block] =>
                  g.cursor \in Cells(b) \cup {Header(b), NULL},
         \A o \in Objects :
           /\ Seeks(Top, obj[o].class) /\ obj[o].cell \in Top.of
           /\ Ahead(Top, o) /\ ~BeingRemoved(o)
           => Ahead(g, o)
  PROVE  Inv'
<1>1. /\ Types /\ Nesting /\ CellsOwn /\ nextCell \in Nat
      /\ BlockAssumption /\ ClassAssumption
  BY DEF Inv, Types, Assumptions
<1>2. /\ Len(stack) \in Sweeps /\ Top = stack[Len(stack)] /\ Len(stack) \in Nat \ {0}
      /\ DOMAIN stack = 1 .. Len(stack) /\ DOMAIN stack' = 1 .. Len(stack)
      /\ g.kind = "sweep"
  BY <1>1, TopSweep DEF Types, SweepFrame
<1>3. \A j \in DOMAIN stack : j = Len(stack) \/ stack'[j] = stack[j]
  BY <1>2
<1>4. SameFrames(stack') /\ Types'
  BY <1>1, <1>2, <1>3 DEF SameFrames, Types, Sweeps
<1>5. /\ \A o \in Id : /\ FramesOn(o)' = FramesOn(o)
                       /\ BeingRemoved(o)' <=> BeingRemoved(o)
                       /\ o \in Objects' <=> o \in Objects
      /\ \A b : Cells(b)' = Cells(b)
  BY <1>1, <1>4, KeepFrames DEF Objects, Cells
<1>6. Nesting' /\ RemovalsApart'
  <2>1. \A p \in Id : /\ obj'[p].changes = obj[p].changes
                      /\ obj'[p].cell = obj[p].cell \/ FramesOn(p) = {}
                      /\ p \in Objects => p \in Objects'
    BY <1>5
  <2>. QED
    BY <1>4, <2>1, KeepNests
<1>7. CellsOwn'
  BY <1>1 DEF CellsOwn, Objects
<1>8. ListsHold' /\ ListsAscend'
  BY <1>4, <1>5, ListsKept
<1>9. Sweeps' = Sweeps
  BY <1>2, <1>3 DEF Sweeps
<1>0. PICK n : n = Len(stack)
  OBVIOUS
<1>10. SweepOK(n)'
  <2>1. /\ n \in DOMAIN stack' /\ stack'[n] = g
        /\ \A j \in 1 .. n - 1 : Kept(stack[j], stack'[j])
    BY <1>0, <1>2 DEF Kept
  <2>2. \A b : g.block <= Len(Block) /\ b = Block[g.block] =>
                  g.cursor \in Cells(b)' \cup {Header(b), NULL}
    BY <1>5
  <2>. QED
    BY <1>0, <1>4, <1>6, <2>1, <2>2, SweepMoved
<1>11. ASSUME NEW i \in Sweeps, i # n
       PROVE  SweepOK(i)'
  <2>1. i \in 1 .. Len(stack) - 1
    BY <1>0, <1>2, <1>11 DEF Sweeps
  <2>2. i \in DOMAIN stack' /\ \A j \in 1 .. i : Kept(stack[j], stack'[j])
    BY <1>2, <2>1 DEF Kept
  <2>3. ~stack'[i].lost => \A b \in Range(Block) :
            stack[i].cursor \in Cells(b) => stack[i].cursor \in Cells(b)'
    BY <1>5
  <2>4. /\ nextCell' >= nextCell
        /\ \A o \in Objects' : obj'[o].cell \in 1 .. nextCell - 1 =>
             /\ o \in Objects /\ obj'[o].cell = obj[o].cell /\ obj'[o].class = obj[o].class
             /\ BeingRemoved(o) => BeingRemoved(o)'
    BY <1>1, <1>5 DEF Objects
  <2>. QED
    BY <1>1, <1>4, <1>6, <2>2, <2>3, <2>4, SweepKept
<1>. QED
  BY <1>4, <1>6, <1>7, <1>8, <1>9, <1>10, <1>11 DEF Inv

LEMMA NextBlockInv ==
  ASSUME Inv, Assumptions, NextBlock
  PROVE  Inv'
<1>. DEFINE new == [Top EXCEPT !.block = @ + 1,
                               !.cursor = IF Top.block = Len(Block) THEN NULL
                                          ELSE Header(Block[Top.block + 1])]
            b == SweepList
<1>1. /\ stack # <<>> /\ Top.kind = "sweep" /\ Top.block <= Len(Block)
      /\ Top.cursor = NULL \/ (Top.cursor = Header(b) /\ lists[b] = <<>>)
      /\ UNCHANGED <<obj, lists, nextCell>>
      /\ stack' = [stack EXCEPT ![Len(stack)] = new]
  BY DEF NextBlock, Sweeping
<1>2. /\ Top \in SweepFrame /\ BlockAssumption /\ ClassAssumption /\ Types /\ ListsHold
      /\ Len(Block) \in Nat /\ Top.block \in 1 .. Len(Block)
  BY <1>1, TopSweep DEF Inv, Assumptions, BlockAssumption, SweepFrame
<1>3. Top.block # Len(Block) => /\ Top.block + 1 \in 1 .. Len(Block)
                                /\ Header(Block[Top.block + 1]) = -(Top.block + 1)
  BY <1>2, Headers
<1>4. PICK g \in SweepFrame :
         /\ g = new /\ g.class = Top.class /\ g.of = Top.of /\ g.lost = Top.lost /\ g.block = Top.block + 1
         /\ g.cursor = IF Top.block = Len(Block) THEN NULL ELSE Header(Block[Top.block + 1])
  <2>. DEFINE to == IF Top.block = Len(Block) THEN NULL ELSE Header(Block[Top.block + 1])
  <2>1. to \in Int /\ Top.block + 1 \in 1 .. Len(Block) + 1
    BY <1>2, <1>3 DEF NULL
  <2>2. new = [Top EXCEPT !.block = @ + 1, !.cursor = to]
    OBVIOUS
  <2>. HIDE DEF to
  <2>3. /\ new \in SweepFrame /\ new.class = Top.class /\ new.of = Top.of /\ new.lost = Top.lost
        /\ new.block = Top.block + 1 /\ new.cursor = to
    BY <1>2, <2>1, <2>2 DEF SweepFrame
  <2>. QED
    BY <2>3 DEF to
<1>. HIDE DEF new
<1>5. \A c : g.block <= Len(Block) /\ c = Block[g.block] =>
                  g.cursor \in Cells(c) \cup {Header(c), NULL}
  BY <1>2, <1>4
<1>6. ASSUME NEW o \in Objects, Ahead(Top, o), ~BeingRemoved(o)
      PROVE  Ahead(g, o)
  <2>. DEFINE p == Place(Block, ClassBlock[obj[o].class])
  <2>1. /\ o \in Id /\ ClassBlock[obj[o].class] \in Range(Block)
        /\ obj[o].cell \in Nat \ {0}
    BY <1>2 DEF Objects, ClassAssumption, Class, Inv, CellsOwn
  <2>2. p \in 1 .. Len(Block) /\ Block[p] = ClassBlock[obj[o].class]
    BY <1>2, <2>1, Blocks
  <2>3. Top.block < p \/ (Top.block = p /\ Top.cursor # NULL)
    BY <1>6 DEF Ahead
  <2>. HIDE DEF p
  <2>4. Top.block # p
    <3>1. ASSUME Top.block = p
          PROVE  FALSE
      <4>1. Top.cursor # NULL /\ lists[b] = <<>>
        BY <1>1, <1>2, <2>2, <2>3, <3>1
      <4>2. b = ClassBlock[obj[o].class]
        BY <2>2, <3>1 DEF SweepList
      <4>3. o \in Range(lists[b])
        BY <1>2, <1>6, <2>1, <4>2 DEF ListsHold
      <4>. QED
        BY <4>1, <4>3 DEF Range
    <3>. QED
      BY <3>1
  <2>5. g.block < p \/ (g.block = p /\ g.cursor = -p)
    BY <1>2, <1>3, <1>4, <2>2, <2>3, <2>4
  <2>6. g.block < p \/ (g.block = p /\ g.cursor # NULL /\ g.cursor <= obj[o].cell)
    BY <2>1, <2>2, <2>5 DEF NULL
  <2>. QED
    BY <2>6 DEF Ahead, p
<1>7. /\ stack' \in Seq(Frame) /\ Len(stack') = Len(stack) /\ stack'[Len(stack)] = g
      /\ \A j \in 1 .. Len(stack) - 1 : stack'[j] = stack[j]
  <2>1. g \in Frame /\ stack \in Seq(Frame) /\ Len(stack) \in DOMAIN stack
    BY <1>1, <1>2 DEF Frame, Types
  <2>2. /\ stack' \in Seq(Frame) /\ Len(stack') = Len(stack)
        /\ \A j \in DOMAIN stack : stack'[j] = IF j = Len(stack) THEN g ELSE stack[j]
    BY <1>1, <1>4, <2>1, PlaceReplaced
  <2>3. \A j \in 1 .. Len(stack) - 1 : j \in DOMAIN stack /\ j # Len(stack)
    BY <2>1
  <2>. QED
    BY <2>1, <2>2, <2>3
<1>. QED
  BY <1>1, <1>4, <1>5, <1>6, <1>7, Moved

LEMMA EndSweepInv ==
  ASSUME Inv, Assumptions, EndSweep
  PROVE  Inv'
<1>1. /\ stack # <<>> /\ Top.kind = "sweep" /\ stack' = Front(stack)
      /\ obj' = obj /\ lists' = lists /\ nextCell' = nextCell
      /\ Types /\ Nesting /\ ClassAssumption
  BY DEF EndSweep, Inv, Assumptions
<1>2. /\ Len(stack) \in Nat \ {0} /\ DOMAIN stack = 1 .. Len(stack)
      /\ stack' \in Seq(Frame) /\ DOMAIN stack' = 1 .. Len(stack) - 1
      /\ \A i \in 1 .. Len(stack) - 1 : stack'[i] = stack[i]
  BY <1>1, FrontOf DEF Types
<1>3. Types'
  BY <1>1, <1>2 DEF Types
<1>4. Nesting' /\ RemovalsApart'
  BY <1>1, <1>3, PopNests
<1>5. \A o \in Id : BeingRemoved(o)' <=> BeingRemoved(o)
  BY <1>1, PopFrames
<1>6. CellsOwn'
  BY <1>1 DEF Inv, CellsOwn, Objects
<1>7. ListsHold' /\ ListsAscend'
  <2>1. \A p \in Id : p \in Objects' <=> p \in Objects
    BY <1>1 DEF Objects
  <2>. QED
    BY <1>1, <1>3, <1>5, <2>1, ListsKept
<1>8. ASSUME NEW i \in Sweeps'
      PROVE  i \in Sweeps /\ SweepOK(i)'
  <2>1. i \in 1 .. Len(stack) - 1 /\ i \in Sweeps /\ i \in DOMAIN stack'
    BY <1>2 DEF Sweeps
  <2>2. \A j \in 1 .. i : Kept(stack[j], stack'[j])
    BY <1>2, <2>1 DEF Kept
  <2>3. ~stack'[i].lost => \A b \in Range(Block) :
            stack[i].cursor \in Cells(b) => stack[i].cursor \in Cells(b)'
    BY <1>1 DEF Cells
  <2>4. /\ nextCell' >= nextCell
        /\ \A o \in Objects' : obj'[o].cell \in 1 .. nextCell - 1 =>
             /\ o \in Objects /\ obj'[o].cell = obj[o].cell /\ obj'[o].class = obj[o].class
             /\ BeingRemoved(o) => BeingRemoved(o)'
    BY <1>1, <1>5 DEF Objects, Types
  <2>. QED
    BY <1>1, <1>3, <1>4, <2>1, <2>2, <2>3, <2>4, SweepKept DEF Assumptions
<1>. QED
  BY <1>3, <1>4, <1>6, <1>7, <1>8 DEF Inv

\* The object a sweep is at, and the place it keeps behind that object.
LEMMA Visited ==
  ASSUME Inv, Assumptions, Visit, NEW o, o = ListFirst(SweepList, Top.cursor)
  PROVE  /\ o \in Objects /\ ~BeingRemoved(o)
         /\ stack # <<>> /\ Top.kind = "sweep" /\ Top.block <= Len(Block)
         /\ Advance(o) \in SweepFrame /\ Advance(o).class = Top.class
         /\ Advance(o).of = Top.of /\ Advance(o).block = Top.block
         /\ Advance(o).lost = Top.lost
         /\ Advance(o).cursor # NULL =>
              Advance(o).cursor \in Cells(SweepList) /\ Advance(o).cursor > obj[o].cell
         /\ \A p \in Objects \ {o} : Ahead(Top, p) /\ ~BeingRemoved(p) => Ahead(Advance(o), p)
<1>. DEFINE b == SweepList
            l == lists[b]
<1>1. /\ stack # <<>> /\ Top.kind = "sweep" /\ Top.block <= Len(Block)
      /\ (Top.cursor = Header(b) /\ l # <<>>) \/ Top.cursor \in Cells(b)
  BY DEF Visit, Sweeping
<1>2. /\ Top \in SweepFrame /\ BlockAssumption /\ ClassAssumption /\ Types
      /\ ListsHold /\ ListsAscend /\ CellsOwn
      /\ Len(Block) \in Nat /\ Top.block \in 1 .. Len(Block)
  BY <1>1, TopSweep DEF Inv, Assumptions, BlockAssumption, SweepFrame
<1>3. /\ b \in Range(Block) /\ Header(b) = -Top.block /\ b = Block[Top.block]
  BY <1>2, Headers DEF SweepList
<1>4. l \in Seq(Id) /\ DOMAIN l = 1 .. Len(l) /\ Len(l) \in Nat
  BY <1>2, <1>3 DEF Types
<1>. HIDE DEF b
<1>5. ASSUME NEW k \in DOMAIN l
      PROVE  /\ l[k] \in Objects /\ l[k] \in Id /\ ~BeingRemoved(l[k])
             /\ obj[l[k]].cell \in Nat \ {0} /\ l[k] \in Range(l)
             /\ \A p \in Objects : obj[p].cell = obj[l[k]].cell => p = l[k]
  <2>1. l[k] \in Id /\ l[k] \in Range(l)
    BY <1>4 DEF Range
  <2>2. l[k] \in Objects /\ ~BeingRemoved(l[k])
    BY <1>2, <1>3, <2>1 DEF ListsHold
  <2>3. obj[l[k]].cell \in 1 .. nextCell - 1 /\ \A p \in Objects : obj[p].cell = obj[l[k]].cell => p = l[k]
    BY <1>2, <2>2 DEF CellsOwn
  <2>. QED
    BY <2>1, <2>2, <2>3
<1>6. PICK k \in DOMAIN l :
         /\ l[k] = o
         /\ Top.cursor = Header(b) => k = 1
         /\ Top.cursor # Header(b) => Top.cursor = obj[o].cell
  <2>1. CASE Top.cursor = Header(b)
    <3>1. l # <<>>
      <4>1. ASSUME Top.cursor \in Cells(b)
            PROVE  l # <<>>
        BY <4>1, <1>4 DEF Cells
      <4>. QED
        BY <1>1, <4>1
    <3>2. 1 \in DOMAIN l
      BY <1>4, <3>1
    <3>3. o = l[1]
      BY <2>1 DEF ListFirst, b
    <3>. QED
      BY <2>1, <3>2, <3>3
  <2>2. CASE Top.cursor # Header(b)
    <3>1. PICK k \in DOMAIN l : obj[l[k]].cell = Top.cursor
      BY <1>1, <2>2 DEF Cells
    <3>2. o = CHOOSE p \in Range(l) : obj[p].cell = Top.cursor
      BY <2>2 DEF ListFirst, b
    <3>3. o \in Range(l) /\ obj[o].cell = Top.cursor
      BY <1>5, <3>1, <3>2
    <3>4. PICK m \in DOMAIN l : l[m] = o
      BY <3>3 DEF Range
    <3>. QED
      BY <2>2, <3>3, <3>4
  <2>. QED
    BY <2>1, <2>2
<1>7. Place(l, o) = k
  <2>1. \A i, j \in DOMAIN l : l[i] = l[j] => i = j
    BY <1>2, <1>3, ListsOnce
  <2>2. Place(l, l[k]) = k
    BY <1>4, <2>1, Placed
  <2>. QED
    BY <1>6, <2>2
<1>. DEFINE next == IF k = Len(l) THEN NULL ELSE obj[l[k + 1]].cell
<1>8. ListNext(SweepList, o) = next
  BY <1>7 DEF ListNext, b
<1>9. k # Len(l) => k + 1 \in DOMAIN l
  BY <1>4
<1>10. next \in Int
  BY <1>5, <1>9 DEF NULL
<1>11. Advance(o) = [Top EXCEPT !.cursor = next]
  BY <1>8 DEF Advance
<1>12. next # NULL => next \in Cells(b) /\ next > obj[o].cell
  <2>1. ASSUME next # NULL
        PROVE  next \in Cells(b) /\ next > obj[o].cell
    <3>1. k # Len(l) /\ k + 1 \in DOMAIN l /\ next = obj[l[k + 1]].cell
      BY <1>9, <2>1
    <3>2. k \in Nat /\ k < k + 1
      BY <1>4
    <3>3. obj[l[k]].cell < obj[l[k + 1]].cell
      BY <1>2, <1>3, <3>1, <3>2 DEF ListsAscend
    <3>4. obj[l[k]].cell \in Nat /\ obj[l[k + 1]].cell \in Nat
      BY <1>5, <3>1
    <3>. QED
      BY <1>6, <3>1, <3>3, <3>4 DEF Cells
  <2>. QED
    BY <2>1
<1>13. ASSUME NEW p \in Objects \ {o}, Ahead(Top, p), ~BeingRemoved(p)
       PROVE  LET q == Place(Block, ClassBlock[obj[p].class])
              IN  Top.block < q \/ (Top.block = q /\ next # NULL /\ next <= obj[p].cell)
  <2>. DEFINE q == Place(Block, ClassBlock[obj[p].class])
  <2>1. /\ p \in Id /\ ClassBlock[obj[p].class] \in Range(Block)
    BY <1>2 DEF Objects, ClassAssumption, Class
  <2>2. q \in 1 .. Len(Block) /\ Block[q] = ClassBlock[obj[p].class]
    BY <1>2, <2>1, Blocks
  <2>3. Top.block < q \/ (Top.block = q /\ Top.cursor # NULL /\ Top.cursor <= obj[p].cell)
    BY <1>13 DEF Ahead
  <2>. HIDE DEF q
  <2>4. CASE Top.block = q
    <3>1. p \in Range(l)
      BY <1>2, <1>3, <1>13, <2>1, <2>2, <2>4 DEF ListsHold
    <3>2. PICK m \in DOMAIN l : l[m] = p
      BY <3>1 DEF Range
    <3>3. m # k /\ m \in Nat /\ k \in Nat /\ m >= 1
      BY <1>4, <1>6, <3>2
    <3>4. k < m
      <4>1. CASE Top.cursor = Header(b)
        BY <1>6, <3>3, <4>1
      <4>2. CASE Top.cursor # Header(b)
        <5>1. obj[l[k]].cell <= obj[l[m]].cell
          BY <1>2, <1>6, <2>3, <2>4, <3>2, <4>2
        <5>2. ~(m < k)
          <6>1. m < k => obj[l[m]].cell < obj[l[k]].cell
            BY <1>2, <1>3 DEF ListsAscend
          <6>2. obj[l[k]].cell \in Nat /\ obj[l[m]].cell \in Nat
            BY <1>5
          <6>. QED
            BY <5>1, <6>1, <6>2
        <5>. QED
          BY <3>3, <5>2
      <4>. QED
        BY <4>1, <4>2
    <3>5. k # Len(l) /\ k + 1 \in DOMAIN l /\ (k + 1 = m \/ k + 1 < m)
      BY <1>4, <3>3, <3>4
    <3>6. obj[l[k + 1]].cell <= obj[l[m]].cell
      <4>1. k + 1 < m => obj[l[k + 1]].cell < obj[l[m]].cell
        BY <1>2, <1>3, <3>5 DEF ListsAscend
      <4>2. obj[l[k + 1]].cell \in Nat /\ obj[l[m]].cell \in Nat
        BY <1>5, <3>5
      <4>. QED
        BY <3>5, <4>1, <4>2
    <3>7. next = obj[l[k + 1]].cell /\ next # NULL
      BY <1>5, <3>5 DEF NULL
    <3>. QED
      BY <2>4, <3>2, <3>6, <3>7 DEF q
  <2>5. CASE Top.block < q
    BY <2>5 DEF q
  <2>. QED
    BY <2>3, <2>4, <2>5
<1>. HIDE DEF next
<1>14. /\ Advance(o) \in SweepFrame /\ Advance(o).class = Top.class
       /\ Advance(o).of = Top.of /\ Advance(o).block = Top.block /\ Advance(o).cursor = next
       /\ Advance(o).lost = Top.lost
  BY <1>2, <1>10, <1>11 DEF SweepFrame
<1>15. \A p \in Objects \ {o} : Ahead(Top, p) /\ ~BeingRemoved(p) => Ahead(Advance(o), p)
  BY <1>13, <1>14 DEF Ahead
<1>16. o \in Objects /\ ~BeingRemoved(o)
  BY <1>5, <1>6
<1>. QED
  BY <1>1, <1>12, <1>14, <1>15, <1>16 DEF b

LEMMA VisitInv ==
  ASSUME Inv, Assumptions, Visit
  PROVE  Inv'
<1>1. PICK o : o = ListFirst(SweepList, Top.cursor)
  OBVIOUS
<1>2. IF ToRemove(o) THEN Destroyed(o, Append(Marked(Front(stack), o), Advance(o)))
      ELSE /\ stack' = Append(Front(stack), Advance(o))
           /\ UNCHANGED <<obj, lists, nextCell>>
  BY <1>1 DEF Visit
<1>3. /\ o \in Objects /\ ~BeingRemoved(o)
      /\ stack # <<>> /\ Top.kind = "sweep" /\ Top.block <= Len(Block)
      /\ Advance(o).cursor # NULL =>
              Advance(o).cursor \in Cells(SweepList) /\ Advance(o).cursor > obj[o].cell
  BY <1>1, Visited
<1>4. PICK g \in SweepFrame :
         /\ g = Advance(o) /\ g.class = Top.class /\ g.of = Top.of /\ g.block = Top.block
         /\ g.lost = Top.lost
         /\ \A p \in Objects \ {o} : Ahead(Top, p) /\ ~BeingRemoved(p) => Ahead(g, p)
  BY <1>1, Visited
<1>5. PICK n \in Nat : n = Len(stack) /\ n >= 1
  BY <1>3 DEF Inv, Types
<1>6. /\ Types /\ Nesting /\ BlockAssumption /\ nextCell \in Nat
      /\ DOMAIN stack = 1 .. n /\ n \in Sweeps /\ Top = stack[n] /\ Top \in SweepFrame
      /\ \A p \in Objects : obj[p].cell \in Top.of => obj[p].changes = 0 /\ ~BeingRemoved(p)
  BY <1>3, <1>5, TopSweep DEF Inv, Types, Assumptions
<1>7. /\ Front(stack) \in Seq(Frame) /\ Len(Front(stack)) = n - 1
      /\ DOMAIN Front(stack) = 1 .. n - 1
      /\ \A j \in 1 .. n - 1 : Front(stack)[j] = stack[j]
      /\ g \in Frame /\ g.kind = "sweep" /\ Top.kind = "sweep"
  <2>1. stack \in Seq(Frame)
    BY <1>6 DEF Types
  <2>2. g \in Frame /\ g.kind = "sweep"
    BY DEF Frame, SweepFrame
  <2>. QED
    BY <1>3, <1>5, <2>1, <2>2, FrontOf
<1>8. PICK b \in Range(Block) : b = SweepList
  <2>1. Top.block \in 1 .. Len(Block)
    BY <1>3, <1>6 DEF SweepFrame, BlockAssumption
  <2>. QED
    BY <1>6, <2>1, Headers DEF SweepList
<1>9. CASE ToRemove(o)
  <2>1. PICK m \in Seq(Frame) : m = Marked(Front(stack), o)
    BY <1>7, MarkedKeeps
  <2>2. /\ Len(m) = n - 1
        /\ \A j \in 1 .. n - 1 :
             /\ Kept(stack[j], m[j])
             /\ stack[j].kind = "sweep" /\ ~m[j].lost => stack[j].cursor # obj[o].cell
    BY <1>7, <2>1, MarkedKeeps
  <2>3. PICK s \in Seq(Frame) : s = Append(m, g)
    <3>1. Append(m, g) \in Seq(Frame)
      BY <1>7
    <3>. QED
      BY <3>1
  <2>4. /\ Len(s) = n /\ DOMAIN s = 1 .. n /\ s[n] = g
        /\ \A j \in 1 .. n - 1 : s[j] = m[j]
    BY <1>5, <1>7, <2>1, <2>2, <2>3, PushedOn
  <2>5. \A j \in DOMAIN stack : j = n \/ j \in 1 .. n - 1
    BY <1>5, <1>6
  <2>6. SameFrames(s)
    <3>1. ASSUME NEW j \in DOMAIN stack
          PROVE  s[j] = stack[j] \/ (s[j].kind = "sweep" /\ stack[j].kind = "sweep")
      BY <1>6, <1>7, <2>2, <2>4, <2>5 DEF Kept
    <3>. QED
      BY <1>5, <2>4, <3>1 DEF SameFrames
  <2>7. obj[o].changes = 0 /\ Destroyed(o, s)
    BY <1>2, <1>4, <1>9, <2>1, <2>3 DEF ToRemove
  <2>. DEFINE f == [kind |-> "removal", of |-> o, cell |-> obj[o].cell]
  <2>8. /\ Types' /\ Nesting' /\ RemovalsApart' /\ CellsOwn' /\ ListsHold' /\ ListsAscend'
        /\ \A c \in Range(Block) : Cells(c) \ {obj[o].cell} \subseteq Cells(c)'
        /\ \A p \in Id : /\ obj'[p].class = obj[p].class /\ obj'[p].cell = obj[p].cell
                         /\ BeingRemoved(p)' <=> BeingRemoved(p) \/ p = o
        /\ stack' = Append(s, f) /\ nextCell' = nextCell
    BY <1>3, <2>6, <2>7, DestroyedKeeps
  <2>9. f.kind = "removal"
    OBVIOUS
  <2>. HIDE DEF f
  <2>10. /\ DOMAIN stack' = 1 .. n + 1 /\ stack'[n + 1] = f /\ stack'[n] = g
         /\ \A j \in 1 .. n - 1 : stack'[j] = m[j]
    <3>1. /\ DOMAIN stack' = 1 .. Len(s) + 1 /\ stack'[Len(s) + 1] = f
          /\ \A j \in 1 .. Len(s) : stack'[j] = s[j]
      BY <2>8
    <3>2. n \in 1 .. n /\ \A j \in 1 .. n - 1 : j \in 1 .. n
      BY <1>5
    <3>. QED
      BY <2>4, <3>1, <3>2
  <2>11. Sweeps' = Sweeps
    <3>1. ASSUME NEW j \in Sweeps
          PROVE  j \in Sweeps'
      <4>1. j \in DOMAIN stack /\ stack[j].kind = "sweep" /\ j \in DOMAIN stack'
        BY <1>5, <1>6, <2>10 DEF Sweeps
      <4>. QED
        BY <1>7, <2>2, <2>5, <2>10, <4>1 DEF Sweeps, Kept
    <3>2. ASSUME NEW j \in Sweeps'
          PROVE  j \in Sweeps
      <4>1. j # n + 1 /\ j \in 1 .. n + 1 /\ stack'[j].kind = "sweep"
        BY <2>9, <2>10 DEF Sweeps
      <4>2. j \in DOMAIN stack
        BY <1>5, <1>6, <4>1
      <4>. QED
        BY <1>6, <1>7, <2>2, <2>5, <2>10, <4>1, <4>2 DEF Sweeps, Kept
    <3>. QED
      BY <3>1, <3>2
  <2>12. SweepOK(n)'
    <3>1. \A j \in 1 .. n - 1 : Kept(stack[j], stack'[j])
      BY <2>2, <2>10
    <3>2. g.cursor = NULL \/ (g.cursor \in Cells(b) /\ g.cursor # obj[o].cell)
      <4>1. obj[o].cell \in Nat
        BY <1>3, <1>6 DEF Types, Record, Objects
      <4>. QED
        BY <1>3, <1>4, <1>8, <4>1
    <3>3. ASSUME NEW c, g.block <= Len(Block), c = Block[g.block]
          PROVE  g.cursor \in Cells(c)' \cup {Header(c), NULL}
      BY <1>4, <1>8, <2>8, <3>2, <3>3 DEF SweepList
    <3>4. ASSUME NEW p \in Objects, Ahead(Top, p), ~BeingRemoved(p)
          PROVE  BeingRemoved(p)' \/ Ahead(g, p)
      BY <1>4, <2>8, <3>4 DEF Objects
    <3>5. n \in DOMAIN stack' /\ stack'[n] = g
      BY <1>5, <2>10
    <3>. QED
      BY <1>3, <1>4, <1>5, <2>8, <3>1, <3>3, <3>4, <3>5, SweepMoved
  <2>13. ASSUME NEW i \in Sweeps, i # n
         PROVE  SweepOK(i)'
    <3>1. i \in 1 .. n - 1 /\ stack[i].kind = "sweep"
      BY <1>5, <1>6, <2>13 DEF Sweeps
    <3>2. i \in DOMAIN stack' /\ \A j \in 1 .. i : Kept(stack[j], stack'[j])
      BY <1>5, <2>2, <2>10, <3>1
    <3>3. ~stack'[i].lost => \A c \in Range(Block) :
             stack[i].cursor \in Cells(c) => stack[i].cursor \in Cells(c)'
      BY <2>2, <2>8, <2>10, <3>1
    <3>4. /\ nextCell' >= nextCell
          /\ \A p \in Objects' : obj'[p].cell \in 1 .. nextCell - 1 =>
               /\ p \in Objects /\ obj'[p].cell = obj[p].cell /\ obj'[p].class = obj[p].class
               /\ BeingRemoved(p) => BeingRemoved(p)'
      BY <1>6, <2>8 DEF Objects
    <3>. QED
      BY <1>6, <2>8, <3>2, <3>3, <3>4, SweepKept
  <2>. QED
    BY <2>8, <2>11, <2>12, <2>13 DEF Inv
<1>10. CASE ~ToRemove(o)
  <2>1. stack' = Append(Front(stack), g) /\ UNCHANGED <<obj, lists, nextCell>>
    BY <1>2, <1>4, <1>10
  <2>2. /\ stack' \in Seq(Frame) /\ Len(stack') = n /\ stack'[n] = g
        /\ \A j \in 1 .. n - 1 : stack'[j] = stack[j]
    BY <1>5, <1>7, <2>1, PushedOn
  <2>3. \A c : g.block <= Len(Block) /\ c = Block[g.block] =>
                  g.cursor \in Cells(c) \cup {Header(c), NULL}
    BY <1>3, <1>4 DEF SweepList
  <2>4. ASSUME NEW p \in Objects, Seeks(Top, obj[p].class), obj[p].cell \in Top.of,
               Ahead(Top, p), ~BeingRemoved(p)
        PROVE  Ahead(g, p)
    <3>1. p # o
      BY <1>6, <1>10, <2>4 DEF ToRemove
    <3>. QED
      BY <1>4, <2>4, <3>1
  <2>. QED
    BY <1>3, <1>4, <1>5, <2>1, <2>2, <2>3, <2>4, Moved
<1>. QED
  BY <1>9, <1>10

-----------------------------------------------------------------------------
LEMMA InitInv ==
  ASSUME Assumptions, Init
  PROVE  Inv
<1>1. /\ obj = [o \in Id |-> Dead] /\ lists = [b \in Range(Block) |-> <<>>]
      /\ nextCell = 1 /\ stack = <<>>
  BY DEF Init
<1>2. Dead \in Record /\ Dead.class \notin Class /\ Dead.changes = 0
  BY DEF Dead, NoClass, Record, NULL, Assumptions, ClassAssumption, Class
<1>3. Types
  BY <1>1, <1>2 DEF Types
<1>4. /\ Objects = {} /\ Sweeps = {} /\ DOMAIN stack = {}
      /\ \A o \in Id : FramesOn(o) = {}
      /\ \A b \in Range(Block) : lists[b] = <<>> /\ DOMAIN lists[b] = {}
  BY <1>1, <1>2 DEF Objects, Sweeps, FramesOn
<1>5. Nesting
  BY <1>1, <1>2, <1>4, FS_EmptySet DEF Nesting
<1>6. RemovalsApart /\ CellsOwn
  BY <1>4 DEF RemovalsApart, CellsOwn
<1>7. ListsHold /\ ListsAscend
  BY <1>4 DEF ListsHold, ListsAscend, Range
<1>. QED
  BY <1>3, <1>4, <1>5, <1>6, <1>7 DEF Inv

LEMMA NextInv ==
  ASSUME Inv, Assumptions, Next
  PROVE  Inv'
<1>1. CASE \E o \in Id, c \in Class : Create(o, c) \/ Specialize(o, c)
  BY <1>1, CreateInv, SpecializeInv
<1>2. CASE \E o \in Id : Change(o) \/ Destroy(o)
  BY <1>2, ChangeInv, DestroyInv
<1>3. CASE \E c \in Class \cup {NoClass} : StartSweep(c)
  BY <1>3, StartSweepInv
<1>4. CASE End \/ NextBlock \/ Visit \/ EndSweep
  BY <1>4, EndInv, NextBlockInv, VisitInv, EndSweepInv
<1>. QED
  BY <1>1, <1>2, <1>3, <1>4 DEF Next

LEMMA StutterInv ==
  ASSUME Inv, UNCHANGED vars
  PROVE  Inv'
<1>1. obj' = obj /\ lists' = lists /\ nextCell' = nextCell /\ stack' = stack
  BY DEF vars
<1>2. \A o \in Id : FramesOn(o)' = FramesOn(o) /\ (BeingRemoved(o)' <=> BeingRemoved(o))
  BY <1>1 DEF FramesOn, BeingRemoved
<1>3. Objects' = Objects
  BY <1>1 DEF Objects
<1>6. Types' /\ CellsOwn' /\ ListsAscend'
  BY <1>1, <1>3 DEF Inv, Types, CellsOwn, ListsAscend
<1>7. Nesting'
  BY <1>1, <1>2, <1>3 DEF Inv, Nesting
<1>8. RemovalsApart'
  BY <1>1, <1>2 DEF Inv, RemovalsApart
<1>9. ListsHold'
  BY <1>1, <1>2, <1>3 DEF Inv, ListsHold
<1>4. Sweeps' = Sweeps
  BY <1>1 DEF Sweeps
<1>5. ASSUME NEW i \in Sweeps
      PROVE  SweepOK(i)'
  BY <1>1, <1>5 DEF Inv, SweepOK, PlaceLive, Seeks, BeingRemoved, Ahead, Cells, Objects
<1>. QED
  BY <1>4, <1>5, <1>6, <1>7, <1>8, <1>9 DEF Inv

LEMMA Invariance ==
  ASSUME Assumptions
  PROVE  Spec => []Inv
<1>1. Init => Inv
  BY InitInv
<1>2. Inv /\ [Next]_vars => Inv'
  BY NextInv, StutterInv
<1>. QED
  BY <1>1, <1>2, PTL DEF Spec

\* A sweep that ends has left none of what it was asked to remove.
LEMMA SweepEnds ==
  ASSUME Assumptions, Inv, [Next]_vars, NEW i \in Sweeps, i > Len(stack'), ~stack[i].lost
  PROVE  ~\E o \in Objects : /\ Seeks(stack[i], obj[o].class)
                             /\ obj[o].cell \in stack[i].of
<1>1. i \in DOMAIN stack /\ Len(stack) \in Nat /\ DOMAIN stack = 1 .. Len(stack)
      /\ stack[i].kind = "sweep" /\ stack # <<>> /\ stack \in Seq(Frame)
  BY DEF Inv, Types, Sweeps
<1>2. CASE EndSweep
  <2>1. Top.kind = "sweep" /\ Top.block > Len(Block) /\ stack # <<>>
    BY <1>2 DEF EndSweep
  <2>0. i = Len(stack)
    BY <1>1, <1>2, FrontOf DEF EndSweep
  <2>2. /\ i = Len(stack) /\ SweepOK(i) /\ Top = stack[i] /\ Top \in SweepFrame
        /\ \A o \in Objects : obj[o].cell \in stack[i].of => ~BeingRemoved(o)
    BY <2>0, <2>1, TopSweep
  <2>3. ASSUME NEW o \in Objects, Seeks(stack[i], obj[o].class), obj[o].cell \in stack[i].of
        PROVE  FALSE
    <3>1. Ahead(stack[i], o)
      BY <2>2, <2>3 DEF SweepOK
    <3>2. Place(Block, ClassBlock[obj[o].class]) \in 1 .. Len(Block) /\ Len(Block) \in Nat
      <4>1. ClassBlock[obj[o].class] \in Range(Block)
        BY DEF Assumptions, ClassAssumption, Class, Objects
      <4>. QED
        BY <4>1, Blocks DEF Assumptions
    <3>3. stack[i].block \in Nat /\ stack[i].block > Len(Block)
      BY <2>1, <2>2, <3>2 DEF SweepFrame
    <3>4. /\ ~(stack[i].block < Place(Block, ClassBlock[obj[o].class]))
          /\ stack[i].block # Place(Block, ClassBlock[obj[o].class])
      BY <3>2, <3>3
    <3>. QED
      BY <3>1, <3>4 DEF Ahead
  <2>. QED
    BY <2>3
<1>3. CASE End
  <2>1. Len(stack') = Len(stack) - 1 /\ Top = stack[Len(stack)] /\ Top.kind # "sweep"
    BY <1>1, <1>3, FrontOf DEF End, Top
  <2>2. i = Len(stack)
    BY <1>1, <2>1
  <2>. QED
    BY <1>1, <2>1, <2>2
<1>4. CASE ~EndSweep /\ ~End
  <2>1. Len(stack') >= Len(stack)
    <3>1. CASE UNCHANGED vars
      BY <1>1, <3>1 DEF vars
    <3>2. CASE \E o \in Id, c \in Class : Create(o, c) \/ Specialize(o, c)
      BY <1>1, <3>2, MarkedKeeps DEF Create, Specialize
    <3>3. CASE \E o \in Id : Change(o) \/ Destroy(o)
      <4>1. \E m \in Seq(Frame) : \E f : Len(m) = Len(stack) /\ stack' = Append(m, f)
        BY <1>1, <3>3, MarkedKeeps DEF Change, Destroy, Destroyed, Push
      <4>. QED
        BY <1>1, <4>1
    <3>4. CASE \E c \in Class \cup {NoClass} : StartSweep(c)
      BY <1>1, <3>4 DEF StartSweep, Push
    <3>5. CASE NextBlock
      BY <1>1, <3>5 DEF NextBlock
    <3>6. CASE Visit
      <4>1. PICK o : o = ListFirst(SweepList, Top.cursor)
        OBVIOUS
      <4>2. Advance(o) \in Frame
        BY <3>6, <4>1, Visited DEF Frame
      <4>3. /\ Front(stack) \in Seq(Frame) /\ Len(Front(stack)) = Len(stack) - 1
            /\ Marked(Front(stack), o) \in Seq(Frame)
            /\ Len(Marked(Front(stack), o)) = Len(stack) - 1
        BY <1>1, FrontOf, MarkedKeeps
      <4>4. \E m \in Seq(Frame) :
              /\ Len(m) = Len(stack) - 1
              /\ \/ stack' = Append(m, Advance(o))
                 \/ \E f : stack' = Append(Append(m, Advance(o)), f)
        BY <3>6, <4>1, <4>3 DEF Visit, Destroyed
      <4>5. \A m \in Seq(Frame) : /\ Append(m, Advance(o)) \in Seq(Frame)
                                  /\ Len(Append(m, Advance(o))) = Len(m) + 1
        BY <4>2
      <4>. QED
        BY <1>1, <4>4, <4>5
    <3>. QED
      BY <1>4, <3>1, <3>2, <3>3, <3>4, <3>5, <3>6 DEF Next
  <2>. QED
    BY <1>1, <2>1
<1>. QED
  BY <1>2, <1>3, <1>4

\* While methods create, change, specialize and remove objects and sweep the lists
\* themselves, the place a sweep keeps is a cell of its list, the header, or the
\* end, unless one of them takes the object at that place from its list: what
\* rul__wm_destroy_and_notify_all fetched before a removal is freed by nothing else.
THEOREM PlacesLive ==
  ASSUME Assumptions
  PROVE  Spec => []CursorsLiveUnlessTaken
<1>1. Inv => CursorsLiveUnlessTaken
  BY DEF Inv, CursorsLiveUnlessTaken, SweepOK
<1>. QED
  BY <1>1, Invariance, PTL

\* A sweep that has not lost its place removes every object of its class, or every
\* object, that it found under no change when it started, in whatever blocks of
\* declarations they are listed, and however sweeps are nested.
THEOREM SweepsFinish ==
  ASSUME Assumptions
  PROVE  Spec => SweepsComplete
<1>1. Inv /\ [Next]_vars =>
        [\A i \in Sweeps :
           i > Len(stack') /\ ~stack[i].lost =>
             ~\E o \in Objects : /\ Seeks(stack[i], obj[o].class)
                                 /\ obj[o].cell \in stack[i].of]_vars
  BY SweepEnds
<1>. QED
  BY <1>1, Invariance, PTL DEF SweepsComplete, Spec
=============================================================================
