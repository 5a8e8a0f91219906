----------------------------- MODULE Inheritance -----------------------------
(***************************************************************************)
(* The encoding of a class hierarchy that makes the subclass test a masked *)
(* comparison (decl_inh.c), on the class tree that decl_cls.c builds.      *)
(*                                                                         *)
(* The classes of a declaration block are declared one by one; the         *)
(* hierarchy is then encoded once, when the block is complete; and the     *)
(* code that the compiler generates gives the patterns and the lengths of  *)
(* the masks to the same routines again at run time.                       *)
(*                                                                         *)
(* A longword is the set of the bits that are 1 in it, bit 0 the lowest.   *)
(***************************************************************************)
EXTENDS Integers, Sequences, FiniteSetsExt, SequencesExt

CONSTANTS
    ClassName,      \* the names of the classes below $ROOT
    Root,           \* $ROOT
    BitsPerLong     \* the width of a longword

RootAssumption == Root \notin ClassName
WidthAssumption == BitsPerLong \in Nat \ {0, 1}

VARIABLES
    parent,     \* the class above each declared class; $ROOT is its own
    children,   \* the list of the direct subclasses of each class
    overshift,  \* what this build makes of a shift by the width of a longword
    phase,      \* "declare", "encode" or "run"
    encoding,   \* the encodings of the compiler
    loaded      \* the encodings of the generated program

vars == <<parent, children, overshift, phase, encoding, loaded>>

Declared == DOMAIN parent
Bit == 0 .. BitsPerLong - 1

-----------------------------------------------------------------------------
(* decl_cls.c *)

\* The new class becomes the first child of its parent.
SetCurClassParent(c, p) ==
    /\ parent' = [d \in Declared \cup {c} |-> IF d = c THEN p ELSE parent[d]]
    /\ children' = [d \in Declared \cup {c} |->
                      IF d = c THEN <<>> ELSE IF d = p THEN <<c>> \o children[d]
                                              ELSE children[d]]

CreateClass(c, p) ==
    /\ phase = "declare" /\ c \notin Declared /\ p \in Declared
    /\ SetCurClassParent(c, p)
    /\ UNCHANGED <<overshift, phase, encoding, loaded>>

LineageOf[c \in Declared] ==
    IF c = Root THEN <<Root>> ELSE Append(LineageOf[parent[c]], c)

Depth(c) == Len(LineageOf[c]) - 1
ClassAncestor(c) == LineageOf[c][2]

-----------------------------------------------------------------------------
(* decl_inh.c: words *)

\* The places of the digits 1 of a number, of which a longword has those in Bit.
Digits[n \in Nat] ==
    IF n = 0 THEN {}
    ELSE (IF n % 2 = 1 THEN {0} ELSE {}) \cup {b + 1 : b \in Digits[n \div 2]}

BitsOf(n) == Digits[n] \cap Bit

\* A shift by the width of the word is undefined: a processor may leave the
\* word alone, and a compiler that folds it may produce 0.
ShiftLeft(w, s) ==
    IF s < BitsPerLong THEN {b + s : b \in w} \cap Bit
    ELSE IF overshift = "kept" THEN w ELSE {}

SimpleMask(count) == 0 .. count - 1
ShiftRight(w, s) == {b - s : b \in w \ SimpleMask(s)}

\* How often a number can be halved until nothing is left of it.
Shifts[n \in Nat] == IF n = 0 THEN 0 ELSE 1 + Shifts[n \div 2]

\* The number of bits needed to tell `value' different things apart.
Ilog2(value) == IF value = 1 THEN 1 ELSE Shifts[value - 1]

\* The number of a sibling is a longword.
CountAssumption ==
    IsFiniteSet(ClassName) /\ Ilog2(1 + Cardinality(ClassName)) <= BitsPerLong

-----------------------------------------------------------------------------
(* decl_inh.c: the encoding *)

Levels == {Depth(c) : c \in Declared}

\* Steps 1 and 2 of rul__decl_encode_inheritance; $ROOT has no sibling.
MaxSiblings(level) ==
    IF level = 0 THEN 1
    ELSE Max({Len(children[c]) : c \in {d \in Declared : Depth(d) = level - 1}})

LocalBits(level) == Ilog2(1 + MaxSiblings(level))

InhBits(level) ==
    LET S[l \in 0 .. level] == IF l = 0 THEN 0 ELSE S[l - 1] + LocalBits(l - 1)
    IN  S[level]

TotalBits == InhBits(Max(Levels) + 1)
CodeSize == 1 + TotalBits \div BitsPerLong
Words == 0 .. CodeSize - 1

EmptyEncoding ==
    [length |-> 0, mask |-> [i \in Words |-> {}], pattern |-> [i \in Words |-> {}]]

\* Mutant: the piece in the next longword is not moved to its top.
AppendCrossingLow(e, sib, inh, local) ==
    LET index == inh \div BitsPerLong
        low == (inh + local) % BitsPerLong
    IN  [e EXCEPT !.pattern[index] = @ \cup ShiftRight(BitsOf(sib), low),
                  !.mask[index] = SimpleMask(BitsPerLong),
                  !.pattern[index + 1] = BitsOf(sib),
                  !.mask[index + 1] = SimpleMask(low)]

\* The number of the sibling crosses a longword boundary: the high order piece
\* goes to the end of one longword, the low order piece to the top of the next.
AppendCrossing(e, sib, inh, local) ==
    LET index == inh \div BitsPerLong
        low == (inh + local) % BitsPerLong
        shift == BitsPerLong - low
    IN  [e EXCEPT !.pattern[index] = @ \cup ShiftRight(BitsOf(sib), low),
                  !.mask[index] = SimpleMask(BitsPerLong),
                  !.pattern[index + 1] = ShiftLeft(BitsOf(sib), shift),
                  !.mask[index + 1] = ShiftLeft(SimpleMask(low), shift)]

AppendWithin(e, sib, inh, local) ==
    LET index == inh \div BitsPerLong
        shift == BitsPerLong * (1 + index) - inh - local
    IN  [e EXCEPT !.pattern[index] = @ \cup ShiftLeft(BitsOf(sib), shift),
                  !.mask[index] = @ \cup ShiftLeft(SimpleMask(local), shift)]

AppendToClassEncoding(e, sib, inh, local) ==
    LET new == IF inh \div BitsPerLong = (inh + local) \div BitsPerLong
               THEN AppendWithin(e, sib, inh, local)
               ELSE AppendCrossing(e, sib, inh, local)
    IN  [new EXCEPT !.length = @ + local]

\* The walk numbers the children of a class from 1, in the order of its list.
SiblingNumber(c) ==
    IF c = Root THEN 1 ELSE SelectInSeq(children[parent[c]], LAMBDA d : d = c)

GenerateInhPatterns ==
    LET E[c \in Declared] ==
          AppendToClassEncoding(IF c = Root THEN EmptyEncoding ELSE E[parent[c]],
                                SiblingNumber(c), InhBits(Depth(c)),
                                LocalBits(Depth(c)))
    IN  E

EncodeInheritance ==
    /\ phase = "declare"
    /\ phase' = "encode"
    /\ encoding' = GenerateInhPatterns
    /\ UNCHANGED <<parent, children, overshift, loaded>>

\* The masked comparison; a class is always a subclass of itself.
IsSubclassIn(table, c, d) ==
    \/ c = d
    \/ \A i \in Words : table[d].pattern[i] = table[c].pattern[i] \cap table[d].mask[i]

-----------------------------------------------------------------------------
(* decl_inh.c: the generated program *)

TopBits(count) == BitsPerLong - count .. BitsPerLong - 1

\* Mutant: the last longword is taken to be full.
SetInhMaskLengthFull(length) ==
    [i \in Words |-> IF length - i * BitsPerLong > 0 THEN Bit ELSE {}]

\* Only the length of a mask is generated: its bits are made again.
SetInhMaskLength(length) ==
    [i \in Words |->
        LET left == length - i * BitsPerLong
        IN  IF left >= BitsPerLong THEN SimpleMask(BitsPerLong)
            ELSE IF left <= 0 THEN {} ELSE TopBits(left)]

SetRootInhEncoding ==
    [length |-> 1, mask |-> SetInhMaskLength(1),
     pattern |-> [i \in Words |-> IF i = 0 THEN {BitsPerLong - 1} ELSE {}]]

LoadedClass(c) ==
    IF c = Root THEN SetRootInhEncoding
    ELSE [encoding[c] EXCEPT !.mask = SetInhMaskLength(encoding[c].length)]

LoadClasses ==
    /\ phase = "encode"
    /\ phase' = "run"
    /\ loaded' = [c \in Declared |-> LoadedClass(c)]
    /\ UNCHANGED <<parent, children, overshift, encoding>>

-----------------------------------------------------------------------------
Init ==
    /\ parent = [c \in {Root} |-> Root]
    /\ children = [c \in {Root} |-> <<>>]
    /\ overshift \in {"kept", "zero"}
    /\ phase = "declare"
    /\ encoding = <<>>
    /\ loaded = <<>>

Next ==
    \/ \E c \in ClassName, p \in Declared : CreateClass(c, p)
    \/ EncodeInheritance
    \/ LoadClasses

Spec == Init /\ [][Next]_vars

-----------------------------------------------------------------------------
(* decl_cls.c again: the tests of the compiler at work *)

\* Mutant: the search starts above the class of the smaller depth.
LowestCommonClassAbove(c, d) ==
    LET upper == IF Depth(c) > Depth(d) THEN d ELSE c
        other == IF Depth(c) > Depth(d) THEN c ELSE d
        top == ClassAncestor(c)
        found == {a \in ToSet(LineageOf[upper]) \ {Root, top, upper} :
                    IsSubclassIn(encoding, other, a)}
    IN  IF top # ClassAncestor(d) THEN Root
        ELSE IF found = {} THEN top
        ELSE CHOOSE a \in found : \A b \in found : Depth(b) <= Depth(a)

LowestCommonClass(c, d) ==
    LET upper == IF Depth(c) > Depth(d) THEN d ELSE c
        other == IF Depth(c) > Depth(d) THEN c ELSE d
        top == ClassAncestor(c)
        found == {a \in ToSet(LineageOf[upper]) \ {Root, top} :
                    IsSubclassIn(encoding, other, a)}
    IN  IF top # ClassAncestor(d) THEN Root
        ELSE IF found = {} THEN top
        ELSE CHOOSE a \in found : \A b \in found : Depth(b) <= Depth(a)

-----------------------------------------------------------------------------
Descends(c, d) == d \in ToSet(LineageOf[c])

\* What the hierarchy must not do for the encoding to be right.
EndsOnBoundary == \E l \in Levels : InhBits(l + 1) % BitsPerLong = 0

\* A class tests as a subclass of another exactly when it descends from it, in
\* every hierarchy, those whose codes cross longwords included, unless a level
\* ends exactly at the end of a longword (rul__decl_is_subclass_of).
SubclassUnlessBoundary ==
    (phase # "declare" /\ ~EndsOnBoundary) =>
        \A c, d \in Declared : IsSubclassIn(encoding, c, d) <=> Descends(c, d)

\* The same without the exception: decl_inh.c says of rul__decl_is_subclass_of
\* "Return TRUE iff the instance class is a descendent of the specified parent
\* class".
SubclassExact ==
    phase # "declare" =>
        \A c, d \in Declared : IsSubclassIn(encoding, c, d) <=> Descends(c, d)

\* The generated program answers every subclass test as the compiler did: the
\* masks that are made again from their lengths, and the encoding of $ROOT that
\* is not generated at all, fit the patterns (rul__decl_set_inh_mask_length).
LoadedAgrees ==
    phase = "run" => \A c, d \in Declared :
        IsSubclassIn(loaded, c, d) <=> IsSubclassIn(encoding, c, d)

\* The lowest common class of two classes of one family is the deepest class
\* that both descend from (rul__decl_lowest_common_class).
LowestCommonExact ==
    (phase # "declare" /\ ~EndsOnBoundary) =>
        \A c, d \in Declared \ {Root} :
            LET l == LowestCommonClass(c, d)
            IN  /\ Descends(c, l) /\ Descends(d, l)
                /\ \A a \in Declared :
                     Descends(c, a) /\ Descends(d, a) => Descends(l, a)
=============================================================================
