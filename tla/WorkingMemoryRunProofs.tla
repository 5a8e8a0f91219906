------------------------ MODULE WorkingMemoryRunProofs ------------------------
(***************************************************************************)
(* What is proved of two parts of MCWorkingMemory.  The sweeps are an      *)
(* instance of what WmSweepProofs proves, for any nesting of methods,      *)
(* removals and sweeps.  Of the calls, the invariant is CallOK: the        *)
(* form of the state, what the buffer and the history have in common, and, *)
(* as long as no risk was taken, Sound: the count of each molecule is at   *)
(* least the number of its users, the elements of compounds counted in.    *)
(* A call is followed use by use: each lemma takes or gives up the use of  *)
(* one user, some of which last for the time of the call only.             *)
(***************************************************************************)
EXTENDS MCWorkingMemory, SequenceFacts, FiniteSetTheorems, TLAPS

General == INSTANCE WmSweepProofs WITH
  Id <- SweepId, Block <- <<b1, b2>>,
  ClassBlock <- [a |-> b1, b |-> b2, c |-> b2],
  Inherits <- {<<"b", "a">>, <<"c", "b">>, <<"c", "a">>},
  MaxCell <- 4, MaxDepth <- 3,
  obj <- objects, lists <- wmoLists, stack <- suspended

\* The two instances of the sweep are one.
LEMMA SweepSteps ==
  /\ Sweep!Init <=> General!Init
  /\ Sweep!Next <=> General!Next
  /\ Sweep!BlockAssumption /\ Sweep!ClassAssumption <=>
       General!BlockAssumption /\ General!ClassAssumption
<1>1. Sweep!Init <=> General!Init
  BY DEF Sweep!Init, General!Init, Sweep!Dead, General!Dead, Sweep!NULL,
         General!NULL, Sweep!NoClass, General!NoClass, Sweep!Range, General!Range
<1>2. Sweep!Next <=> General!Next
  BY DEF Sweep!Next, General!Next, Sweep!Create, General!Create,
         Sweep!Specialize, General!Specialize, Sweep!Change, General!Change,
         Sweep!Destroy, General!Destroy, Sweep!StartSweep, General!StartSweep,
         Sweep!End, General!End, Sweep!NextBlock, General!NextBlock,
         Sweep!Visit, General!Visit, Sweep!EndSweep, General!EndSweep,
         Sweep!Destroyed, General!Destroyed, Sweep!Marked,
         General!Marked, Sweep!Seeks, General!Seeks, Sweep!NoClass,
         General!NoClass, Sweep!Acting,
         General!Acting, Sweep!Top, General!Top, Sweep!Push, General!Push,
         Sweep!Objects, General!Objects, Sweep!Dead, General!Dead,
         Sweep!Cells, General!Cells, Sweep!Header, General!Header,
         Sweep!Place, General!Place, Sweep!AddLast, General!AddLast,
         Sweep!Unlisted, General!Unlisted, Sweep!ListFirst, General!ListFirst,
         Sweep!ListNext, General!ListNext, Sweep!Sweeping, General!Sweeping,
         Sweep!SweepList, General!SweepList, Sweep!Advance, General!Advance,
         Sweep!ToRemove, General!ToRemove, Sweep!NULL, General!NULL,
         Sweep!Class, General!Class, Sweep!Range, General!Range, Sweep!Front,
         General!Front, Sweep!Last, General!Last, Sweep!RemoveAt,
         General!RemoveAt
<1>3. Sweep!BlockAssumption /\ Sweep!ClassAssumption <=>
       General!BlockAssumption /\ General!ClassAssumption
  BY DEF Sweep!BlockAssumption, General!BlockAssumption, Sweep!ClassAssumption,
         General!ClassAssumption, Sweep!Range, General!Range,
         Sweep!IsInjective, General!IsInjective
<1>. QED
  BY <1>1, <1>2, <1>3

LEMMA PartSteps ==
  ASSUME [Changes \/ Sweeps \/ Calls]_mcVars
  PROVE  [General!Next]_(General!vars)
<1>1. CASE Sweeps
  BY <1>1, SweepSteps DEF Sweeps
<1>2. CASE Changes \/ Calls \/ UNCHANGED mcVars
  BY <1>2 DEF Changes, Calls, mcVars, sweepVars, General!vars
<1>. QED
  BY <1>1, <1>2

LEMMA SweepInvariant == MCSpec => []General!Inv
<1>1. General!Assumptions
  BY SweepAssumption, SweepSteps DEF General!Assumptions
<1>2. MCInit => General!Inv
  BY <1>1, SweepSteps, General!InitInv DEF MCInit
<1>3. General!Inv /\ [Changes \/ Sweeps \/ Calls]_mcVars => General!Inv'
  BY <1>1, PartSteps, General!NextInv, General!StutterInv
<1>. QED
  BY <1>2, <1>3, PTL DEF MCSpec

\* Of the run of sweeps: the list entry that rul__wm_destroy_and_notify_all
\* fetched before a removal is still there when the method of the removed object
\* has returned, unless that method, or what it called, took the fetched object
\* from its list.
THEOREM SweepPlacesLive == MCSpec => []CursorsLiveUnlessTaken
<1>1. General!Inv => CursorsLiveUnlessTaken
  BY DEF General!Inv, General!SweepOK, General!Sweeps, General!PlaceLive, General!Cells,
         General!Header, General!Place, General!NULL, CursorsLiveUnlessTaken,
         Sweep!CursorsLiveUnlessTaken, Sweep!Sweeps, Sweep!PlaceLive, Sweep!Cells,
         Sweep!Header, Sweep!Place, Sweep!NULL
<1>. QED
  BY <1>1, SweepInvariant, PTL

\* And a sweep that has not lost its place so has, when it returns, removed all it
\* was asked to remove.
THEOREM SweepsAllFinish == MCSpec => SweepsComplete
<1>1. General!Assumptions
  BY SweepAssumption, SweepSteps DEF General!Assumptions
<1>2. ASSUME General!Inv, [Changes \/ Sweeps \/ Calls]_mcVars,
             NEW i \in Sweep!Sweeps, i > Len(suspended'), ~suspended[i].lost
      PROVE  ~\E o \in Sweep!Objects : /\ Sweep!Seeks(suspended[i], objects[o].class)
                                       /\ objects[o].cell \in suspended[i].of
  <2>1. i \in General!Sweeps /\ Sweep!Objects = General!Objects
    BY DEF Sweep!Sweeps, General!Sweeps, Sweep!Objects, General!Objects,
           Sweep!Class, General!Class
  <2>2. \A c : Sweep!Seeks(suspended[i], c) <=> General!Seeks(suspended[i], c)
    BY DEF Sweep!Seeks, General!Seeks, Sweep!NoClass, General!NoClass
  <2>. QED
    BY <1>1, <1>2, <2>1, <2>2, PartSteps, General!SweepEnds
<1>3. General!Inv /\ [Changes \/ Sweeps \/ Calls]_mcVars =>
        [\A i \in Sweep!Sweeps :
           i > Len(suspended') /\ ~suspended[i].lost =>
             ~\E o \in Sweep!Objects : /\ Sweep!Seeks(suspended[i], objects[o].class)
                                       /\ objects[o].cell \in suspended[i].of]_(Sweep!vars)
  BY <1>2
<1>. QED
  BY <1>3, SweepInvariant, PTL DEF MCSpec, SweepsComplete, Sweep!SweepsComplete

-----------------------------------------------------------------------------
(* The calls of a C program: the table of molecules.                       *)

Table == [count : [Uses!Molecule -> 0 .. Uses!Permanent], freedUsed : BOOLEAN]

LEMMA Constants ==
  /\ Nil \in Atom /\ Atom \subseteq Uses!Molecule /\ Uses!Compound \subseteq Uses!Molecule
  /\ \A m \in Atom : m \notin Uses!Compound
  /\ Uses!Permanent \in Nat /\ Uses!Permanent > 1
  /\ << >> \in Uses!Compound /\ MaxElements \in Nat
  /\ Absent \notin Uses!Values /\ NoValue \notin Uses!Molecule /\ NoId \notin Id
<1>1. << >> \in [1 .. 0 -> Atom] /\ 0 \in 0 .. MaxElements
  BY CallInAssumption DEF Uses!MoleculesAssumption
<1>. QED
  BY <1>1, CallInAssumption
     DEF Uses!MoleculesAssumption, Uses!CallInAssumption, Uses!Molecule, Uses!Compound,
         Uses!Permanent

LEMMA CompoundIs ==
  ASSUME NEW c
  PROVE  c \in Uses!Compound <=> c \in Seq(Atom) /\ Len(c) <= MaxElements
<1>1. ASSUME c \in Uses!Compound PROVE c \in Seq(Atom) /\ Len(c) <= MaxElements
  <2>1. PICK n \in 0 .. MaxElements : c \in [1 .. n -> Atom]
    BY <1>1 DEF Uses!Compound
  <2>2. n \in Nat
    OBVIOUS
  <2>. QED
    BY <2>1, <2>2, IntervalSeq
<1>2. ASSUME c \in Seq(Atom), Len(c) <= MaxElements PROVE c \in Uses!Compound
  <2>1. Len(c) \in 0 .. MaxElements /\ c \in [1 .. Len(c) -> Atom]
    BY <1>2, Constants
  <2>. QED
    BY <2>1 DEF Uses!Compound
<1>. QED
  BY <1>1, <1>2

LEMMA IncrIs ==
  ASSUME NEW t \in Table, NEW m \in Uses!Molecule
  PROVE  /\ Uses!IncrUses(t, m) \in Table
         /\ t.count[m] # 0 => Uses!IncrUses(t, m).freedUsed = t.freedUsed
         /\ \A x \in Uses!Molecule :
              Uses!IncrUses(t, m).count[x] =
                IF x = m /\ t.count[m] \notin {0, Uses!Permanent} THEN t.count[m] + 1
                ELSE t.count[x]
<1>1. t.count \in [Uses!Molecule -> 0 .. Uses!Permanent] /\ t.freedUsed \in BOOLEAN
  BY DEF Table
<1>2. Uses!Permanent \in Nat /\ Uses!Permanent > 1
  BY Constants
<1>3. CASE t.count[m] = Uses!Permanent
  BY <1>1, <1>2, <1>3 DEF Uses!IncrUses, Table
<1>4. CASE t.count[m] = 0
  <2>1. Uses!IncrUses(t, m) = [t EXCEPT !.freedUsed = TRUE]
    BY <1>2, <1>4 DEF Uses!IncrUses
  <2>. QED
    BY <1>1, <1>2, <1>4, <2>1 DEF Table
<1>5. CASE t.count[m] \notin {0, Uses!Permanent}
  <2>1. Uses!IncrUses(t, m) = [t EXCEPT !.count[m] = @ + 1]
    BY <1>5 DEF Uses!IncrUses
  <2>2. t.count[m] + 1 \in 0 .. Uses!Permanent
    BY <1>1, <1>2, <1>5
  <2>. QED
    BY <1>1, <1>5, <2>1, <2>2 DEF Table
<1>. QED
  BY <1>3, <1>4, <1>5

LEMMA DecrIs ==
  ASSUME NEW t \in Table, NEW m \in Uses!Molecule
  PROVE  /\ Uses!DecrOne(t, m) \in Table
         /\ t.count[m] # 0 => Uses!DecrOne(t, m).freedUsed = t.freedUsed
         /\ \A x \in Uses!Molecule :
              Uses!DecrOne(t, m).count[x] =
                IF x = m /\ t.count[m] \notin {0, Uses!Permanent} THEN t.count[m] - 1
                ELSE t.count[x]
<1>1. t.count \in [Uses!Molecule -> 0 .. Uses!Permanent] /\ t.freedUsed \in BOOLEAN
  BY DEF Table
<1>2. Uses!Permanent \in Nat /\ Uses!Permanent > 1
  BY Constants
<1>3. CASE t.count[m] = Uses!Permanent
  BY <1>1, <1>2, <1>3 DEF Uses!DecrOne, Table
<1>4. CASE t.count[m] = 0
  <2>1. Uses!DecrOne(t, m) = [t EXCEPT !.freedUsed = TRUE]
    BY <1>2, <1>4 DEF Uses!DecrOne
  <2>. QED
    BY <1>1, <1>2, <1>4, <2>1 DEF Table
<1>5. CASE t.count[m] \notin {0, Uses!Permanent}
  <2>1. Uses!DecrOne(t, m) = [t EXCEPT !.count[m] = @ - 1]
    BY <1>5 DEF Uses!DecrOne
  <2>2. t.count[m] - 1 \in 0 .. Uses!Permanent
    BY <1>1, <1>2, <1>5
  <2>. QED
    BY <1>1, <1>5, <2>1, <2>2 DEF Table
<1>. QED
  BY <1>3, <1>4, <1>5

-----------------------------------------------------------------------------
(* The loops over molecules: what each does, by name.                      *)

Op(kind, t, m) == CASE kind = "incr" -> Uses!IncrUses(t, m)
                    [] kind = "decr" -> Uses!DecrOne(t, m)
                    [] kind = "make" -> Uses!MakeMolecule(t, m)
                    [] OTHER -> Uses!DecrUses(t, m)
Loop(kind, b, s, f) ==
  f = [t \in SUBSET (DOMAIN s) |->
         IF t = {} THEN b ELSE Op(kind, f[t \ {Max(t)}], s[Max(t)])]
Fold(kind, b, s) == (CHOOSE f : Loop(kind, b, s, f))[DOMAIN s]

LEMMA FoldsAre ==
  ASSUME NEW s, NEW b
  PROVE  /\ Uses!FoldLeft(Uses!IncrUses, b, s) = Fold("incr", b, s)
         /\ Uses!FoldLeft(Uses!DecrOne, b, s) = Fold("decr", b, s)
         /\ Uses!FoldLeft(Uses!MakeMolecule, b, s) = Fold("make", b, s)
         /\ Uses!FoldLeft(Uses!DecrUses, b, s) = Fold("give up", b, s)
<1>1. \A t : Uses!Max(t) = Max(t)
  BY DEF Uses!Max, Max
<1>2. \A t, m : /\ Op("incr", t, m) = Uses!IncrUses(t, m)
                /\ Op("decr", t, m) = Uses!DecrOne(t, m)
                /\ Op("make", t, m) = Uses!MakeMolecule(t, m)
                /\ Op("give up", t, m) = Uses!DecrUses(t, m)
  BY DEF Op
<1>3. Uses!FoldLeft(Uses!IncrUses, b, s) = Fold("incr", b, s)
  <2>. DEFINE P(f) == f = [t \in SUBSET (DOMAIN s) |-> IF t = {} THEN b
                             ELSE Uses!IncrUses(f[t \ {Max(t)}], s[Max(t)])]
  <2>1. Uses!FoldLeft(Uses!IncrUses, b, s) = (CHOOSE f : P(f))[DOMAIN s]
    BY <1>1 DEF Uses!FoldLeft, Uses!MapThenFoldSet
  <2>2. \A f : P(f) <=> Loop("incr", b, s, f)
    BY <1>2 DEF Loop
  <2>3. (CHOOSE f : P(f)) = (CHOOSE f : Loop("incr", b, s, f))
    <3>. HIDE DEF P
    <3>. QED
      BY <2>2
  <2>. QED
    BY <2>1, <2>3 DEF Fold
<1>4. Uses!FoldLeft(Uses!DecrOne, b, s) = Fold("decr", b, s)
  <2>. DEFINE P(f) == f = [t \in SUBSET (DOMAIN s) |-> IF t = {} THEN b
                             ELSE Uses!DecrOne(f[t \ {Max(t)}], s[Max(t)])]
  <2>1. Uses!FoldLeft(Uses!DecrOne, b, s) = (CHOOSE f : P(f))[DOMAIN s]
    BY <1>1 DEF Uses!FoldLeft, Uses!MapThenFoldSet
  <2>2. \A f : P(f) <=> Loop("decr", b, s, f)
    BY <1>2 DEF Loop
  <2>3. (CHOOSE f : P(f)) = (CHOOSE f : Loop("decr", b, s, f))
    <3>. HIDE DEF P
    <3>. QED
      BY <2>2
  <2>. QED
    BY <2>1, <2>3 DEF Fold
<1>5. Uses!FoldLeft(Uses!MakeMolecule, b, s) = Fold("make", b, s)
  <2>. DEFINE P(f) == f = [t \in SUBSET (DOMAIN s) |-> IF t = {} THEN b
                             ELSE Uses!MakeMolecule(f[t \ {Max(t)}], s[Max(t)])]
  <2>1. Uses!FoldLeft(Uses!MakeMolecule, b, s) = (CHOOSE f : P(f))[DOMAIN s]
    BY <1>1 DEF Uses!FoldLeft, Uses!MapThenFoldSet
  <2>2. \A f : P(f) <=> Loop("make", b, s, f)
    BY <1>2 DEF Loop
  <2>3. (CHOOSE f : P(f)) = (CHOOSE f : Loop("make", b, s, f))
    <3>. HIDE DEF P
    <3>. QED
      BY <2>2
  <2>. QED
    BY <2>1, <2>3 DEF Fold
<1>6. Uses!FoldLeft(Uses!DecrUses, b, s) = Fold("give up", b, s)
  <2>. DEFINE P(f) == f = [t \in SUBSET (DOMAIN s) |-> IF t = {} THEN b
                             ELSE Uses!DecrUses(f[t \ {Max(t)}], s[Max(t)])]
  <2>1. Uses!FoldLeft(Uses!DecrUses, b, s) = (CHOOSE f : P(f))[DOMAIN s]
    BY <1>1 DEF Uses!FoldLeft, Uses!MapThenFoldSet
  <2>2. \A f : P(f) <=> Loop("give up", b, s, f)
    BY <1>2 DEF Loop
  <2>3. (CHOOSE f : P(f)) = (CHOOSE f : Loop("give up", b, s, f))
    <3>. HIDE DEF P
    <3>. QED
      BY <2>2
  <2>. QED
    BY <2>1, <2>3 DEF Fold
<1>. QED
  BY <1>3, <1>4, <1>5, <1>6

\* A loop over no molecules.
LEMMA FoldNone ==
  ASSUME NEW kind, NEW b PROVE Fold(kind, b, << >>) = b
<1>. DEFINE f0 == [t \in SUBSET (DOMAIN << >>) |-> b]
            f1 == CHOOSE f : Loop(kind, b, << >>, f)
<1>1. DOMAIN << >> = {} /\ {} \in SUBSET (DOMAIN << >>)
  OBVIOUS
<1>2. Loop(kind, b, << >>, f0)
  <2>1. \A t \in SUBSET (DOMAIN << >>) : t = {}
    BY <1>1
  <2>. QED
    BY <2>1 DEF Loop
<1>3. Loop(kind, b, << >>, f1)
  <2>. HIDE DEF f0
  <2>. QED
    BY <1>2
<1>. HIDE DEF f1
<1>4. f1[{}] = b
  BY <1>1, <1>3 DEF Loop
<1>. QED
  BY <1>1, <1>4 DEF Fold, f1

\* A molecule that is no compound is made and given up without a loop.
LEMMA AtomOps ==
  ASSUME NEW t \in Table, NEW m \in Atom
  PROVE  /\ Uses!MakeMolecule(t, m) =
              IF t.count[m] > 0 THEN Uses!IncrUses(t, m) ELSE [t EXCEPT !.count[m] = 1]
         /\ Uses!DecrUses(t, m) = Uses!DecrOne(t, m)
<1>1. m \notin Uses!Compound
  BY Constants
<1>2. ASSUME NEW b
      PROVE  /\ Uses!FoldLeft(Uses!IncrUses, b, << >>) = b
             /\ Uses!FoldLeft(Uses!DecrOne, b, << >>) = b
  <2>1. Fold("incr", b, << >>) = b /\ Fold("decr", b, << >>) = b
    BY FoldNone
  <2>2. Uses!FoldLeft(Uses!IncrUses, b, << >>) = Fold("incr", b, << >>)
    BY FoldsAre
  <2>3. Uses!FoldLeft(Uses!DecrOne, b, << >>) = Fold("decr", b, << >>)
    BY FoldsAre
  <2>. QED
    BY <2>1, <2>2, <2>3
<1>3. /\ (IF m \in Uses!Compound THEN m ELSE << >>) = << >>
      /\ (IF m \in Uses!Compound /\ t.count[m] = 1 THEN m ELSE << >>) = << >>
  BY <1>1
<1>4. Uses!DecrUses(t, m) = Uses!DecrOne(t, m)
  BY <1>2, <1>3 DEF Uses!DecrUses
<1>5. Uses!MakeMolecule(t, m) =
        IF t.count[m] > 0 THEN Uses!IncrUses(t, m) ELSE [t EXCEPT !.count[m] = 1]
  BY <1>2, <1>3 DEF Uses!MakeMolecule
<1>. QED
  BY <1>4, <1>5

Kinds == {"incr", "decr", "make", "give up"}

LEMMA OpType ==
  ASSUME NEW kind \in Kinds, NEW t \in Table, NEW m \in Atom
  PROVE  Op(kind, t, m) \in Table
<1>1. m \in Uses!Molecule /\ 1 \in 0 .. Uses!Permanent
  BY Constants
<1>2. [t EXCEPT !.count[m] = 1] \in Table
  BY <1>1 DEF Table
<1>3. Uses!IncrUses(t, m) \in Table /\ Uses!DecrOne(t, m) \in Table
  BY <1>1, IncrIs, DecrIs
<1>4. Uses!MakeMolecule(t, m) \in Table /\ Uses!DecrUses(t, m) \in Table
  BY <1>2, <1>3, AtomOps
<1>. QED
  BY <1>3, <1>4 DEF Kinds, Op

\* The tables a loop goes through.
Walks(h, kind, b, s) ==
  /\ h \in [0 .. Len(s) -> Table]
  /\ h[0] = b /\ h[Len(s)] = Fold(kind, b, s)
  /\ \A k \in 1 .. Len(s) : h[k] = Op(kind, h[k - 1], s[k])

LEMMA OneByOne ==
  ASSUME NEW kind \in Kinds, NEW s \in Seq(Atom), NEW b \in Table
  PROVE  \E h : Walks(h, kind, b, s)
<1>. DEFINE n == Len(s)
            F == [x \in Table \X (1 .. n) |-> Op(kind, x[1], s[x[2]])]
            it == CHOOSE f : Loop(kind, b, s, f)
            h == [k \in 0 .. n |-> it[1 .. k]]
<1>1. n \in Nat /\ DOMAIN s = 1 .. n /\ \A k \in 1 .. n : s[k] \in Atom
  OBVIOUS
<1>2. Fold(kind, b, s) = it[1 .. n]
  BY <1>1 DEF Fold
<1>. HIDE DEF n
<1>3. F \in [Table \X (1 .. n) -> Table]
  BY <1>1, OpType
<1>. HIDE DEF F, it
<1>4. \E f : Loop(kind, b, s, f)
  <2>1. PICK f \in [SUBSET (1 .. n) -> Table] : FoldsBy(f, n, F, b)
    BY <1>1, <1>3, FoldExists
  <2>2. ASSUME NEW t \in SUBSET (1 .. n)
        PROVE  f[t] = IF t = {} THEN b ELSE Op(kind, f[t \ {Max(t)}], s[Max(t)])
    <3>1. CASE t = {}
      BY <3>1, <2>1 DEF FoldsBy
    <3>2. CASE t # {}
      <4>1. f[t] = F[<<f[t \ {Max(t)}], Max(t)>>]
        BY <3>2, <2>1 DEF FoldsBy
      <4>2. Max(t) \in 1 .. n
        BY <1>1, <3>2, LastOfSet
      <4>3. <<f[t \ {Max(t)}], Max(t)>> \in Table \X (1 .. n)
        BY <2>1, <4>2
      <4>. QED
        BY <3>2, <4>1, <4>3 DEF F
    <3>. QED
      BY <3>1, <3>2
  <2>3. Loop(kind, b, s, f)
    BY <1>1, <2>1, <2>2 DEF Loop
  <2>. QED
    BY <2>3
<1>5. Loop(kind, b, s, it)
  BY <1>4 DEF it
<1>6. \A t \in SUBSET (1 .. n) : it[t] = IF t = {} THEN b ELSE Op(kind, it[t \ {Max(t)}], s[Max(t)])
  BY <1>1, <1>5 DEF Loop
<1>7. h[0] = b
  <2>1. 1 .. 0 = {} /\ {} \in SUBSET (1 .. n) /\ 0 \in 0 .. n
    BY <1>1
  <2>. QED
    BY <1>6, <2>1
<1>8. ASSUME NEW k \in 1 .. n PROVE h[k] = Op(kind, h[k - 1], s[k])
  <2>1. /\ Max(1 .. k) = k /\ (1 .. k) \ {k} = 1 .. (k - 1)
        /\ 1 .. k # {} /\ 1 .. k \in SUBSET (1 .. n)
    BY <1>1, LastOfInterval
  <2>2. k \in 0 .. n /\ k - 1 \in 0 .. n
    BY <1>1
  <2>3. it[1 .. k] = Op(kind, it[1 .. (k - 1)], s[k])
    BY <1>6, <2>1
  <2>. QED
    BY <2>2, <2>3
<1>9. h[n] = it[1 .. n] /\ h = [k \in 0 .. n |-> h[k]]
  BY <1>1
<1>. HIDE DEF h
<1>10. \A k \in 0 .. n : h[k] \in Table
  <2>. DEFINE G == {k \in 0 .. n : h[k] \in Table}
  <2>1. 0 \in G
    BY <1>1, <1>7
  <2>2. ASSUME NEW k \in 1 .. n, k - 1 \in G PROVE k \in G
    BY <1>1, <1>8, <2>2, OpType
  <2>. HIDE DEF G
  <2>3. \A k \in 0 .. n : k \in G
    BY <1>1, <2>1, <2>2, Induct
  <2>. QED
    BY <2>3 DEF G
<1>. QED
  BY <1>2, <1>7, <1>8, <1>9, <1>10 DEF n, Walks

-----------------------------------------------------------------------------
(* Who uses what: pairs of a holder and the molecule it points at.         *)

Of(H, m) == {p \in H : p[2] = m}
Backed(t, H) ==
  /\ IsFiniteSet(H)
  /\ \A m \in Uses!Molecule : t.count[m] = Uses!Permanent \/ t.count[m] >= Cardinality(Of(H, m))

LEMMA OneMoreUse ==
  ASSUME NEW H, IsFiniteSet(H), NEW p, p \notin H, NEW m
  PROVE  /\ IsFiniteSet(H \cup {p}) /\ Cardinality(Of(H, m)) \in Nat
         /\ Cardinality(Of(H \cup {p}, m)) =
              IF p[2] = m THEN Cardinality(Of(H, m)) + 1 ELSE Cardinality(Of(H, m))
<1>1. IsFiniteSet(H \cup {p})
  BY FS_AddElement
<1>2. IsFiniteSet(Of(H, m)) /\ p \notin Of(H, m)
  <2>1. Of(H, m) \in SUBSET H
    BY DEF Of
  <2>. QED
    BY <2>1, FS_Subset
<1>3. Cardinality(Of(H, m)) \in Nat
  BY <1>2, FS_CardinalityType
<1>4. CASE p[2] = m
  <2>1. Of(H \cup {p}, m) = Of(H, m) \cup {p}
    BY <1>4 DEF Of
  <2>. QED
    BY <1>1, <1>2, <1>3, <1>4, <2>1, FS_AddElement
<1>5. CASE p[2] # m
  <2>1. Of(H \cup {p}, m) = Of(H, m)
    BY <1>5 DEF Of
  <2>. QED
    BY <1>1, <1>3, <1>5, <2>1
<1>. QED
  BY <1>4, <1>5

LEMMA OneUseLess ==
  ASSUME NEW H, IsFiniteSet(H), NEW p \in H, NEW m
  PROVE  /\ IsFiniteSet(H \ {p}) /\ Cardinality(Of(H \ {p}, m)) \in Nat
         /\ Cardinality(Of(H, m)) =
              IF p[2] = m THEN Cardinality(Of(H \ {p}, m)) + 1 ELSE Cardinality(Of(H \ {p}, m))
<1>1. IsFiniteSet(H \ {p}) /\ p \notin H \ {p} /\ (H \ {p}) \cup {p} = H
  BY FS_RemoveElement
<1>. DEFINE G == H \ {p}
<1>2. IsFiniteSet(G) /\ p \notin G /\ G \cup {p} = H
  BY <1>1
<1>. HIDE DEF G
<1>3. /\ Cardinality(Of(G, m)) \in Nat
      /\ Cardinality(Of(G \cup {p}, m)) =
              IF p[2] = m THEN Cardinality(Of(G, m)) + 1 ELSE Cardinality(Of(G, m))
  BY <1>2, OneMoreUse
<1>. QED
  BY <1>1, <1>2, <1>3 DEF G

\* With fewer users there is cover as well.
LEMMA FewerUsers ==
  ASSUME NEW t \in Table, NEW H, Backed(t, H), NEW G \in SUBSET H
  PROVE  Backed(t, G)
<1>1. IsFiniteSet(G)
  BY FS_Subset DEF Backed
<1>2. ASSUME NEW m \in Uses!Molecule
      PROVE  t.count[m] = Uses!Permanent \/ t.count[m] >= Cardinality(Of(G, m))
  <2>1. Of(G, m) \in SUBSET Of(H, m) /\ Of(H, m) \in SUBSET H
    BY DEF Of
  <2>2. IsFiniteSet(Of(H, m)) /\ IsFiniteSet(Of(G, m))
    BY <2>1, FS_Subset DEF Backed
  <2>3. Cardinality(Of(G, m)) <= Cardinality(Of(H, m))
    BY <2>1, <2>2, FS_Subset
  <2>4. Cardinality(Of(G, m)) \in Nat /\ Cardinality(Of(H, m)) \in Nat
    BY <2>2, FS_CardinalityType
  <2>5. t.count[m] = Uses!Permanent \/ t.count[m] >= Cardinality(Of(H, m))
    BY DEF Backed
  <2>6. t.count[m] \in Nat
    BY Constants DEF Table
  <2>. QED
    BY <2>3, <2>4, <2>5, <2>6
<1>. QED
  BY <1>1, <1>2 DEF Backed

LEMMA UsedIsThere ==
  ASSUME NEW t \in Table, NEW H, Backed(t, H), NEW p \in H, p[2] \in Uses!Molecule
  PROVE  t.count[p[2]] > 0
<1>. DEFINE m == p[2]
<1>1. IsFiniteSet(H)
  BY DEF Backed
<1>2. Cardinality(Of(H \ {p}, m)) \in Nat /\ Cardinality(Of(H, m)) = Cardinality(Of(H \ {p}, m)) + 1
  BY <1>1, OneUseLess
<1>3. t.count[m] = Uses!Permanent \/ t.count[m] >= Cardinality(Of(H, m))
  BY DEF Backed
<1>4. t.count[m] \in Nat /\ Uses!Permanent > 0
  BY Constants DEF Table
<1>. QED
  BY <1>2, <1>3, <1>4

\* What is permanent stays so.
Lasts(u, t) ==
  \A x \in Uses!Molecule : t.count[x] = Uses!Permanent => u.count[x] = Uses!Permanent
\* The table u is t with one more use, so that it covers H.
Taken(u, t, H) ==
  /\ u \in Table /\ u.freedUsed = t.freedUsed /\ Backed(u, H) /\ Lasts(u, t)
  /\ \A x \in Uses!Molecule : u.count[x] > 0 <=> t.count[x] > 0
\* And with one use less.
GivenUp(u, t, m, H) ==
  /\ u \in Table /\ u.freedUsed = t.freedUsed /\ Backed(u, H)
  /\ \A x \in Uses!Molecule :
       u.count[x] = IF x = m /\ t.count[x] # Uses!Permanent THEN t.count[x] - 1
                    ELSE t.count[x]

\* And with a first one of m.
Begun(u, t, m, H) ==
  /\ u \in Table /\ u.freedUsed = t.freedUsed /\ Backed(u, H)
  /\ \A x \in Uses!Molecule : u.count[x] = IF x = m THEN 1 ELSE t.count[x]
\* And with fewer uses, of no compound.
Released(u, t, H) ==
  /\ u \in Table /\ u.freedUsed = t.freedUsed /\ Backed(u, H) /\ Lasts(u, t)
  /\ \A x \in Uses!Compound : u.count[x] = t.count[x]

LEMMA UseTaken ==
  ASSUME NEW t \in Table, NEW H, Backed(t, H), NEW p, p \notin H,
         p[2] \in Uses!Molecule, t.count[p[2]] > 0,
         NEW u, u = Uses!IncrUses(t, p[2])
  PROVE  Taken(u, t, H \cup {p})
<1>. DEFINE m == p[2]
<1>1. Uses!Permanent \in Nat /\ Uses!Permanent > 1 /\ \A x \in Uses!Molecule : t.count[x] \in 0 .. Uses!Permanent
  BY Constants DEF Table
<1>2. /\ u \in Table /\ u.freedUsed = t.freedUsed
      /\ \A x \in Uses!Molecule :
           u.count[x] = IF x = m /\ t.count[m] # Uses!Permanent THEN t.count[m] + 1 ELSE t.count[x]
  BY <1>1, IncrIs
<1>3. IsFiniteSet(H) /\ IsFiniteSet(H \cup {p})
  BY OneMoreUse DEF Backed
<1>4. ASSUME NEW x \in Uses!Molecule
      PROVE  u.count[x] = Uses!Permanent \/ u.count[x] >= Cardinality(Of(H \cup {p}, x))
  <2>1. /\ Cardinality(Of(H, x)) \in Nat
        /\ Cardinality(Of(H \cup {p}, x)) =
              IF m = x THEN Cardinality(Of(H, x)) + 1 ELSE Cardinality(Of(H, x))
    BY <1>3, OneMoreUse
  <2>2. t.count[x] = Uses!Permanent \/ t.count[x] >= Cardinality(Of(H, x))
    BY DEF Backed
  <2>. QED
    BY <1>1, <1>2, <2>1, <2>2
<1>5. \A x \in Uses!Molecule : u.count[x] > 0 <=> t.count[x] > 0
  BY <1>1, <1>2
<1>. QED
  BY <1>2, <1>3, <1>4, <1>5 DEF Backed, Taken, Lasts

LEMMA UseGivenUp ==
  ASSUME NEW t \in Table, NEW H, Backed(t, H), NEW p \in H, p[2] \in Uses!Molecule,
         NEW u, u = Uses!DecrOne(t, p[2])
  PROVE  GivenUp(u, t, p[2], H \ {p})
<1>. DEFINE m == p[2]
<1>1. Uses!Permanent \in Nat /\ Uses!Permanent > 1 /\ \A x \in Uses!Molecule : t.count[x] \in 0 .. Uses!Permanent
  BY Constants DEF Table
<1>2. t.count[m] > 0
  BY UsedIsThere
<1>3. /\ u \in Table /\ u.freedUsed = t.freedUsed
      /\ \A x \in Uses!Molecule :
           u.count[x] = IF x = m /\ t.count[x] # Uses!Permanent THEN t.count[x] - 1 ELSE t.count[x]
  BY <1>1, <1>2, DecrIs
<1>4. IsFiniteSet(H) /\ IsFiniteSet(H \ {p})
  BY OneUseLess DEF Backed
<1>5. ASSUME NEW x \in Uses!Molecule
      PROVE  u.count[x] = Uses!Permanent \/ u.count[x] >= Cardinality(Of(H \ {p}, x))
  <2>1. /\ Cardinality(Of(H \ {p}, x)) \in Nat
        /\ Cardinality(Of(H, x)) =
              IF m = x THEN Cardinality(Of(H \ {p}, x)) + 1 ELSE Cardinality(Of(H \ {p}, x))
    BY <1>4, OneUseLess
  <2>2. t.count[x] = Uses!Permanent \/ t.count[x] >= Cardinality(Of(H, x))
    BY DEF Backed
  <2>. QED
    BY <1>1, <1>3, <2>1, <2>2
<1>. QED
  BY <1>3, <1>4, <1>5 DEF Backed, GivenUp

-----------------------------------------------------------------------------
(* The elements of a compound.                                             *)

Element(c, k) == <<<<"element", c, k>>, c[k]>>
Elements(c, n) == {Element(c, k) : k \in 1 .. n}

LEMMA ElementsGrow ==
  ASSUME NEW c, NEW n \in Nat, NEW k \in 1 .. n
  PROVE  /\ Elements(c, k) = Elements(c, k - 1) \cup {Element(c, k)}
         /\ Element(c, k) \notin Elements(c, k - 1)
         /\ Element(c, k) \in Elements(c, n) /\ Elements(c, 0) = {}
<1>1. 1 .. k = (1 .. k - 1) \cup {k} /\ 1 .. 0 = {}
  OBVIOUS
<1>2. ASSUME NEW i \in 1 .. k - 1 PROVE Element(c, i) # Element(c, k)
  BY DEF Element
<1>. QED
  BY <1>1, <1>2 DEF Elements

LEMMA ElementsTaken ==
  ASSUME NEW t \in Table, NEW c \in Uses!Compound, NEW H, Backed(t, H),
         H \cap Elements(c, Len(c)) = {}, \A k \in 1 .. Len(c) : t.count[c[k]] > 0,
         NEW u, u = Uses!FoldLeft(Uses!IncrUses, t, c)
  PROVE  Taken(u, t, H \cup Elements(c, Len(c)))
<1>. DEFINE n == Len(c)
<1>1. c \in Seq(Atom) /\ n \in Nat /\ \A k \in 1 .. n : c[k] \in Atom /\ c[k] \in Uses!Molecule
  BY CompoundIs, Constants
<1>2. PICK h : Walks(h, "incr", t, c)
  BY <1>1, OneByOne DEF Kinds
<1>3. h[n] = u
  <2>1. u = Fold("incr", t, c)
    BY FoldsAre
  <2>. QED
    BY <1>2, <2>1 DEF Walks
<1>4. h[0] = t /\ \A k \in 0 .. n : h[k] \in Table
  BY <1>2 DEF Walks
<1>5. \A k \in 1 .. n : h[k] = Uses!IncrUses(h[k - 1], c[k])
  BY <1>2 DEF Walks, Op
<1>. DEFINE G == {k \in 0 .. n : Taken(h[k], t, H \cup Elements(c, k))}
<1>. HIDE DEF n
<1>6. 0 \in G
  <2>1. H \cup Elements(c, 0) = H /\ 0 \in 0 .. n
    BY <1>1 DEF Elements
  <2>. QED
    BY <1>4, <2>1 DEF Taken, Lasts
<1>7. ASSUME NEW k \in 1 .. n, k - 1 \in G PROVE k \in G
  <2>. DEFINE p == Element(c, k)
              K == H \cup Elements(c, k - 1)
              a == h[k - 1]
  <2>1. a \in Table /\ a.freedUsed = t.freedUsed /\ Backed(a, K) /\ Lasts(a, t)
        /\ \A x \in Uses!Molecule : a.count[x] > 0 <=> t.count[x] > 0
    BY <1>7 DEF Taken
  <2>2. p[2] = c[k]
    BY DEF Element
  <2>3. p \notin K /\ K \cup {p} = H \cup Elements(c, k)
    BY <1>1, ElementsGrow DEF n
  <2>4. p[2] \in Uses!Molecule /\ a.count[p[2]] > 0 /\ h[k] = Uses!IncrUses(a, p[2])
    BY <1>1, <1>5, <2>1, <2>2 DEF n
  <2>. HIDE DEF p, K, a
  <2>5. Taken(h[k], a, K \cup {p})
    BY <2>1, <2>3, <2>4, UseTaken
  <2>6. Taken(h[k], t, H \cup Elements(c, k))
    BY <2>1, <2>3, <2>5 DEF Taken, Lasts
  <2>. QED
    BY <2>6, <1>1
<1>. HIDE DEF G
<1>8. n \in G
  <2>1. \A k \in 0 .. n : k \in G
    BY <1>1, <1>6, <1>7, Induct
  <2>. QED
    BY <1>1, <2>1
<1>. QED
  BY <1>3, <1>8 DEF G, n

LEMMA ElementsGivenUp ==
  ASSUME NEW t \in Table, NEW c \in Uses!Compound, NEW H, Backed(t, H),
         Elements(c, Len(c)) \subseteq H,
         NEW u, u = Uses!FoldLeft(Uses!DecrOne, t, c)
  PROVE  Released(u, t, H \ Elements(c, Len(c)))
<1>. DEFINE n == Len(c)
<1>1. /\ c \in Seq(Atom) /\ n \in Nat
      /\ \A k \in 1 .. n : c[k] \in Atom /\ c[k] \in Uses!Molecule /\ c[k] \notin Uses!Compound
  BY CompoundIs, Constants
<1>2. PICK h : Walks(h, "decr", t, c)
  BY <1>1, OneByOne DEF Kinds
<1>3. h[n] = u
  <2>1. u = Fold("decr", t, c)
    BY FoldsAre
  <2>. QED
    BY <1>2, <2>1 DEF Walks
<1>4. h[0] = t /\ \A k \in 0 .. n : h[k] \in Table
  BY <1>2 DEF Walks
<1>5. \A k \in 1 .. n : h[k] = Uses!DecrOne(h[k - 1], c[k])
  BY <1>2 DEF Walks, Op
<1>. DEFINE G == {k \in 0 .. n : Released(h[k], t, H \ Elements(c, k))}
<1>. HIDE DEF n
<1>6. 0 \in G
  <2>1. H \ Elements(c, 0) = H /\ 0 \in 0 .. n
    BY <1>1 DEF Elements
  <2>. QED
    BY <1>4, <2>1 DEF Released, Lasts
<1>7. ASSUME NEW k \in 1 .. n, k - 1 \in G PROVE k \in G
  <2>. DEFINE p == Element(c, k)
              K == H \ Elements(c, k - 1)
              a == h[k - 1]
  <2>1. a \in Table /\ a.freedUsed = t.freedUsed /\ Backed(a, K) /\ Lasts(a, t)
        /\ \A x \in Uses!Compound : a.count[x] = t.count[x]
    BY <1>7 DEF Released
  <2>2. p[2] = c[k]
    BY DEF Element
  <2>3. p \in K /\ K \ {p} = H \ Elements(c, k)
    BY <1>1, ElementsGrow DEF n
  <2>4. p[2] \in Uses!Molecule /\ p[2] \notin Uses!Compound /\ h[k] = Uses!DecrOne(a, p[2])
    BY <1>1, <1>5, <2>1, <2>2 DEF n
  <2>. HIDE DEF p, K, a
  <2>5. GivenUp(h[k], a, p[2], K \ {p})
    BY <2>1, <2>3, <2>4, UseGivenUp
  <2>6. Released(h[k], t, H \ Elements(c, k))
    BY <2>1, <2>3, <2>4, <2>5, Constants DEF GivenUp, Released, Lasts
  <2>. QED
    BY <2>6, <1>1
<1>. HIDE DEF G
<1>8. n \in G
  <2>1. \A k \in 0 .. n : k \in G
    BY <1>1, <1>6, <1>7, Induct
  <2>. QED
    BY <1>1, <2>1
<1>. QED
  BY <1>3, <1>8 DEF G, n

-----------------------------------------------------------------------------
(* Covered: there is a use for each of the users X outside of the table,   *)
(* and for the elements of each compound in it.                            *)

Outer(p) == p[2] \in Uses!Molecule /\ p[1][1] # "element"
Covers(t, X) ==
  /\ t \in Table /\ ~t.freedUsed
  /\ t.count[Nil] = Uses!Permanent /\ t.count[<< >>] = Uses!Permanent
  /\ \A p \in X : Outer(p)
  /\ Backed(t, X \cup Uses!ElementUses(t))
\* What is in the table t is also in u.
Keeps(u, t) == \A x \in Uses!Molecule : t.count[x] > 0 => u.count[x] > 0

LEMMA ElementUsesAre ==
  ASSUME NEW t, NEW p
  PROVE  p \in Uses!ElementUses(t) <=>
           \E c \in Uses!Compound : t.count[c] > 0 /\ p \in Elements(c, Len(c))
<1>1. \A c \in Uses!Compound : DOMAIN c = 1 .. Len(c)
  BY CompoundIs
<1>2. Uses!ElementUses(t) =
        UNION {{<<<<"element", c, k>>, c[k]>> : k \in DOMAIN c} :
               c \in {d \in Uses!Compound : t.count[d] > 0}}
  BY DEF Uses!ElementUses
<1>3. ASSUME NEW c \in Uses!Compound
      PROVE  {<<<<"element", c, k>>, c[k]>> : k \in DOMAIN c} = Elements(c, Len(c))
  BY <1>1 DEF Elements, Element
<1>4. ASSUME p \in Uses!ElementUses(t)
      PROVE  \E c \in Uses!Compound : t.count[c] > 0 /\ p \in Elements(c, Len(c))
  BY <1>2, <1>3, <1>4
<1>5. ASSUME NEW c \in Uses!Compound, t.count[c] > 0, p \in Elements(c, Len(c))
      PROVE  p \in Uses!ElementUses(t)
  BY <1>2, <1>3, <1>5
<1>. QED
  BY <1>4, <1>5

\* Elements are used by their compound.
LEMMA ElementUser ==
  ASSUME NEW c \in Uses!Compound, NEW p \in Elements(c, Len(c))
  PROVE  /\ p[1][1] = "element" /\ p[1][2] = c /\ ~Outer(p)
         /\ p[2] \in Atom
<1>1. PICK k \in 1 .. Len(c) : p = Element(c, k)
  BY DEF Elements
<1>2. c[k] \in Atom
  BY CompoundIs
<1>. QED
  BY <1>1, <1>2 DEF Element, Outer

LEMMA SameElements ==
  ASSUME NEW t, NEW u, \A c \in Uses!Compound : u.count[c] > 0 <=> t.count[c] > 0
  PROVE  Uses!ElementUses(u) = Uses!ElementUses(t)
<1>1. \A p : p \in Uses!ElementUses(u) <=> p \in Uses!ElementUses(t)
  BY ElementUsesAre
<1>. QED
  BY <1>1

LEMMA CoveredIsThere ==
  ASSUME NEW t, NEW X, Covers(t, X)
  PROVE  /\ \A p \in X : p[2] \in Uses!Molecule /\ t.count[p[2]] > 0
         /\ \A c \in Uses!Compound : t.count[c] > 0 => \A k \in 1 .. Len(c) : t.count[c[k]] > 0
<1>1. t \in Table /\ Backed(t, X \cup Uses!ElementUses(t))
  BY DEF Covers
<1>2. ASSUME NEW p \in X PROVE p[2] \in Uses!Molecule /\ t.count[p[2]] > 0
  <2>1. p[2] \in Uses!Molecule /\ p \in X \cup Uses!ElementUses(t)
    BY DEF Covers, Outer
  <2>. QED
    BY <1>1, <2>1, UsedIsThere
<1>3. ASSUME NEW c \in Uses!Compound, t.count[c] > 0, NEW k \in 1 .. Len(c)
      PROVE  t.count[c[k]] > 0
  <2>. DEFINE p == Element(c, k)
  <2>1. p \in Elements(c, Len(c)) /\ p[2] = c[k]
    BY DEF Elements, Element
  <2>2. p \in X \cup Uses!ElementUses(t) /\ p[2] \in Uses!Molecule
    BY <1>3, <2>1, ElementUsesAre, ElementUser, Constants
  <2>. HIDE DEF p
  <2>3. t.count[p[2]] > 0
    BY <1>1, <2>2, UsedIsThere
  <2>. QED
    BY <2>1, <2>3
<1>. QED
  BY <1>2, <1>3

LEMMA CoversFewer ==
  ASSUME NEW t, NEW X, Covers(t, X), NEW Y \in SUBSET X
  PROVE  Covers(t, Y)
<1>. DEFINE E == Uses!ElementUses(t)
            H == X \cup E
            G == Y \cup E
<1>1. t \in Table /\ Backed(t, H) /\ G \in SUBSET H
  BY DEF Covers
<1>. HIDE DEF H, G
<1>2. Backed(t, G)
  BY <1>1, FewerUsers
<1>. QED
  BY <1>2 DEF Covers, G

LEMMA CoversTaken ==
  ASSUME NEW t, NEW X, Covers(t, X), NEW p, p \notin X, Outer(p), t.count[p[2]] > 0,
         NEW u, u = Uses!IncrUses(t, p[2])
  PROVE  Covers(u, X \cup {p}) /\ Keeps(u, t)
<1>. DEFINE H == X \cup Uses!ElementUses(t)
<1>1. t \in Table /\ Backed(t, H) /\ p[2] \in Uses!Molecule
  BY DEF Covers, Outer
<1>2. p \notin H
  BY ElementUsesAre, ElementUser
<1>. HIDE DEF H
<1>3. Taken(u, t, H \cup {p})
  BY <1>1, <1>2, UseTaken
<1>4. Uses!ElementUses(u) = Uses!ElementUses(t)
  BY <1>3, SameElements, Constants DEF Taken
<1>5. H \cup {p} = (X \cup {p}) \cup Uses!ElementUses(u)
  BY <1>4 DEF H
<1>. QED
  BY <1>3, <1>5, Constants DEF Taken, Covers, Keeps, Lasts

\* The first use of a molecule that is new in the table.
LEMMA FirstUse ==
  ASSUME NEW t \in Table, NEW H, Backed(t, H), NEW p, p \notin H,
         p[2] \in Uses!Molecule, ~(t.count[p[2]] > 0),
         NEW u, u = [t EXCEPT !.count[p[2]] = 1]
  PROVE  Begun(u, t, p[2], H \cup {p})
<1>. DEFINE m == p[2]
<1>1. Uses!Permanent \in Nat /\ Uses!Permanent > 1 /\ \A x \in Uses!Molecule : t.count[x] \in 0 .. Uses!Permanent
  BY Constants DEF Table
<1>2. u \in Table /\ u.freedUsed = t.freedUsed
      /\ \A x \in Uses!Molecule : u.count[x] = IF x = m THEN 1 ELSE t.count[x]
  BY <1>1 DEF Table
<1>3. IsFiniteSet(H) /\ IsFiniteSet(H \cup {p})
  BY OneMoreUse DEF Backed
<1>4. ASSUME NEW x \in Uses!Molecule
      PROVE  u.count[x] = Uses!Permanent \/ u.count[x] >= Cardinality(Of(H \cup {p}, x))
  <2>1. /\ Cardinality(Of(H, x)) \in Nat
        /\ Cardinality(Of(H \cup {p}, x)) =
              IF m = x THEN Cardinality(Of(H, x)) + 1 ELSE Cardinality(Of(H, x))
    BY <1>3, OneMoreUse
  <2>2. t.count[x] = Uses!Permanent \/ t.count[x] >= Cardinality(Of(H, x))
    BY DEF Backed
  <2>3. x = m => t.count[x] = 0
    BY <1>1
  <2>. QED
    BY <1>1, <1>2, <2>1, <2>2, <2>3
<1>. QED
  BY <1>2, <1>3, <1>4 DEF Backed, Begun

LEMMA CoversMade ==
  ASSUME NEW t, NEW X, Covers(t, X), NEW p, p \notin X, Outer(p),
         p[2] \in Uses!Compound => \A k \in 1 .. Len(p[2]) : t.count[p[2][k]] > 0,
         NEW u, u = Uses!MakeMolecule(t, p[2])
  PROVE  Covers(u, X \cup {p}) /\ Keeps(u, t)
<1>. DEFINE m == p[2]
<1>1. CASE t.count[m] > 0
  <2>1. u = Uses!IncrUses(t, m)
    BY <1>1 DEF Uses!MakeMolecule
  <2>. QED
    BY <1>1, <2>1, CoversTaken
<1>2. CASE ~(t.count[m] > 0)
  <2>. DEFINE H == X \cup Uses!ElementUses(t)
              v == [t EXCEPT !.count[m] = 1]
  <2>1. t \in Table /\ Backed(t, H) /\ m \in Uses!Molecule /\ p \notin H
    BY ElementUsesAre, ElementUser DEF Covers, Outer
  <2>. HIDE DEF H
  <2>0. Begun(v, t, p[2], H \cup {p})
    <3>1. v = [t EXCEPT !.count[p[2]] = 1]
      OBVIOUS
    <3>. HIDE DEF v
    <3>. QED
      BY <1>2, <2>1, <3>1, FirstUse
  <2>. HIDE DEF v
  <2>2. /\ v \in Table /\ v.freedUsed = t.freedUsed /\ Backed(v, H \cup {p})
        /\ \A x \in Uses!Molecule : v.count[x] = IF x = m THEN 1 ELSE t.count[x]
    BY <2>0 DEF Begun
  <2>5. v.count[Nil] = Uses!Permanent /\ v.count[<< >>] = Uses!Permanent
    BY <1>2, <2>2, Constants DEF Covers
  <2>3. CASE m \notin Uses!Compound
    <3>1. u = v
      <4>1. m \in Atom
        BY <2>1, <2>3 DEF Uses!Molecule
      <4>. QED
        BY <1>2, <2>1, <4>1, AtomOps DEF v
    <3>2. \A c \in Uses!Compound : u.count[c] > 0 <=> t.count[c] > 0
      BY <2>2, <2>3, <3>1, Constants
    <3>3. Uses!ElementUses(u) = Uses!ElementUses(t)
      BY <3>2, SameElements
    <3>4. H \cup {p} = (X \cup {p}) \cup Uses!ElementUses(u)
      BY <3>3 DEF H
    <3>5. Covers(u, X \cup {p})
      BY <2>2, <2>5, <3>1, <3>4 DEF Covers
    <3>6. Keeps(u, t)
      BY <2>2, <3>1 DEF Keeps
    <3>. QED
      BY <3>5, <3>6
  <2>4. CASE m \in Uses!Compound
    <3>1. u = Uses!FoldLeft(Uses!IncrUses, v, m)
      BY <1>2, <2>4 DEF Uses!MakeMolecule, v
    <3>2. \A k \in 1 .. Len(m) : v.count[m[k]] > 0
      <4>1. \A k \in 1 .. Len(m) : m[k] \in Atom /\ m[k] # m
        BY <2>4, CompoundIs, Constants
      <4>. QED
        BY <2>2, <2>4, <4>1, Constants
    <3>3. (H \cup {p}) \cap Elements(m, Len(m)) = {}
      <4>. SUFFICES ASSUME NEW q \in Elements(m, Len(m)) PROVE q \notin H \cup {p}
        OBVIOUS
      <4>1. ~Outer(q) /\ q[1][2] = m
        BY <2>4, ElementUser
      <4>2. q \notin X /\ q # p
        BY <4>1 DEF Covers
      <4>3. q \notin Uses!ElementUses(t)
        <5>. SUFFICES ASSUME NEW c \in Uses!Compound, t.count[c] > 0, q \in Elements(c, Len(c))
                      PROVE  FALSE
          BY ElementUsesAre
        <5>1. c = m
          BY <4>1, ElementUser
        <5>. QED
          BY <5>1, <1>2
      <4>. QED
        BY <4>2, <4>3 DEF H
    <3>. DEFINE K == H \cup {p}
    <3>4. v \in Table /\ Backed(v, K) /\ K \cap Elements(m, Len(m)) = {}
      BY <2>2, <3>3
    <3>. HIDE DEF K
    <3>5. Taken(u, v, K \cup Elements(m, Len(m)))
      BY <2>4, <3>1, <3>2, <3>4, ElementsTaken
    <3>6. \A c \in Uses!Molecule : u.count[c] > 0 <=> (t.count[c] > 0 \/ c = m)
      BY <1>2, <2>2, <3>5 DEF Taken
    <3>7. Uses!ElementUses(u) = Uses!ElementUses(t) \cup Elements(m, Len(m))
      <4>1. \A q : q \in Uses!ElementUses(u) <=> q \in Uses!ElementUses(t) \/ q \in Elements(m, Len(m))
        BY <2>4, <3>6, ElementUsesAre, Constants
      <4>. QED
        BY <4>1
    <3>8. K \cup Elements(m, Len(m)) = (X \cup {p}) \cup Uses!ElementUses(u)
      BY <3>7 DEF K, H
    <3>. QED
      BY <2>2, <2>5, <3>5, <3>6, <3>8, Constants DEF Taken, Covers, Keeps, Lasts
  <2>. QED
    BY <2>3, <2>4
<1>. QED
  BY <1>1, <1>2

LEMMA CoversGivenUp ==
  ASSUME NEW t, NEW X, Covers(t, X), NEW p \in X,
         NEW u, u = Uses!DecrUses(t, p[2])
  PROVE  Covers(u, X \ {p})
<1>. DEFINE m == p[2]
            H == X \cup Uses!ElementUses(t)
            v == Uses!DecrOne(t, m)
<1>1. t \in Table /\ Backed(t, H) /\ m \in Uses!Molecule /\ p \in H
  BY DEF Covers, Outer
<1>2. p \notin Uses!ElementUses(t)
  BY ElementUsesAre, ElementUser DEF Covers
<1>. HIDE DEF H, v
<1>3. GivenUp(v, t, m, H \ {p})
  BY <1>1, UseGivenUp DEF v
<1>4. /\ Uses!Permanent \in Nat /\ Uses!Permanent > 1
      /\ \A x \in Uses!Molecule : t.count[x] \in 0 .. Uses!Permanent
  BY <1>1, Constants DEF Table
<1>8. v.count[Nil] = Uses!Permanent /\ v.count[<< >>] = Uses!Permanent
  BY <1>3, Constants DEF GivenUp, Covers
<1>5. t.count[m] > 0
  BY CoveredIsThere
<1>6. CASE ~(m \in Uses!Compound /\ t.count[m] = 1)
  <2>1. u = v
    <3>1. u = Uses!FoldLeft(Uses!DecrOne, v, << >>)
      BY <1>6 DEF Uses!DecrUses, v
    <3>2. Uses!FoldLeft(Uses!DecrOne, v, << >>) = Fold("decr", v, << >>)
      BY FoldsAre
    <3>. QED
      BY <3>1, <3>2, FoldNone
  <2>2. \A c \in Uses!Compound : u.count[c] > 0 <=> t.count[c] > 0
    BY <1>3, <1>4, <1>5, <1>6, <2>1, Constants DEF GivenUp
  <2>3. Uses!ElementUses(u) = Uses!ElementUses(t)
    BY <2>2, SameElements
  <2>4. H \ {p} = (X \ {p}) \cup Uses!ElementUses(u)
    BY <1>2, <2>3 DEF H
  <2>. QED
    BY <1>3, <1>8, <2>1, <2>4 DEF GivenUp, Covers
<1>7. CASE m \in Uses!Compound /\ t.count[m] = 1
  <2>1. u = Uses!FoldLeft(Uses!DecrOne, v, m)
    BY <1>7 DEF Uses!DecrUses, v
  <2>2. Elements(m, Len(m)) \subseteq H \ {p}
    <3>1. Elements(m, Len(m)) \subseteq Uses!ElementUses(t)
      BY <1>5, <1>7, ElementUsesAre
    <3>. QED
      BY <1>2, <3>1 DEF H
  <2>. DEFINE K == H \ {p}
  <2>3. v \in Table /\ Backed(v, K) /\ Elements(m, Len(m)) \subseteq K
    BY <1>3, <2>2 DEF GivenUp
  <2>. HIDE DEF K
  <2>9. Released(u, v, K \ Elements(m, Len(m)))
    BY <1>7, <2>1, <2>3, ElementsGivenUp
  <2>4. /\ u \in Table /\ u.freedUsed = v.freedUsed
        /\ Backed(u, K \ Elements(m, Len(m)))
        /\ \A x \in Uses!Compound : u.count[x] = v.count[x]
    BY <2>9 DEF Released
  <2>10. u.count[Nil] = Uses!Permanent /\ u.count[<< >>] = Uses!Permanent
    BY <1>8, <2>9, Constants DEF Released, Lasts
  <2>5. \A c \in Uses!Compound : u.count[c] > 0 <=> (t.count[c] > 0 /\ c # m)
    BY <1>3, <1>4, <1>7, <2>4, Constants DEF GivenUp
  <2>6. \A q : q \in Uses!ElementUses(u) <=> q \in Uses!ElementUses(t) /\ q \notin Elements(m, Len(m))
    <3>1. ASSUME NEW q, NEW c \in Uses!Compound, q \in Elements(c, Len(c)), q \in Elements(m, Len(m))
          PROVE  c = m
      BY <1>7, <3>1, ElementUser
    <3>. QED
      BY <1>7, <2>5, <3>1, ElementUsesAre
  <2>7. \A q \in X : q \notin Elements(m, Len(m))
    BY <1>7, ElementUser DEF Covers
  <2>8. K \ Elements(m, Len(m)) = (X \ {p}) \cup Uses!ElementUses(u)
    BY <1>2, <2>6, <2>7 DEF K, H
  <2>. QED
    BY <1>3, <2>4, <2>8, <2>10 DEF GivenUp, Covers
<1>. QED
  BY <1>6, <1>7

\* A use passes from one holder to another.
LEMMA CoversPassed ==
  ASSUME NEW t, NEW X, Covers(t, X), NEW p \in X, NEW q, Outer(q), q[2] = p[2], q \notin X
  PROVE  Covers(t, (X \ {p}) \cup {q})
<1>. DEFINE H == X \cup Uses!ElementUses(t)
            G == H \ {p}
<1>1. t \in Table /\ Backed(t, H) /\ IsFiniteSet(H) /\ p \in H
  BY DEF Covers, Backed
<1>2. q \notin H /\ p \notin Uses!ElementUses(t)
  BY ElementUsesAre, ElementUser DEF Covers
<1>. HIDE DEF H
<1>3. IsFiniteSet(G) /\ q \notin G
  BY <1>1, <1>2, OneUseLess
<1>. HIDE DEF G
<1>4. ASSUME NEW m \in Uses!Molecule
      PROVE  Cardinality(Of(G \cup {q}, m)) = Cardinality(Of(H, m))
  <2>1. Cardinality(Of(H, m)) =
              IF p[2] = m THEN Cardinality(Of(G, m)) + 1 ELSE Cardinality(Of(G, m))
    BY <1>1, OneUseLess DEF G
  <2>2. Cardinality(Of(G \cup {q}, m)) =
              IF q[2] = m THEN Cardinality(Of(G, m)) + 1 ELSE Cardinality(Of(G, m))
    BY <1>3, OneMoreUse
  <2>. QED
    BY <2>1, <2>2
<1>5. IsFiniteSet(G \cup {q})
  BY <1>3, OneMoreUse
<1>6. Backed(t, G \cup {q})
  BY <1>1, <1>4, <1>5 DEF Backed
<1>7. G \cup {q} = ((X \ {p}) \cup {q}) \cup Uses!ElementUses(t)
  BY <1>2 DEF G, H
<1>. QED
  BY <1>6, <1>7 DEF Covers

\* A permanent molecule has a use for anybody.
LEMMA CoversPermanent ==
  ASSUME NEW t, NEW X, Covers(t, X), NEW p, Outer(p), t.count[p[2]] = Uses!Permanent
  PROVE  Covers(t, X \cup {p})
<1>1. CASE p \in X
  <2>1. X \cup {p} = X
    BY <1>1
  <2>. QED
    BY <2>1
<1>2. CASE p \notin X
  <2>. DEFINE H == X \cup Uses!ElementUses(t)
  <2>1. t \in Table /\ Backed(t, H) /\ IsFiniteSet(H) /\ p \notin H
    BY <1>2, ElementUsesAre, ElementUser DEF Covers, Backed
  <2>. HIDE DEF H
  <2>2. ASSUME NEW m \in Uses!Molecule
        PROVE  t.count[m] = Uses!Permanent \/ t.count[m] >= Cardinality(Of(H \cup {p}, m))
    <3>1. Cardinality(Of(H \cup {p}, m)) =
              IF p[2] = m THEN Cardinality(Of(H, m)) + 1 ELSE Cardinality(Of(H, m))
      BY <2>1, OneMoreUse
    <3>. QED
      BY <2>1, <3>1 DEF Backed
  <2>3. IsFiniteSet(H \cup {p})
    BY <2>1, OneMoreUse
  <2>4. Backed(t, H \cup {p})
    BY <2>2, <2>3 DEF Backed
  <2>5. H \cup {p} = (X \cup {p}) \cup Uses!ElementUses(t)
    BY DEF H
  <2>. QED
    BY <2>4, <2>5 DEF Covers
<1>. QED
  BY <1>1, <1>2

-----------------------------------------------------------------------------
(* Whatever the order of the calls, the table keeps its form.              *)

LEMMA LoopType ==
  ASSUME NEW t \in Table, NEW s \in Seq(Atom)
  PROVE  /\ Uses!FoldLeft(Uses!IncrUses, t, s) \in Table
         /\ Uses!FoldLeft(Uses!DecrOne, t, s) \in Table
         /\ Uses!FoldLeft(Uses!MakeMolecule, t, s) \in Table
         /\ Uses!FoldLeft(Uses!DecrUses, t, s) \in Table
<1>1. ASSUME NEW kind \in Kinds PROVE Fold(kind, t, s) \in Table
  <2>1. PICK h : Walks(h, kind, t, s)
    BY OneByOne
  <2>2. Len(s) \in 0 .. Len(s)
    OBVIOUS
  <2>. QED
    BY <2>1, <2>2 DEF Walks
<1>2. /\ Fold("incr", t, s) \in Table /\ Fold("decr", t, s) \in Table
      /\ Fold("make", t, s) \in Table /\ Fold("give up", t, s) \in Table
  BY <1>1 DEF Kinds
<1>3. Uses!FoldLeft(Uses!IncrUses, t, s) = Fold("incr", t, s)
  BY FoldsAre
<1>4. Uses!FoldLeft(Uses!DecrOne, t, s) = Fold("decr", t, s)
  BY FoldsAre
<1>5. Uses!FoldLeft(Uses!MakeMolecule, t, s) = Fold("make", t, s)
  BY FoldsAre
<1>6. Uses!FoldLeft(Uses!DecrUses, t, s) = Fold("give up", t, s)
  BY FoldsAre
<1>. QED
  BY <1>2, <1>3, <1>4, <1>5, <1>6

LEMMA TableKept ==
  ASSUME NEW t \in Table, NEW m \in Uses!Molecule
  PROVE  /\ Uses!IncrUses(t, m) \in Table
         /\ Uses!MakeMolecule(t, m) \in Table /\ Uses!DecrUses(t, m) \in Table
<1>1. Uses!IncrUses(t, m) \in Table /\ Uses!DecrOne(t, m) \in Table
  BY IncrIs, DecrIs
<1>2. [t EXCEPT !.count[m] = 1] \in Table
  BY Constants DEF Table
<1>3. ASSUME NEW b \in Table, NEW s, s = << >> \/ (m \in Uses!Compound /\ s = m)
      PROVE  Uses!FoldLeft(Uses!IncrUses, b, s) \in Table /\ Uses!FoldLeft(Uses!DecrOne, b, s) \in Table
  <2>1. CASE s = << >>
    <3>1. s \in Seq(Atom)
      BY <2>1
    <3>. QED
      BY <3>1, LoopType
  <2>2. CASE m \in Uses!Compound /\ s = m
    <3>1. m \in Seq(Atom)
      BY <2>2, CompoundIs
    <3>. QED
      BY <2>2, <3>1, LoopType
  <2>. QED
    BY <1>3, <2>1, <2>2
<1>4. Uses!MakeMolecule(t, m) \in Table
  BY <1>1, <1>2, <1>3 DEF Uses!MakeMolecule
<1>5. Uses!DecrUses(t, m) \in Table
  BY <1>1, <1>3 DEF Uses!DecrUses
<1>. QED
  BY <1>1, <1>4, <1>5

LEMMA CompoundMadeType ==
  ASSUME NEW t \in Table, NEW c \in Uses!Compound
  PROVE  Uses!MakeCompound(t, c) \in Table
<1>1. c \in Seq(Atom) /\ c \in Uses!Molecule
  BY CompoundIs, Constants
<1>2. Uses!FoldLeft(Uses!MakeMolecule, t, c) \in Table
  BY <1>1, LoopType
<1>3. Uses!MakeMolecule(Uses!FoldLeft(Uses!MakeMolecule, t, c), c) \in Table
  BY <1>1, <1>2, TableKept
<1>. QED
  BY <1>1, <1>3, LoopType DEF Uses!MakeCompound

-----------------------------------------------------------------------------
(* The uses a call has while it runs: of the atoms it has made, by their   *)
(* places, and of what it is about to assign.                              *)

Hand(s, k) == <<<<"hand", k>>, s[k]>>
Hands(s, n) == {Hand(s, k) : k \in 1 .. n}
\* The holders in X are of none of the kinds.
Lacks(X, kinds) == \A p \in X : p[1][1] \notin kinds

LEMMA HandsGrow ==
  ASSUME NEW s \in Seq(Atom), NEW k \in 1 .. Len(s), NEW X, Lacks(X, {"hand"})
  PROVE  /\ Hands(s, k) = Hands(s, k - 1) \cup {Hand(s, k)} /\ Hands(s, 0) = {}
         /\ Hand(s, k) \notin X \cup Hands(s, k - 1)
         /\ Outer(Hand(s, k)) /\ Hand(s, k)[2] = s[k] /\ s[k] \in Atom
<1>1. 1 .. k = (1 .. k - 1) \cup {k} /\ 1 .. 0 = {} /\ s[k] \in Atom
  OBVIOUS
<1>2. ASSUME NEW i \in 1 .. k - 1 PROVE Hand(s, i) # Hand(s, k)
  BY DEF Hand
<1>3. Hand(s, k) \notin X
  BY DEF Hand, Lacks
<1>4. Outer(Hand(s, k)) /\ Hand(s, k)[2] = s[k]
  BY <1>1, Constants DEF Outer, Hand
<1>. QED
  BY <1>1, <1>2, <1>3, <1>4 DEF Hands

LEMMA HandsMade ==
  ASSUME NEW t, NEW X, Covers(t, X), Lacks(X, {"hand"}), NEW s \in Seq(Atom),
         NEW u, u = Uses!FoldLeft(Uses!MakeMolecule, t, s)
  PROVE  Covers(u, X \cup Hands(s, Len(s)))
<1>. DEFINE n == Len(s)
<1>1. n \in Nat /\ t \in Table
  BY DEF Covers
<1>2. PICK h : Walks(h, "make", t, s)
  BY <1>1, OneByOne DEF Kinds
<1>3. h[n] = u
  <2>1. u = Fold("make", t, s)
    BY FoldsAre
  <2>. QED
    BY <1>2, <2>1 DEF Walks
<1>4. h[0] = t /\ \A k \in 1 .. n : h[k] = Uses!MakeMolecule(h[k - 1], s[k])
  BY <1>2 DEF Walks, Op
<1>. DEFINE G == {k \in 0 .. n : Covers(h[k], X \cup Hands(s, k))}
<1>. HIDE DEF n
<1>5. 0 \in G
  <2>1. X \cup Hands(s, 0) = X /\ 0 \in 0 .. n
    BY <1>1 DEF Hands
  <2>. QED
    BY <1>4, <2>1
<1>6. ASSUME NEW k \in 1 .. n, k - 1 \in G PROVE k \in G
  <2>. DEFINE p == Hand(s, k)
              K == X \cup Hands(s, k - 1)
              a == h[k - 1]
  <2>1. Covers(a, K)
    BY <1>6
  <2>2. /\ K \cup {p} = X \cup Hands(s, k) /\ p \notin K
        /\ Outer(p) /\ p[2] = s[k] /\ p[2] \notin Uses!Compound
    BY HandsGrow, Constants DEF n
  <2>3. h[k] = Uses!MakeMolecule(a, p[2])
    BY <1>4, <2>2
  <2>. HIDE DEF p, K, a
  <2>4. Covers(h[k], K \cup {p})
    BY <2>1, <2>2, <2>3, CoversMade
  <2>5. k \in 0 .. n /\ K \cup {p} = X \cup Hands(s, k)
    BY <1>1, <2>2
  <2>. QED
    BY <2>4, <2>5
<1>. HIDE DEF G
<1>7. n \in G
  <2>1. \A k \in 0 .. n : k \in G
    BY <1>1, <1>5, <1>6, Induct
  <2>. QED
    BY <1>1, <2>1
<1>. QED
  BY <1>3, <1>7 DEF G, n

LEMMA HandsGivenUp ==
  ASSUME NEW X, Lacks(X, {"hand"}), NEW s \in Seq(Atom),
         NEW t, Covers(t, X \cup Hands(s, Len(s))),
         NEW u, u = Uses!FoldLeft(Uses!DecrUses, t, s)
  PROVE  Covers(u, X)
<1>. DEFINE n == Len(s)
            Y == X \cup Hands(s, n)
<1>1. n \in Nat /\ t \in Table
  BY DEF Covers
<1>2. PICK h : Walks(h, "give up", t, s)
  BY <1>1, OneByOne DEF Kinds
<1>3. h[n] = u
  <2>1. u = Fold("give up", t, s)
    BY FoldsAre
  <2>. QED
    BY <1>2, <2>1 DEF Walks
<1>4. h[0] = t /\ \A k \in 1 .. n : h[k] = Uses!DecrUses(h[k - 1], s[k])
  BY <1>2 DEF Walks, Op
<1>. DEFINE G == {k \in 0 .. n : Covers(h[k], Y \ Hands(s, k))}
<1>5. 0 \in G
  <2>1. Y \ Hands(s, 0) = Y /\ 0 \in 0 .. n
    BY <1>1 DEF Hands
  <2>. QED
    BY <1>4, <2>1
<1>. HIDE DEF n
<1>6. ASSUME NEW k \in 1 .. n, k - 1 \in G PROVE k \in G
  <2>. DEFINE p == Hand(s, k)
              K == Y \ Hands(s, k - 1)
              a == h[k - 1]
  <2>1. Covers(a, K)
    BY <1>6
  <2>2. /\ K \ {p} = Y \ Hands(s, k) /\ p \in K /\ p[2] = s[k]
    <3>1. p \in Hands(s, n)
      BY DEF Hands
    <3>. QED
      BY <3>1, HandsGrow DEF n
  <2>3. h[k] = Uses!DecrUses(a, p[2])
    BY <1>4, <2>2
  <2>. HIDE DEF p, K, a, Y
  <2>4. Covers(h[k], K \ {p})
    BY <2>1, <2>2, <2>3, CoversGivenUp
  <2>5. k \in 0 .. n /\ K \ {p} = Y \ Hands(s, k)
    BY <1>1, <2>2
  <2>. QED
    BY <2>4, <2>5
<1>7. n \in G
  <2>. HIDE DEF G
  <2>1. \A k \in 0 .. n : k \in G
    BY <1>1, <1>5, <1>6, Induct
  <2>. QED
    BY <1>1, <2>1
<1>8. Y \ Hands(s, n) = X
  BY DEF Hands, Hand, Lacks
<1>. QED
  BY <1>3, <1>7, <1>8

LEMMA CompoundMade ==
  ASSUME NEW t, NEW X, Covers(t, X), Lacks(X, {"hand"}), NEW p, p \notin X, Outer(p),
         p[1][1] # "hand", p[2] \in Uses!Compound,
         NEW u, u = Uses!MakeCompound(t, p[2])
  PROVE  Covers(u, X \cup {p})
<1>. DEFINE c == p[2]
            parts == Uses!FoldLeft(Uses!MakeMolecule, t, c)
            whole == Uses!MakeMolecule(parts, c)
            Y == X \cup Hands(c, Len(c))
<1>1. c \in Seq(Atom)
  BY CompoundIs
<1>2. u = Uses!FoldLeft(Uses!DecrUses, whole, c)
  BY DEF Uses!MakeCompound
<1>3. Covers(parts, Y)
  BY <1>1, HandsMade
<1>4. p \notin Y
  BY DEF Hands, Hand
<1>5. \A k \in 1 .. Len(c) : parts.count[c[k]] > 0
  <2>. SUFFICES ASSUME NEW k \in 1 .. Len(c) PROVE parts.count[c[k]] > 0
    OBVIOUS
  <2>1. Hand(c, k) \in Y /\ Hand(c, k)[2] = c[k]
    BY DEF Hands, Hand
  <2>2. parts.count[Hand(c, k)[2]] > 0
    BY <1>3, <2>1, CoveredIsThere
  <2>. QED
    BY <2>1, <2>2
<1>. HIDE DEF parts, Y
<1>6. Covers(whole, Y \cup {p})
  BY <1>3, <1>4, <1>5, CoversMade
<1>7. Y \cup {p} = (X \cup {p}) \cup Hands(c, Len(c)) /\ Lacks(X \cup {p}, {"hand"})
  BY DEF Y, Lacks
<1>. DEFINE Z == X \cup {p}
<1>8. Covers(whole, Z \cup Hands(c, Len(c))) /\ Lacks(Z, {"hand"})
  BY <1>6, <1>7
<1>. HIDE DEF Z, whole
<1>9. Covers(u, Z)
  BY <1>1, <1>2, <1>8, HandsGivenUp
<1>. QED
  BY <1>9 DEF Z

\* rul__wm_set_offset_val: the holder h gets m in place of what it had.
LEMMA CoversAssigned ==
  ASSUME NEW t, NEW X, Covers(t, X), Lacks(X, {"assigner"}),
         NEW h, h[1] \notin {"assigner", "element"}, NEW old, <<h, old>> \in X,
         \A p \in X : p[1] = h => p = <<h, old>>,
         NEW m \in Uses!Molecule, t.count[m] > 0,
         NEW u, u = Uses!DecrUses(Uses!IncrUses(t, m), old)
  PROVE  Covers(u, (X \ {<<h, old>>}) \cup {<<h, m>>})
<1>. DEFINE p == <<h, old>>
            q == <<h, m>>
            a == <<<<"assigner">>, m>>
            v == Uses!IncrUses(t, m)
            Y == X \cup {a}
            Z == Y \ {p}
<1>1. Outer(a) /\ Outer(q) /\ a \notin X /\ a[2] = m /\ q[2] = m /\ p[2] = old
  BY DEF Outer, Lacks
<1>2. a # p /\ a # q /\ p \in Y /\ a[1] # h
  <2>1. a[1] # h
    <3>1. a[1][1] = "assigner"
      OBVIOUS
    <3>. QED
      BY <3>1
  <2>. QED
    BY <2>1
<1>3. q \notin Z /\ a \in Z
  BY <1>2
<1>4. (Z \ {a}) \cup {q} = (X \ {p}) \cup {q}
  BY <1>1, <1>2
<1>. HIDE DEF a, p, q, v
<1>5. Covers(v, Y)
  BY <1>1, CoversTaken DEF v
<1>. HIDE DEF Y
<1>6. Covers(u, Z)
  BY <1>1, <1>2, <1>5, CoversGivenUp DEF v
<1>. HIDE DEF Z
<1>7. Covers(u, (Z \ {a}) \cup {q})
  BY <1>1, <1>3, <1>6, CoversPassed
<1>. QED
  BY <1>4, <1>7 DEF p, q

-----------------------------------------------------------------------------
(* The users outside of the table.                                         *)

Objs == [Id -> Uses!Values \cup {Absent}]
Buffered == [atom : Atom \cup {NoValue}, comp : Uses!Compound \cup {NoValue}]
KindOf(a) == IF a = "atom" THEN Atom ELSE Uses!Compound
AttrUse(i, a, m) == <<<<"attribute", i, a>>, m>>
AttrUses(o) == {AttrUse(i, a, o[i][a]) : i \in {j \in Id : o[j] # Absent}, a \in Uses!Attr}
ProgUse(m) == <<<<"program">>, m>>
BufUse(m) == <<<<"buffer">>, m>>
Bufs(md, c) == IF md = NoId \/ c = NoValue THEN {} ELSE {BufUse(c)}
Others(g, md, c) == {ProgUse(m) : m \in g} \cup Bufs(md, c)
Held == AttrUses(called) \cup Others(given, modId, result["comp"])

LEMMA UsersAre ==
  Uses!AllUses = Held \cup Uses!ElementUses(table)
<1>1. Uses!AttributeUses = AttrUses(called)
  BY DEF Uses!AttributeUses, AttrUses, AttrUse, Uses!Live
<1>2. Uses!ProgramUses \cup Uses!BufferUses = Others(given, modId, result["comp"])
  <2>1. Uses!BufferUses = Bufs(modId, result["comp"])
    <3>1. (IF modId = NoId THEN {} ELSE {result["comp"]} \ {NoValue}) =
            IF modId = NoId \/ result["comp"] = NoValue THEN {} ELSE {result["comp"]}
      OBVIOUS
    <3>. QED
      BY <3>1 DEF Uses!BufferUses, Bufs, BufUse
  <2>. QED
    BY <2>1 DEF Uses!ProgramUses, Others, ProgUse
<1>. QED
  BY <1>1, <1>2 DEF Uses!AllUses, Held

LEMMA UserKinds ==
  ASSUME NEW o, NEW g, NEW md, NEW c
  PROVE  /\ \A p \in AttrUses(o) : p[1][1] = "attribute"
         /\ \A p \in Others(g, md, c) : p[1][1] \in {"program", "buffer"}
         /\ \A p \in AttrUses(o) \cup Others(g, md, c) :
              p[1][1] \notin {"hand", "assigner", "text"}
<1>1. ASSUME NEW p \in AttrUses(o) PROVE p[1][1] = "attribute"
  BY DEF AttrUses, AttrUse
<1>2. ASSUME NEW p \in Others(g, md, c) PROVE p[1][1] \in {"program", "buffer"}
  <2>1. CASE \E m \in g : p = ProgUse(m)
    BY <2>1 DEF ProgUse
  <2>2. CASE p = BufUse(c)
    BY <2>2 DEF BufUse
  <2>. QED
    BY <2>1, <2>2 DEF Others, Bufs
<1>. QED
  BY <1>1, <1>2

LEMMA ValueTypes ==
  ASSUME NEW o \in Objs, NEW i \in Id, o[i] # Absent
  PROVE  /\ o[i] \in Uses!Values /\ o[i]["atom"] \in Atom /\ o[i]["comp"] \in Uses!Compound
         /\ \A a \in Uses!Attr : o[i][a] \in KindOf(a) /\ o[i][a] \in Uses!Molecule
<1>1. o[i] \in Uses!Values
  BY DEF Objs
<1>2. o[i]["atom"] \in Atom /\ o[i]["comp"] \in Uses!Compound
  BY <1>1 DEF Uses!Values
<1>. QED
  BY <1>1, <1>2, Constants DEF Uses!Attr, KindOf

SetTo(w, v, a, m) ==
  /\ w \in Uses!Values /\ w # Absent /\ w[a] = m
  /\ \A b \in Uses!Attr : b # a => w[b] = v[b]

LEMMA ValueSet ==
  ASSUME NEW v \in Uses!Values, NEW a \in Uses!Attr, NEW m \in KindOf(a),
         NEW w, w = [v EXCEPT ![a] = m]
  PROVE  SetTo(w, v, a, m)
<1>1. CASE a = "atom"
  <2>1. w = [atom |-> m, comp |-> v["comp"]] /\ m \in Atom /\ v["comp"] \in Uses!Compound
    BY <1>1 DEF KindOf, Uses!Values
  <2>. QED
    BY <1>1, <2>1, Constants DEF Uses!Values, Uses!Attr, SetTo
<1>2. CASE a = "comp"
  <2>1. w = [atom |-> v["atom"], comp |-> m] /\ m \in Uses!Compound /\ v["atom"] \in Atom
    BY <1>2 DEF KindOf, Uses!Values
  <2>. QED
    BY <1>2, <2>1, Constants DEF Uses!Values, Uses!Attr, SetTo
<1>. QED
  BY <1>1, <1>2 DEF Uses!Attr

\* An attribute is set: of its users only that one is another.
Changed(w, o, i, a, m) ==
  /\ w \in Objs /\ \A j \in Id : w[j] # Absent <=> o[j] # Absent
  /\ AttrUse(i, a, o[i][a]) \in AttrUses(o)
  /\ \A p \in AttrUses(o) : p[1] = <<"attribute", i, a>> => p = AttrUse(i, a, o[i][a])
  /\ AttrUses(w) = (AttrUses(o) \ {AttrUse(i, a, o[i][a])}) \cup {AttrUse(i, a, m)}

LEMMA AttributeSet ==
  ASSUME NEW o \in Objs, NEW i \in Id, o[i] # Absent, NEW a \in Uses!Attr, NEW m \in KindOf(a),
         NEW w, w = [o EXCEPT ![i] = [o[i] EXCEPT ![a] = m]]
  PROVE  Changed(w, o, i, a, m)
<1>1. /\ w[i] \in Uses!Values /\ w[i] # Absent /\ w[i][a] = m
      /\ \A b \in Uses!Attr : b # a => w[i][b] = o[i][b]
  <2>. DEFINE v == o[i]
              y == w[i]
  <2>1. v \in Uses!Values /\ y = [v EXCEPT ![a] = m]
    BY ValueTypes DEF Objs
  <2>. HIDE DEF v, y
  <2>2. SetTo(y, v, a, m)
    BY <2>1, ValueSet
  <2>. QED
    BY <2>2 DEF v, y, SetTo
<1>2. w \in Objs /\ \A j \in Id : j # i => w[j] = o[j]
  BY <1>1 DEF Objs
<1>3. \A j \in Id : w[j] # Absent <=> o[j] # Absent
  BY <1>1, <1>2
<1>4. ASSUME NEW p
      PROVE  p \in AttrUses(o) <=>
               \E j \in Id, b \in Uses!Attr : o[j] # Absent /\ p = AttrUse(j, b, o[j][b])
  BY DEF AttrUses
<1>5. ASSUME NEW p
      PROVE  p \in AttrUses(w) <=>
               \E j \in Id, b \in Uses!Attr : w[j] # Absent /\ p = AttrUse(j, b, w[j][b])
  BY DEF AttrUses
<1>6. \A j, b, x, k, d, y : AttrUse(j, b, x) = AttrUse(k, d, y) <=> j = k /\ b = d /\ x = y
  BY DEF AttrUse
<1>7. AttrUse(i, a, o[i][a]) \in AttrUses(o)
  BY <1>4
<1>8. \A p \in AttrUses(o) : p[1] = <<"attribute", i, a>> => p = AttrUse(i, a, o[i][a])
  <2>. SUFFICES ASSUME NEW p \in AttrUses(o), p[1] = <<"attribute", i, a>>
                PROVE  p = AttrUse(i, a, o[i][a])
    OBVIOUS
  <2>1. PICK j \in Id, b \in Uses!Attr : p = AttrUse(j, b, o[j][b])
    BY <1>4
  <2>2. j = i /\ b = a
    BY <2>1 DEF AttrUse
  <2>. QED
    BY <2>1, <2>2
<1>9. ASSUME NEW p
      PROVE  p \in AttrUses(w) <=>
               p \in (AttrUses(o) \ {AttrUse(i, a, o[i][a])}) \cup {AttrUse(i, a, m)}
  <2>1. ASSUME p \in AttrUses(w)
        PROVE  p \in (AttrUses(o) \ {AttrUse(i, a, o[i][a])}) \cup {AttrUse(i, a, m)}
    <3>1. PICK j \in Id, b \in Uses!Attr : w[j] # Absent /\ p = AttrUse(j, b, w[j][b])
      BY <1>5, <2>1
    <3>2. CASE j = i /\ b = a
      BY <1>1, <3>1, <3>2
    <3>3. CASE ~(j = i /\ b = a)
      <4>1. w[j][b] = o[j][b] /\ o[j] # Absent
        BY <1>1, <1>2, <1>3, <3>1, <3>3
      <4>. QED
        BY <1>4, <1>6, <3>1, <3>3, <4>1
    <3>. QED
      BY <3>2, <3>3
  <2>2. ASSUME p \in AttrUses(o), p # AttrUse(i, a, o[i][a]) PROVE p \in AttrUses(w)
    <3>1. PICK j \in Id, b \in Uses!Attr : o[j] # Absent /\ p = AttrUse(j, b, o[j][b])
      BY <1>4, <2>2
    <3>2. ~(j = i /\ b = a)
      BY <2>2, <3>1
    <3>3. w[j][b] = o[j][b] /\ w[j] # Absent
      BY <1>1, <1>2, <1>3, <3>1, <3>2
    <3>. QED
      BY <1>5, <3>1, <3>3
  <2>3. AttrUse(i, a, m) \in AttrUses(w)
    BY <1>1, <1>5
  <2>. QED
    BY <2>1, <2>2, <2>3
<1>. QED
  BY <1>2, <1>3, <1>7, <1>8, <1>9 DEF Changed

\* An object that comes or goes has the users of its two attributes.
Comes(w, o, i, v) ==
  /\ w \in Objs /\ w[i] = v /\ v # Absent
  /\ AttrUses(w) =
       (AttrUses(o) \cup {AttrUse(i, "atom", v["atom"])}) \cup {AttrUse(i, "comp", v["comp"])}
  /\ AttrUse(i, "atom", v["atom"]) \notin AttrUses(o)
  /\ AttrUse(i, "comp", v["comp"]) \notin AttrUses(o)

LEMMA ObjectUses ==
  ASSUME NEW o \in Objs, NEW i \in Id, o[i] = Absent, NEW v \in Uses!Values,
         NEW w, w = [o EXCEPT ![i] = v]
  PROVE  Comes(w, o, i, v)
<1>1. w \in Objs /\ w[i] = v /\ v # Absent /\ \A j \in Id : j # i => w[j] = o[j]
  BY Constants DEF Objs
<1>2. ASSUME NEW p
      PROVE  p \in AttrUses(o) <=>
               \E j \in Id, b \in Uses!Attr : o[j] # Absent /\ p = AttrUse(j, b, o[j][b])
  BY DEF AttrUses
<1>3. ASSUME NEW p
      PROVE  p \in AttrUses(w) <=>
               \E j \in Id, b \in Uses!Attr : w[j] # Absent /\ p = AttrUse(j, b, w[j][b])
  BY DEF AttrUses
<1>4. \A j, b, x, k, d, y : AttrUse(j, b, x) = AttrUse(k, d, y) <=> j = k /\ b = d /\ x = y
  BY DEF AttrUse
<1>5. ASSUME NEW b, NEW x PROVE AttrUse(i, b, x) \notin AttrUses(o)
  BY <1>2, <1>4
<1>6. ASSUME NEW p \in AttrUses(w)
      PROVE  p \in (AttrUses(o) \cup {AttrUse(i, "atom", v["atom"])})
                     \cup {AttrUse(i, "comp", v["comp"])}
  <2>1. PICK j \in Id, b \in Uses!Attr : w[j] # Absent /\ p = AttrUse(j, b, w[j][b])
    BY <1>3
  <2>2. CASE j = i
    BY <1>1, <2>1, <2>2 DEF Uses!Attr
  <2>3. CASE j # i
    BY <1>1, <1>2, <2>1, <2>3
  <2>. QED
    BY <2>2, <2>3
<1>7. ASSUME NEW p \in AttrUses(o) PROVE p \in AttrUses(w)
  <2>1. PICK j \in Id, b \in Uses!Attr : o[j] # Absent /\ p = AttrUse(j, b, o[j][b])
    BY <1>2
  <2>. QED
    BY <1>1, <1>3, <2>1
<1>8. AttrUse(i, "atom", v["atom"]) \in AttrUses(w) /\ AttrUse(i, "comp", v["comp"]) \in AttrUses(w)
  <2>1. "atom" \in Uses!Attr /\ "comp" \in Uses!Attr
    BY DEF Uses!Attr
  <2>. QED
    BY <1>1, <1>3, <2>1
<1>. QED
  BY <1>1, <1>5, <1>6, <1>7, <1>8 DEF Comes

Assigned(u, t, o, i, a, m) == u = Uses!DecrUses(Uses!IncrUses(t, m), o[i][a])

\* An attribute gets a molecule that is there.
LEMMA AttributeCovered ==
  ASSUME NEW o \in Objs, NEW i \in Id, o[i] # Absent, NEW a \in Uses!Attr, NEW m \in KindOf(a),
         NEW R, Lacks(R, {"attribute", "assigner"}),
         NEW t, Covers(t, AttrUses(o) \cup R), t.count[m] > 0,
         NEW u, Assigned(u, t, o, i, a, m), NEW w, Changed(w, o, i, a, m)
  PROVE  Covers(u, AttrUses(w) \cup R)
<1>. DEFINE h == <<"attribute", i, a>>
            old == o[i][a]
            X == AttrUses(o) \cup R
<1>1. Changed(w, o, i, a, m)
  OBVIOUS
<1>2. AttrUse(i, a, old) = <<h, old>> /\ AttrUse(i, a, m) = <<h, m>>
  BY DEF AttrUse
<1>3. <<h, old>> \in AttrUses(o) /\ \A p \in AttrUses(o) : p[1] = h => p = <<h, old>>
  BY <1>1, <1>2 DEF Changed
<1>4. <<h, old>> \notin R /\ \A p \in R : p[1] # h
  BY DEF Lacks
<1>5. Lacks(X, {"assigner"}) /\ <<h, old>> \in X /\ \A p \in X : p[1] = h => p = <<h, old>>
  BY <1>3, <1>4, UserKinds DEF Lacks
<1>6. m \in Uses!Molecule
  BY Constants DEF KindOf
<1>7. h[1] \notin {"assigner", "element"}
  OBVIOUS
<1>8. (X \ {<<h, old>>}) \cup {<<h, m>>} = AttrUses(w) \cup R
  BY <1>1, <1>2, <1>4 DEF Changed
<1>9. Covers(t, X) /\ u = Uses!DecrUses(Uses!IncrUses(t, m), old)
  BY DEF Assigned
<1>. HIDE DEF h, old, X
<1>10. Covers(u, (X \ {<<h, old>>}) \cup {<<h, m>>})
  BY <1>5, <1>6, <1>7, <1>9, CoversAssigned
<1>. QED
  BY <1>8, <1>10

LEMMA AssignIs ==
  ASSUME NEW t \in Table, NEW v \in Uses!Values, NEW a \in Uses!Attr, NEW m \in KindOf(a),
         NEW s, s = Uses!Assign([table |-> t, vals |-> v], a, m)
  PROVE  /\ s = [table |-> s.table, vals |-> s.vals]
         /\ s.table = Uses!DecrUses(Uses!IncrUses(t, m), v[a]) /\ s.table \in Table
         /\ s.vals = [v EXCEPT ![a] = m] /\ s.vals \in Uses!Values
<1>1. /\ s = [table |-> s.table, vals |-> s.vals]
      /\ s.table = Uses!DecrUses(Uses!IncrUses(t, m), v[a]) /\ s.vals = [v EXCEPT ![a] = m]
  BY DEF Uses!Assign
<1>2. m \in Uses!Molecule /\ v[a] \in Uses!Molecule
  BY Constants DEF KindOf, Uses!Values, Uses!Attr
<1>3. s.table \in Table
  BY <1>1, <1>2, TableKept
<1>4. SetTo(s.vals, v, a, m)
  BY <1>1, ValueSet
<1>. QED
  BY <1>1, <1>3, <1>4 DEF SetTo

\* What SetBuffered makes of a table t and the values v of an object.
BufferSet(s, t, v, r, a) ==
  /\ s = [table |-> s.table, vals |-> s.vals] /\ s.table \in Table /\ s.vals \in Uses!Values
  /\ IF r[a] = NoValue THEN s.table = t /\ s.vals = v
     ELSE /\ s.table = Uses!DecrUses(Uses!DecrUses(Uses!IncrUses(t, r[a]), v[a]), r[a])
          /\ s.vals = [v EXCEPT ![a] = r[a]]

LEMMA BufferSets ==
  ASSUME NEW t \in Table, NEW v \in Uses!Values, NEW r \in Buffered, NEW a \in Uses!Attr,
         NEW s, s = Uses!SetBuffered([table |-> t, vals |-> v], r, a)
  PROVE  BufferSet(s, t, v, r, a)
<1>1. CASE r[a] = NoValue
  BY <1>1 DEF Uses!SetBuffered, BufferSet
<1>2. CASE r[a] # NoValue
  <2>. DEFINE m == r[a]
              q == Uses!Assign([table |-> t, vals |-> v], a, m)
  <2>1. m \in KindOf(a) /\ m \in Uses!Molecule
    BY <1>2, Constants DEF Buffered, KindOf, Uses!Attr
  <2>2. s = [q EXCEPT !.table = Uses!DecrUses(@, m)]
    BY <1>2 DEF Uses!SetBuffered
  <2>. HIDE DEF q
  <2>3. /\ q = [table |-> q.table, vals |-> q.vals]
        /\ q.table = Uses!DecrUses(Uses!IncrUses(t, m), v[a]) /\ q.table \in Table
        /\ q.vals = [v EXCEPT ![a] = m] /\ q.vals \in Uses!Values
    BY <2>1, AssignIs DEF q
  <2>4. s.table = Uses!DecrUses(q.table, m) /\ s.vals = q.vals /\ s = [table |-> s.table, vals |-> s.vals]
    BY <2>2, <2>3
  <2>5. s.table \in Table
    BY <2>1, <2>3, <2>4, TableKept
  <2>. QED
    BY <1>2, <2>3, <2>4, <2>5 DEF BufferSet
<1>. QED
  BY <1>1, <1>2

\* The values of an object whose attributes are set from a buffer.
Overlaid(w, v, r) == w = [a \in Uses!Attr |-> IF r[a] = NoValue THEN v[a] ELSE r[a]]

LEMMA BothSet ==
  ASSUME NEW t \in Table, NEW v \in Uses!Values, NEW r \in Buffered,
         NEW s, s = Uses!SetBoth([table |-> t, vals |-> v], r)
  PROVE  /\ s.table \in Table /\ s.vals \in Uses!Values /\ Overlaid(s.vals, v, r)
         /\ \E q : BufferSet(q, t, v, r, "atom") /\ BufferSet(s, q.table, q.vals, r, "comp")
<1>. DEFINE q == Uses!SetBuffered([table |-> t, vals |-> v], r, "atom")
<1>1. "atom" \in Uses!Attr /\ "comp" \in Uses!Attr
  BY DEF Uses!Attr
<1>2. BufferSet(q, t, v, r, "atom")
  BY <1>1, BufferSets
<1>3. s = Uses!SetBuffered(q, r, "comp")
  BY DEF Uses!SetBoth
<1>. HIDE DEF q
<1>4. s = Uses!SetBuffered([table |-> q.table, vals |-> q.vals], r, "comp")
  BY <1>2, <1>3 DEF BufferSet
<1>5. BufferSet(s, q.table, q.vals, r, "comp")
  <2>1. q.table \in Table /\ q.vals \in Uses!Values
    BY <1>2 DEF BufferSet
  <2>. QED
    BY <1>1, <1>4, <2>1, BufferSets
<1>7. /\ s.vals["atom"] = IF r["atom"] = NoValue THEN v["atom"] ELSE r["atom"]
      /\ s.vals["comp"] = IF r["comp"] = NoValue THEN v["comp"] ELSE r["comp"]
  BY <1>1, <1>2, <1>5 DEF BufferSet, Uses!Values
<1>8. s.vals \in Uses!Values /\ s.table \in Table
  BY <1>5 DEF BufferSet
<1>9. Overlaid(s.vals, v, r)
  <2>1. s.vals = [a \in Uses!Attr |-> s.vals[a]]
    BY <1>8 DEF Uses!Values, Uses!Attr
  <2>2. \A a \in Uses!Attr : s.vals[a] = IF r[a] = NoValue THEN v[a] ELSE r[a]
    BY <1>7 DEF Uses!Attr
  <2>. QED
    BY <2>1, <2>2 DEF Overlaid
<1>. QED
  BY <1>2, <1>5, <1>8, <1>9

\* The user with the name h of a value in a buffer, if there is one.
HeldBy(h, r, a) == IF r[a] = NoValue THEN {} ELSE {<<h, r[a]>>}
\* A name for one who is no attribute and not in X.
Name(h, X) == h[1] \notin {"attribute", "assigner", "element"} /\ \A p \in X : p[1] # h

\* The object i of o gets the values of s: there is cover for them and for G.
Gets(w, o, i, s) == w = [o EXCEPT ![i] = s.vals]
Passed(w, i, s, G) ==
  Covers(s.table, AttrUses(w) \cup G) /\ w \in Objs /\ w[i] = s.vals /\ w[i] # Absent

\* The use h has of a value in a buffer becomes that of the attribute.
LEMMA UsePassed ==
  ASSUME NEW o \in Objs, NEW i \in Id, o[i] # Absent, NEW a \in Uses!Attr,
         NEW r \in Buffered, NEW G, Lacks(G, {"attribute", "assigner"}), NEW h, Name(h, G),
         NEW t, Covers(t, (AttrUses(o) \cup G) \cup HeldBy(h, r, a)),
         NEW s, BufferSet(s, t, o[i], r, a), NEW w, Gets(w, o, i, s)
  PROVE  Passed(w, i, s, G)
<1>0. w \in Objs /\ w[i] = s.vals /\ w[i] # Absent
  BY Constants DEF Objs, BufferSet, Gets
<1>1. CASE r[a] = NoValue
  <2>1. s.table = t /\ s.vals = o[i]
    BY <1>1 DEF BufferSet
  <2>2. w = o
    BY <2>1 DEF Objs, Gets
  <2>3. (AttrUses(o) \cup G) \cup HeldBy(h, r, a) = AttrUses(w) \cup G
    BY <1>1, <2>2 DEF HeldBy
  <2>. QED
    BY <1>0, <2>1, <2>3 DEF Passed
<1>2. CASE r[a] # NoValue
  <2>. DEFINE m == r[a]
              p == <<h, m>>
              R == G \cup {p}
              v == Uses!DecrUses(Uses!IncrUses(t, m), o[i][a])
              X == AttrUses(w) \cup R
  <2>1. m \in KindOf(a)
    BY <1>2 DEF Buffered, KindOf, Uses!Attr
  <2>2. s.table = Uses!DecrUses(v, m) /\ s.vals = [o[i] EXCEPT ![a] = m]
    BY <1>2 DEF BufferSet
  <2>3. p[1] = h /\ p[2] = m
    OBVIOUS
  <2>4. (AttrUses(o) \cup G) \cup HeldBy(h, r, a) = AttrUses(o) \cup R /\ p \in AttrUses(o) \cup R
    BY <1>2 DEF HeldBy
  <2>5. Assigned(v, t, o, i, a, m) /\ Changed(w, o, i, a, m)
    <3>1. w = [o EXCEPT ![i] = [o[i] EXCEPT ![a] = m]]
      BY <2>2 DEF Gets
    <3>. QED
      BY <2>1, <3>1, AttributeSet DEF Assigned
  <2>. HIDE DEF p, v
  <2>6. Lacks(R, {"attribute", "assigner"}) /\ p \notin AttrUses(w) \cup G
    BY <2>3, UserKinds DEF Lacks, Name
  <2>7. X \ {p} = AttrUses(w) \cup G /\ p \in X
    BY <2>6
  <2>. HIDE DEF m, R
  <2>8. Covers(t, AttrUses(o) \cup R)
    BY <2>4 DEF m
  <2>9. t.count[p[2]] > 0
    BY <2>4, <2>8, CoveredIsThere
  <2>10. Covers(v, AttrUses(w) \cup R)
    BY <2>1, <2>3, <2>5, <2>6, <2>8, <2>9, AttributeCovered
  <2>11. Covers(v, X)
    BY <2>10
  <2>. HIDE DEF X
  <2>12. Covers(s.table, X \ {p})
    BY <2>2, <2>3, <2>7, <2>11, CoversGivenUp
  <2>. QED
    BY <1>0, <2>7, <2>12 DEF Passed
<1>. QED
  BY <1>1, <1>2

LEMMA BothPassed ==
  ASSUME NEW o \in Objs, NEW i \in Id, o[i] # Absent, NEW r \in Buffered,
         NEW G, Lacks(G, {"attribute", "assigner"}),
         NEW h, Name(h, G), NEW k, Name(k, G), h # k,
         NEW t, Covers(t, (AttrUses(o) \cup (G \cup HeldBy(k, r, "comp"))) \cup HeldBy(h, r, "atom")),
         NEW s, s = Uses!SetBoth([table |-> t, vals |-> o[i]], r),
         NEW w, Gets(w, o, i, s)
  PROVE  Passed(w, i, s, G)
<1>. DEFINE K == G \cup HeldBy(k, r, "comp")
<1>1. t \in Table /\ o[i] \in Uses!Values /\ "atom" \in Uses!Attr /\ "comp" \in Uses!Attr
  BY ValueTypes DEF Covers, Uses!Attr
<1>2. PICK q : BufferSet(q, t, o[i], r, "atom") /\ BufferSet(s, q.table, q.vals, r, "comp")
  BY <1>1, BothSet
<1>. DEFINE y == [o EXCEPT ![i] = q.vals]
<1>3. Lacks(K, {"attribute", "assigner"}) /\ Name(h, K)
  BY DEF Lacks, Name, HeldBy
<1>4. Covers(t, (AttrUses(o) \cup K) \cup HeldBy(h, r, "atom"))
  OBVIOUS
<1>5. Gets(w, y, i, s) /\ Gets(y, o, i, q)
  BY DEF Objs, Gets
<1>. HIDE DEF K, y
<1>6. Passed(y, i, q, K)
  BY <1>1, <1>2, <1>3, <1>4, <1>5, UsePassed
<1>7. Covers(q.table, (AttrUses(y) \cup G) \cup HeldBy(k, r, "comp"))
  <2>1. (AttrUses(y) \cup G) \cup HeldBy(k, r, "comp") = AttrUses(y) \cup K
    BY DEF K
  <2>. QED
    BY <1>6, <2>1 DEF Passed
<1>8. BufferSet(s, q.table, y[i], r, "comp") /\ y \in Objs /\ y[i] # Absent
  BY <1>2, <1>6 DEF Passed
<1>. QED
  BY <1>1, <1>5, <1>7, <1>8, UsePassed

-----------------------------------------------------------------------------
(* The end of a setter.                                                    *)

LEMMA NoHands ==
  ASSUME NEW t, NEW X, Covers(t, X)
  PROVE  Covers(t, X \cup Hands(<< >>, Len(<< >>))) /\ << >> \in Seq(Atom)
<1>1. Hands(<< >>, Len(<< >>)) = {}
  BY DEF Hands
<1>2. X \cup Hands(<< >>, Len(<< >>)) = X
  BY <1>1
<1>3. Covers(t, X \cup Hands(<< >>, Len(<< >>)))
  BY <1>2, Zenon
<1>4. << >> \in Seq(Atom)
  OBVIOUS
<1>. QED
  BY <1>3, <1>4, Zenon

LEMMA HandMade ==
  ASSUME NEW t, NEW X, Covers(t, X), Lacks(X, {"hand"}), NEW x \in Atom,
         NEW u, u = Uses!MakeMolecule(t, x)
  PROVE  /\ Covers(u, X \cup Hands(<<x>>, Len(<<x>>))) /\ <<x>> \in Seq(Atom)
         /\ u.count[x] > 0
<1>. DEFINE p == Hand(<<x>>, 1)
<1>1. Hands(<<x>>, Len(<<x>>)) = {p}
  BY DEF Hands
<1>2. p = <<<<"hand", 1>>, x>> /\ p[2] = x /\ p[1][1] = "hand"
  BY DEF Hand
<1>3. p \notin X /\ Outer(p) /\ p[2] \notin Uses!Compound
  BY <1>2, Constants DEF Lacks, Outer
<1>. HIDE DEF p
<1>4. Covers(u, X \cup {p})
  BY <1>2, <1>3, CoversMade
<1>5. u.count[p[2]] > 0
  BY <1>4, CoveredIsThere
<1>. QED
  BY <1>1, <1>2, <1>4, <1>5

LEMMA StoreDirect ==
  ASSUME called \in Objs, NEW i \in Id, called[i] # Absent, i # modId,
         NEW a \in Uses!Attr, NEW m \in KindOf(a), NEW t, NEW drops \in Seq(Atom),
         Covers(t, Held \cup Hands(drops, Len(drops))), t.count[m] > 0,
         Uses!Store(i, a, m, t, drops)
  PROVE  Covers(table', Held')
<1>. DEFINE now == Uses!Assign([table |-> t, vals |-> called[i]], a, m)
            R == Others(given, modId, result["comp"]) \cup Hands(drops, Len(drops))
            X == AttrUses(called') \cup Others(given, modId, result["comp"])
<1>1. /\ now.table = Uses!DecrUses(Uses!IncrUses(t, m), called[i][a])
      /\ now.vals = [called[i] EXCEPT ![a] = m]
  BY DEF Uses!Assign
<1>2. /\ table' = Uses!FoldLeft(Uses!DecrUses, now.table, drops)
      /\ called' = [called EXCEPT ![i] = now.vals]
      /\ UNCHANGED <<result, given, modId>>
  BY DEF Uses!Store
<1>. HIDE DEF now
<1>3. Changed(called', called, i, a, m) /\ Assigned(now.table, t, called, i, a, m)
  <2>1. called' = [called EXCEPT ![i] = [called[i] EXCEPT ![a] = m]]
    BY <1>1, <1>2
  <2>. QED
    BY <1>1, <2>1, AttributeSet DEF Assigned
<1>4. Lacks(R, {"attribute", "assigner"}) /\ Lacks(X, {"hand"})
  BY UserKinds DEF Lacks, Hands, Hand
<1>5. Covers(t, AttrUses(called) \cup R)
  <2>1. AttrUses(called) \cup R = Held \cup Hands(drops, Len(drops))
    BY DEF Held
  <2>. QED
    BY <2>1
<1>6. X \cup Hands(drops, Len(drops)) = AttrUses(called') \cup R
  OBVIOUS
<1>7. Held' = X
  BY <1>2 DEF Held
<1>. HIDE DEF R, X
<1>8. Covers(now.table, AttrUses(called') \cup R)
  BY <1>3, <1>4, <1>5, AttributeCovered
<1>9. Covers(now.table, X \cup Hands(drops, Len(drops)))
  BY <1>6, <1>8
<1>10. Covers(table', X)
  BY <1>2, <1>4, <1>9, HandsGivenUp
<1>. QED
  BY <1>7, <1>10

Unbuffered == AttrUses(called) \cup {ProgUse(m) : m \in given}

LEMMA StoreBuffered ==
  ASSUME result \in Buffered, modId \in Id,
         NEW m \in Uses!Compound, NEW t, NEW drops \in Seq(Atom),
         Covers(t, (Unbuffered \cup {BufUse(m)}) \cup Hands(drops, Len(drops))),
         Uses!Store(modId, "comp", m, t, drops)
  PROVE  Covers(table', Held')
<1>. DEFINE X == Unbuffered \cup {BufUse(m)}
<1>1. /\ table' = Uses!FoldLeft(Uses!DecrUses, t, drops)
      /\ result'["comp"] = m /\ UNCHANGED <<called, given, modId>>
  BY DEF Uses!Store, Buffered
<1>2. Held' = X
  BY <1>1, Constants DEF Held, Others, Bufs, Unbuffered
<1>3. Lacks(X, {"hand"})
  BY UserKinds DEF Lacks, Unbuffered, BufUse, ProgUse
<1>. HIDE DEF X
<1>4. Covers(table', X)
  <2>1. Covers(t, X \cup Hands(drops, Len(drops)))
    BY DEF X
  <2>. QED
    BY <1>1, <1>3, <2>1, HandsGivenUp
<1>. QED
  BY <1>2, <1>4

\* A holder for the time of a call.
Text(a, m) == <<<<"text", a>>, m>>

LEMMA HeldLacks ==
  /\ Lacks(Held, {"hand", "assigner", "text"})
  /\ Unbuffered \subseteq Held /\ Lacks(Unbuffered, {"hand", "assigner", "text", "buffer"})
<1>1. Lacks(Held, {"hand", "assigner", "text"})
  BY UserKinds DEF Lacks, Held
<1>2. Unbuffered \subseteq Held
  BY DEF Unbuffered, Held, Others
<1>3. Lacks(Unbuffered, {"hand", "assigner", "text", "buffer"})
  BY UserKinds DEF Lacks, Unbuffered, ProgUse
<1>. QED
  BY <1>1, <1>2, <1>3

LEMMA UsedHere ==
  ASSUME NEW t, NEW X, Covers(t, X), Held \subseteq X
  PROVE  /\ \A x \in given : x \in Uses!Molecule /\ t.count[x] > 0
         /\ \A i \in Id, a \in Uses!Attr : called[i] # Absent => t.count[called[i][a]] > 0
         /\ modId # NoId /\ result["comp"] # NoValue => t.count[result["comp"]] > 0
<1>1. \A p \in Held : p[2] \in Uses!Molecule /\ t.count[p[2]] > 0
  BY CoveredIsThere
<1>2. ASSUME NEW x \in given PROVE x \in Uses!Molecule /\ t.count[x] > 0
  <2>1. ProgUse(x) \in Held /\ ProgUse(x)[2] = x
    BY DEF Held, Others, ProgUse
  <2>. QED
    BY <1>1, <2>1
<1>3. ASSUME NEW i \in Id, NEW a \in Uses!Attr, called[i] # Absent
      PROVE  t.count[called[i][a]] > 0
  <2>1. AttrUse(i, a, called[i][a]) \in Held
    BY <1>3 DEF Held, AttrUses
  <2>2. AttrUse(i, a, called[i][a])[2] = called[i][a]
    BY DEF AttrUse
  <2>. QED
    BY <1>1, <2>1, <2>2
<1>4. ASSUME modId # NoId, result["comp"] # NoValue PROVE t.count[result["comp"]] > 0
  <2>1. BufUse(result["comp"]) \in Held
    BY <1>4 DEF Held, Others, Bufs
  <2>2. BufUse(result["comp"])[2] = result["comp"]
    BY DEF BufUse
  <2>. QED
    BY <1>1, <2>1, <2>2
<1>. QED
  BY <1>2, <1>3, <1>4

-----------------------------------------------------------------------------
(* The invariant.                                                          *)

Typed ==
  /\ table \in Table /\ called \in Objs /\ result \in Buffered /\ asked \in Buffered
  /\ given \subseteq Uses!Molecule /\ made \subseteq Id /\ modId \in made \cup {NoId}
  /\ modObj \in BOOLEAN /\ status \in BOOLEAN /\ risks \subseteq Uses!Risk
  /\ \A i \in Id : called[i] # Absent => i \in made
Tracks ==
  /\ "made inside" \notin risks => asked = result
  /\ modId = NoId => asked = Uses!Nothing
Sound ==
  /\ Covers(table, Held)
  /\ modId # NoId => result["atom"] = NoValue
  /\ modId # NoId /\ called[modId] # Absent => modObj
CallOK == Typed /\ Tracks /\ (risks = {} => Sound)

LEMMA TypedHere ==
  ASSUME Typed
  PROVE  /\ table \in Table /\ called \in Objs /\ result \in Buffered /\ asked \in Buffered
         /\ modId # NoId => modId \in Id /\ modId \in made
BY DEF Typed

LEMMA NthType ==
  ASSUME NEW c \in Uses!Compound, NEW n \in 1 .. MaxElements, NEW x \in Atom,
         NEW d, d = Uses!SetNth(c, n, x)
  PROVE  /\ d \in Uses!Compound
         /\ \A k \in 1 .. Len(d) : d[k] \in {x, Nil} \/ (k \in 1 .. Len(c) /\ d[k] = c[k])
<1>1. c \in Seq(Atom) /\ Len(c) \in Nat /\ Len(c) <= MaxElements /\ MaxElements \in Nat /\ Nil \in Atom
  BY CompoundIs, Constants
<1>. DEFINE l == IF n > Len(c) THEN n ELSE Len(c)
<1>2. l \in 0 .. MaxElements
  BY <1>1
<1>3. d = [i \in 1 .. l |-> IF i = n THEN x ELSE IF i <= Len(c) THEN c[i] ELSE Nil]
  BY DEF Uses!SetNth
<1>. HIDE DEF l
<1>4. \A i \in 1 .. l : IF i = n THEN d[i] = x
                        ELSE IF i <= Len(c) THEN i \in 1 .. Len(c) /\ d[i] = c[i] ELSE d[i] = Nil
  BY <1>2, <1>3
<1>5. d \in [1 .. l -> Atom]
  <2>1. \A i \in 1 .. l : d[i] \in Atom
    BY <1>1, <1>4
  <2>. QED
    BY <1>3, <2>1
<1>6. d \in Uses!Compound
  BY <1>2, <1>5 DEF Uses!Compound
<1>7. Len(d) = l
  <2>1. l \in Nat
    BY <1>2
  <2>. QED
    BY <1>5, <2>1, IntervalSeq
<1>. QED
  BY <1>4, <1>6, <1>7

LEMMA OldIs ==
  ASSUME Typed, NEW i \in Id, called[i] # Absent
  PROVE  Uses!OldCompound(i) \in Uses!Compound
<1>1. called[i]["comp"] \in Uses!Compound
  BY ValueTypes, TypedHere
<1>2. result["comp"] # NoValue => result["comp"] \in Uses!Compound
  BY TypedHere DEF Buffered
<1>. QED
  BY <1>1, <1>2 DEF Uses!OldCompound

\* An element of a compound attribute is set.
LEMMA ElementSet ==
  ASSUME Typed, Sound, NEW i \in Id, called[i] # Absent,
         NEW n \in 1 .. MaxElements, NEW x \in Atom, NEW t, NEW drops \in Seq(Atom),
         Covers(t, Held \cup Hands(drops, Len(drops))), t.count[x] > 0,
         Uses!SetCompElem(i, n, x, t, drops)
  PROVE  Covers(table', Held')
<1>. DEFINE old == Uses!OldCompound(i)
            c == Uses!SetNth(old, n, x)
            X == Held \cup Hands(drops, Len(drops))
            u == Uses!MakeMolecule(t, c)
<1>1. old \in Uses!Compound /\ old \in Uses!Molecule
  BY OldIs, Constants
<1>2. t.count[old] > 0
  <2>1. /\ t.count[called[i]["comp"]] > 0
        /\ modId # NoId /\ result["comp"] # NoValue => t.count[result["comp"]] > 0
    BY UsedHere DEF Uses!Attr
  <2>. QED
    BY <2>1, Constants DEF Uses!OldCompound
<1>3. c \in Uses!Compound /\ \A k \in 1 .. Len(c) : t.count[c[k]] > 0
  <2>1. /\ c \in Uses!Compound
        /\ \A k \in 1 .. Len(c) : c[k] \in {x, Nil} \/ (k \in 1 .. Len(old) /\ c[k] = old[k])
    BY <1>1, NthType
  <2>2. \A k \in 1 .. Len(old) : t.count[old[k]] > 0
    BY <1>1, <1>2, CoveredIsThere
  <2>3. t.count[Nil] > 0
    BY Constants DEF Covers
  <2>. QED
    BY <2>1, <2>2, <2>3
<1>4. Uses!Store(i, "comp", c, u, drops)
  <2>1. ~Uses!ReadsFreedObject(i)
    BY Constants DEF Sound, Uses!ReadsFreedObject
  <2>2. [t EXCEPT !.freedUsed = @ \/ Uses!ReadsFreedObject(i)] = t
    <3>1. t \in Table /\ t.freedUsed \in BOOLEAN
      BY DEF Covers, Table
    <3>2. (t.freedUsed \/ Uses!ReadsFreedObject(i)) = t.freedUsed
      BY <2>1, <3>1
    <3>. QED
      BY <3>1, <3>2 DEF Table
  <2>. QED
    BY <2>2 DEF Uses!SetCompElem
<1>5. \A p \in X : p[1][1] \in {"attribute", "program", "buffer", "hand"}
  BY UserKinds DEF Held, Hands, Hand
<1>. HIDE DEF c, u, X, old
<1>6. CASE i # modId
  <2>. DEFINE p == Text("comp", c)
  <2>1. p \notin X /\ Outer(p) /\ p[2] = c
    BY <1>3, <1>5, Constants DEF Text, Outer
  <2>. HIDE DEF p
  <2>2. Covers(u, X \cup {p})
    BY <1>3, <2>1, CoversMade DEF X, u
  <2>3. Covers(u, X) /\ u.count[p[2]] > 0
    BY <2>2, CoversFewer, CoveredIsThere
  <2>4. c \in KindOf("comp") /\ "comp" \in Uses!Attr
    BY <1>3 DEF KindOf, Uses!Attr
  <2>. QED
    BY <1>4, <1>6, <2>1, <2>3, <2>4, TypedHere, StoreDirect DEF X
<1>7. CASE i = modId
  <2>. DEFINE p == BufUse(c)
              Y == Unbuffered \cup Hands(drops, Len(drops))
  <2>1. Y \subseteq X
    BY HeldLacks DEF X
  <2>2. p \notin Y /\ Outer(p) /\ p[2] = c
    BY <1>3, HeldLacks, Constants DEF BufUse, Outer, Lacks, Hands, Hand
  <2>3. Y \cup {p} = (Unbuffered \cup {BufUse(c)}) \cup Hands(drops, Len(drops))
    OBVIOUS
  <2>. HIDE DEF p, Y
  <2>4. Covers(t, Y)
    BY <2>1, CoversFewer DEF X
  <2>5. Covers(u, Y \cup {p})
    BY <1>3, <2>2, <2>4, CoversMade DEF u
  <2>6. Uses!Store(modId, "comp", c, u, drops) /\ modId \in Id
    BY <1>4, <1>7
  <2>. QED
    BY <1>3, <2>3, <2>5, <2>6, TypedHere, StoreBuffered
<1>. QED
  BY <1>6, <1>7

-----------------------------------------------------------------------------
(* Each call leaves the users covered, unless it takes a risk.             *)

LEMMA SameSound ==
  ASSUME Sound, UNCHANGED <<table, given, called, modId, modObj, result>>
  PROVE  Sound'
BY DEF Sound, Held

LEMMA SetterSound ==
  ASSUME Typed, Sound, NEW i \in Id, called[i] # Absent, NEW a, a = "comp" \/ i # modId,
         NEW m, NEW t, NEW drops, Uses!Store(i, a, m, t, drops), Covers(table', Held')
  PROVE  Sound'
<1>1. UNCHANGED <<modId, modObj>>
  BY DEF Uses!Store
<1>2. modId # NoId => result'["atom"] = NoValue
  <2>1. result'["atom"] = result["atom"]
    BY TypedHere DEF Uses!Store, Buffered
  <2>. QED
    BY <2>1 DEF Sound
<1>3. modId # NoId /\ called'[modId] # Absent => called[modId] # Absent
  <2>1. CASE i = modId
    BY <2>1 DEF Uses!Store
  <2>2. CASE i # modId
    <3>1. \A j \in Id : j # i => called'[j] = called[j]
      BY <2>2, TypedHere DEF Uses!Store, Objs
    <3>. QED
      BY <2>2, <3>1, TypedHere
  <2>. QED
    BY <2>1, <2>2
<1>. QED
  BY <1>1, <1>2, <1>3 DEF Sound

LEMMA SetAttrAtomSound ==
  ASSUME Typed, Sound, NEW i \in Id, NEW x \in Atom, Uses!SetAttrAtom(i, x), risks' = {}
  PROVE  Sound'
<1>1. CASE called[i] = Absent
  BY <1>1, SameSound DEF Uses!SetAttrAtom, Uses!Live, Uses!Fails
<1>2. CASE called[i] # Absent
  <2>1. Uses!Store(i, "atom", x, table, << >>) /\ i # modId /\ x \in given
    BY <1>2 DEF Uses!SetAttrAtom, Uses!Live, Uses!BuffersAtom
  <2>2. Covers(table, Held \cup Hands(<< >>, Len(<< >>))) /\ << >> \in Seq(Atom)
    BY NoHands DEF Sound
  <2>3. table.count[x] > 0
    BY <2>1, UsedHere DEF Sound
  <2>4. x \in KindOf("atom") /\ "atom" \in Uses!Attr
    BY DEF KindOf, Uses!Attr
  <2>5. Covers(table', Held')
    BY <1>2, <2>1, <2>2, <2>3, <2>4, TypedHere, StoreDirect
  <2>. QED
    BY <1>2, <2>1, <2>5, SetterSound
<1>. QED
  BY <1>1, <1>2

LEMMA FailsTypedSound ==
  ASSUME Sound, NEW x \in Atom, Uses!FailsTyped(x)
  PROVE  Sound'
<1>. DEFINE p == Text("atom", x)
            u == Uses!MakeMolecule(table, x)
            Y == Held \cup {p}
<1>1. p \notin Held /\ Outer(p) /\ p[2] = x /\ p[2] \notin Uses!Compound
  BY HeldLacks, Constants DEF Lacks, Text, Outer
<1>2. Y \ {p} = Held /\ p \in Y
  BY <1>1
<1>3. table' = Uses!DecrUses(u, x) /\ UNCHANGED <<given, called, modId, modObj, result>>
  BY DEF Uses!FailsTyped
<1>. HIDE DEF p, u
<1>4. Covers(u, Y)
  BY <1>1, CoversMade DEF Sound, u
<1>. HIDE DEF Y
<1>5. Covers(table', Y \ {p})
  BY <1>1, <1>2, <1>3, <1>4, CoversGivenUp
<1>. QED
  BY <1>2, <1>3, <1>5 DEF Sound, Held

LEMMA SetAttrTypedSound ==
  ASSUME Typed, Sound, NEW i \in Id, NEW x \in Atom, Uses!SetAttrTyped(i, x), risks' = {}
  PROVE  Sound'
<1>1. CASE called[i] = Absent
  BY <1>1, FailsTypedSound DEF Uses!SetAttrTyped, Uses!Live
<1>2. CASE called[i] # Absent
  <2>. DEFINE u == Uses!MakeMolecule(table, x)
              drops == <<x>>
  <2>1. Uses!Store(i, "atom", x, u, drops) /\ i # modId
    BY <1>2 DEF Uses!SetAttrTyped, Uses!Live, Uses!BuffersAtom
  <2>2. Covers(u, Held \cup Hands(drops, Len(drops))) /\ drops \in Seq(Atom) /\ u.count[x] > 0
    BY HandMade, HeldLacks DEF Sound, Lacks
  <2>4. x \in KindOf("atom") /\ "atom" \in Uses!Attr
    BY DEF KindOf, Uses!Attr
  <2>. HIDE DEF u, drops
  <2>5. Covers(table', Held')
    BY <1>2, <2>1, <2>2, <2>4, TypedHere, StoreDirect
  <2>. QED
    BY <1>2, <2>1, <2>5, SetterSound
<1>. QED
  BY <1>1, <1>2

LEMMA SetCompAttrStringSound ==
  ASSUME Typed, Sound, NEW i \in Id, NEW c \in Uses!Compound, Uses!SetCompAttrString(i, c)
  PROVE  Sound'
<1>1. CASE called[i] = Absent
  BY <1>1, SameSound DEF Uses!SetCompAttrString, Uses!Live, Uses!Fails
<1>2. CASE called[i] # Absent
  <2>. DEFINE u == Uses!MakeCompound(table, c)
  <2>1. Uses!Store(i, "comp", c, u, << >>) /\ << >> \in Seq(Atom)
    BY <1>2 DEF Uses!SetCompAttrString, Uses!Live
  <2>. HIDE DEF u
  <2>2. Covers(table', Held')
    <3>1. CASE i # modId
      <4>. DEFINE p == Text("comp", c)
      <4>1. /\ p \notin Held /\ Outer(p) /\ p[2] = c /\ p[1][1] # "hand"
            /\ Lacks(Held, {"hand"})
        BY HeldLacks, Constants DEF Lacks, Text, Outer
      <4>. HIDE DEF p
      <4>2. Covers(u, Held \cup {p})
        BY <4>1, CompoundMade DEF Sound, u
      <4>3. Covers(u, Held) /\ u.count[p[2]] > 0
        BY <4>2, CoversFewer, CoveredIsThere
      <4>4. Covers(u, Held \cup Hands(<< >>, Len(<< >>)))
        BY <4>3, NoHands
      <4>5. c \in KindOf("comp") /\ "comp" \in Uses!Attr
        BY DEF KindOf, Uses!Attr
      <4>. QED
        BY <1>2, <2>1, <3>1, <4>1, <4>3, <4>4, <4>5, TypedHere, StoreDirect
    <3>2. CASE i = modId
      <4>. DEFINE p == BufUse(c)
      <4>1. /\ p \notin Unbuffered /\ Outer(p) /\ p[2] = c /\ p[1][1] # "hand"
            /\ Lacks(Unbuffered, {"hand"})
        BY HeldLacks, Constants DEF Lacks, BufUse, Outer
      <4>2. Covers(table, Unbuffered)
        BY HeldLacks, CoversFewer DEF Sound
      <4>. HIDE DEF p
      <4>3. Covers(u, Unbuffered \cup {p})
        BY <4>1, <4>2, CompoundMade DEF u
      <4>4. Covers(u, (Unbuffered \cup {BufUse(c)}) \cup Hands(<< >>, Len(<< >>)))
        BY <4>3, NoHands DEF p
      <4>. QED
        BY <2>1, <3>2, <4>4, TypedHere, StoreBuffered
    <3>. QED
      BY <3>1, <3>2
  <2>. QED
    BY <1>2, <2>1, <2>2, SetterSound
<1>. QED
  BY <1>1, <1>2

LEMMA SetCompElemAtomSound ==
  ASSUME Typed, Sound, NEW i \in Id, NEW n \in 1 .. MaxElements, NEW x \in Atom,
         Uses!SetCompElemAtom(i, n, x)
  PROVE  Sound'
<1>1. CASE called[i] = Absent
  BY <1>1, SameSound DEF Uses!SetCompElemAtom, Uses!Live, Uses!Fails
<1>2. CASE called[i] # Absent
  <2>1. Uses!SetCompElem(i, n, x, table, << >>) /\ x \in given /\ << >> \in Seq(Atom)
    BY <1>2 DEF Uses!SetCompElemAtom, Uses!Live
  <2>2. Covers(table, Held \cup Hands(<< >>, Len(<< >>)))
    BY NoHands DEF Sound
  <2>3. table.count[x] > 0
    BY <2>1, UsedHere DEF Sound
  <2>4. Covers(table', Held')
    BY <1>2, <2>1, <2>2, <2>3, ElementSet
  <2>5. PICK m, t : Uses!Store(i, "comp", m, t, << >>)
    BY <2>1 DEF Uses!SetCompElem
  <2>. QED
    BY <1>2, <2>4, <2>5, SetterSound
<1>. QED
  BY <1>1, <1>2

LEMMA SetCompElemTypedSound ==
  ASSUME Typed, Sound, NEW i \in Id, NEW n \in 1 .. MaxElements, NEW x \in Atom,
         Uses!SetCompElemTyped(i, n, x)
  PROVE  Sound'
<1>1. CASE called[i] = Absent
  BY <1>1, FailsTypedSound DEF Uses!SetCompElemTyped, Uses!Live
<1>2. CASE called[i] # Absent
  <2>. DEFINE u == Uses!MakeMolecule(table, x)
              drops == <<x>>
  <2>1. Uses!SetCompElem(i, n, x, u, drops)
    BY <1>2 DEF Uses!SetCompElemTyped, Uses!Live
  <2>2. Covers(u, Held \cup Hands(drops, Len(drops))) /\ drops \in Seq(Atom) /\ u.count[x] > 0
    BY HandMade, HeldLacks DEF Sound, Lacks
  <2>. HIDE DEF u, drops
  <2>4. Covers(table', Held')
    BY <1>2, <2>1, <2>2, ElementSet
  <2>5. PICK m, t : Uses!Store(i, "comp", m, t, drops)
    BY <2>1 DEF Uses!SetCompElem
  <2>. QED
    BY <1>2, <2>4, <2>5, SetterSound
<1>. QED
  BY <1>1, <1>2

\* What a modify that ends leaves is covered, with no buffer any more.
LEMMA EndedCovers ==
  ASSUME Typed, Sound
  PROVE  Covers(Uses!Ended.table, AttrUses(Uses!Ended.obj) \cup {ProgUse(m) : m \in given})
<1>. DEFINE G == {ProgUse(m) : m \in given}
<1>1. CASE ~(modId # NoId /\ called[modId] # Absent)
  <2>1. Uses!Ended.table = table /\ Uses!Ended.obj = called
    BY <1>1 DEF Uses!Ended, Uses!Live
  <2>2. Covers(table, Unbuffered)
    BY HeldLacks, CoversFewer DEF Sound
  <2>. QED
    BY <2>1, <2>2 DEF Unbuffered
<1>2. CASE modId # NoId /\ called[modId] # Absent
  <2>. DEFINE s == Uses!Written(modId)
              w == [called EXCEPT ![modId] = s.vals]
              h == <<"text">>
              k == <<"buffer">>
  <2>1. Uses!Ended.table = s.table /\ Uses!Ended.obj = w
    BY <1>2 DEF Uses!Ended, Uses!Live
  <2>2. s = Uses!SetBoth([table |-> table, vals |-> called[modId]], result) /\ Gets(w, called, modId, s)
    BY DEF Uses!Written, Gets
  <2>3. Lacks(G, {"attribute", "assigner"}) /\ Name(h, G) /\ Name(k, G) /\ h # k
    BY DEF Lacks, Name, ProgUse
  <2>4. (AttrUses(called) \cup (G \cup HeldBy(k, result, "comp"))) \cup HeldBy(h, result, "atom") = Held
    BY <1>2 DEF Sound, HeldBy, Held, Others, Bufs, BufUse
  <2>5. Covers(table, (AttrUses(called) \cup (G \cup HeldBy(k, result, "comp"))) \cup HeldBy(h, result, "atom"))
    BY <2>4 DEF Sound
  <2>. HIDE DEF s, w, h, k, G
  <2>6. Passed(w, modId, s, G)
    BY <1>2, <2>2, <2>3, <2>5, TypedHere, BothPassed
  <2>. QED
    BY <2>1, <2>6 DEF Passed, G
<1>. QED
  BY <1>1, <1>2

LEMMA NoBuffer ==
  ASSUME UNCHANGED given, modId' = NoId \/ result' = Uses!Nothing
  PROVE  Held' = AttrUses(called') \cup {ProgUse(m) : m \in given}
<1>1. Bufs(modId', result'["comp"]) = {}
  BY DEF Bufs, Uses!Nothing, Uses!Attr
<1>. QED
  BY <1>1 DEF Held, Others

LEMMA ModifyStartSound ==
  ASSUME Typed, Sound, NEW i \in Id, Uses!ModifyStart(i)
  PROVE  Sound'
<1>1. Covers(table', Held')
  <2>1. /\ table' = Uses!Ended.table /\ called' = Uses!Ended.obj
        /\ UNCHANGED given /\ result' = Uses!Nothing
    BY DEF Uses!ModifyStart
  <2>. QED
    BY <2>1, NoBuffer, EndedCovers
<1>2. result'["atom"] = NoValue
  BY DEF Uses!ModifyStart, Uses!Nothing, Uses!Attr
<1>3. modId' # NoId => modObj'
  BY DEF Uses!ModifyStart
<1>. QED
  BY <1>1, <1>2, <1>3 DEF Sound

LEMMA ModifyEndSound ==
  ASSUME Typed, Sound, NEW i \in Id, Uses!ModifyEnd(i)
  PROVE  Sound'
<1>1. Held' = AttrUses(called') \cup {ProgUse(m) : m \in given}
  BY NoBuffer DEF Uses!ModifyEnd
<1>2. Covers(table', Held')
  <2>1. CASE i = modId
    BY <1>1, <2>1, EndedCovers DEF Uses!ModifyEnd
  <2>2. CASE i # modId
    <3>1. Covers(table, Unbuffered)
      BY HeldLacks, CoversFewer DEF Sound
    <3>2. table' = table /\ called' = called
      BY <2>2 DEF Uses!ModifyEnd
    <3>. QED
      BY <1>1, <3>1, <3>2 DEF Unbuffered
  <2>. QED
    BY <2>1, <2>2
<1>3. modId' = NoId
  BY DEF Uses!ModifyEnd
<1>. QED
  BY <1>2, <1>3 DEF Sound

LEMMA GiveAtomSound ==
  ASSUME Sound, NEW x \in Atom, Uses!GiveAtom(x)
  PROVE  Sound'
<1>. DEFINE p == ProgUse(x)
<1>1. /\ table' = Uses!MakeMolecule(table, x) /\ given' = given \cup {x} /\ x \notin given
      /\ UNCHANGED <<called, modId, modObj, result>>
  BY DEF Uses!GiveAtom
<1>2. p[2] = x /\ Outer(p) /\ p[2] \notin Uses!Compound
  BY Constants DEF Outer, ProgUse
<1>3. p \notin Held /\ Held' = Held \cup {p}
  <2>1. \A q \in AttrUses(called) \cup Bufs(modId, result["comp"]) : q[1][1] # "program"
    BY UserKinds DEF Bufs, BufUse
  <2>. QED
    BY <1>1, <2>1 DEF Held, Others, ProgUse
<1>. HIDE DEF p
<1>4. Covers(table', Held \cup {p})
  BY <1>1, <1>2, <1>3, CoversMade DEF Sound
<1>. QED
  BY <1>1, <1>3, <1>4 DEF Sound

LEMMA GetAttrAtomSound ==
  ASSUME Typed, Sound, NEW i \in Id, NEW a \in Uses!Attr, Uses!GetAttrAtom(i, a)
  PROVE  Sound'
<1>1. CASE called[i] = Absent
  BY <1>1, SameSound DEF Uses!GetAttrAtom, Uses!Live, Uses!Fails
<1>2. CASE called[i] # Absent
  <2>. DEFINE x == called[i][a]
              p == ProgUse(x)
  <2>1. /\ table' = Uses!IncrUses(table, x) /\ given' = given \cup {x} /\ x \notin given
        /\ UNCHANGED <<called, modId, modObj, result>>
    BY <1>2 DEF Uses!GetAttrAtom, Uses!Live
  <2>2. p[2] = x /\ Outer(p)
    BY <1>2, ValueTypes, TypedHere DEF Outer, ProgUse
  <2>3. table.count[p[2]] > 0
    BY <1>2, <2>2, UsedHere DEF Sound
  <2>. HIDE DEF x
  <2>4. p \notin Held /\ Held' = Held \cup {p}
    <3>1. \A q \in AttrUses(called) \cup Bufs(modId, result["comp"]) : q[1][1] # "program"
      BY UserKinds DEF Bufs, BufUse
    <3>. QED
      BY <2>1, <3>1 DEF Held, Others, ProgUse
  <2>. HIDE DEF p
  <2>5. Covers(table', Held \cup {p})
    BY <2>1, <2>2, <2>3, <2>4, CoversTaken DEF Sound
  <2>. QED
    BY <2>1, <2>4, <2>5 DEF Sound
<1>. QED
  BY <1>1, <1>2

LEMMA SpecializeWmeSound ==
  ASSUME Sound, NEW i \in Id, Uses!SpecializeWme(i), risks' = {}
  PROVE  Sound'
<1>1. CASE called[i] = Absent
  BY <1>1, SameSound DEF Uses!SpecializeWme, Uses!Live, Uses!Fails
<1>2. CASE called[i] # Absent
  <2>1. i # modId /\ modObj' = (modObj /\ i # modId) /\ UNCHANGED <<table, given, called, modId, result>>
    BY <1>2 DEF Uses!SpecializeWme, Uses!Live
  <2>. QED
    BY <2>1 DEF Sound, Held
<1>. QED
  BY <1>1, <1>2

LEMMA AttributeUser ==
  ASSUME NEW i, NEW a, NEW m, NEW g, NEW md, NEW c
  PROVE  /\ AttrUse(i, a, m)[2] = m /\ AttrUse(i, a, m)[1][1] = "attribute"
         /\ AttrUse(i, a, m) \notin Others(g, md, c)
         /\ m \in Uses!Molecule => Outer(AttrUse(i, a, m))
<1>1. AttrUse(i, a, m)[2] = m /\ AttrUse(i, a, m)[1][1] = "attribute"
  BY DEF AttrUse
<1>. QED
  BY <1>1, UserKinds DEF Outer

LEMMA CopyWmeSound ==
  ASSUME Typed, Sound, NEW i \in Id, NEW j \in Id \ made, Uses!CopyWme(i, j)
  PROVE  Sound'
<1>1. CASE called[i] = Absent
  BY <1>1, SameSound DEF Uses!CopyWme, Uses!Live, Uses!Fails
<1>2. CASE called[i] # Absent
  <2>. DEFINE v == called[i]
              p == AttrUse(j, "atom", v["atom"])
              q == AttrUse(j, "comp", v["comp"])
              t == Uses!IncrUses(table, v["atom"])
              O == Others(given, modId, result["comp"])
              X == Held \cup {p}
  <2>1. /\ called' = [called EXCEPT ![j] = v]
        /\ table' = Uses!IncrUses(t, v["comp"]) /\ UNCHANGED <<given, modId, modObj, result>>
    BY <1>2 DEF Uses!CopyWme, Uses!Live
  <2>2. /\ called[j] = Absent /\ v \in Uses!Values
        /\ v["atom"] \in Uses!Molecule /\ v["comp"] \in Uses!Molecule
    BY <1>2, ValueTypes, Constants DEF Typed
  <2>3. /\ p[2] = v["atom"] /\ q[2] = v["comp"] /\ Outer(p) /\ Outer(q)
        /\ p \notin O /\ q \notin O /\ p # q
    <3>1. p # q
      BY DEF AttrUse
    <3>. QED
      BY <2>2, <3>1, AttributeUser
  <2>4. table.count[p[2]] > 0 /\ table.count[q[2]] > 0
    BY <1>2, <2>3, UsedHere DEF Sound, Uses!Attr
  <2>5. /\ AttrUses(called') = (AttrUses(called) \cup {p}) \cup {q}
        /\ p \notin AttrUses(called) /\ q \notin AttrUses(called)
    <3>1. Comes(called', called, j, v)
      <4>. HIDE DEF v
      <4>. QED
        BY <2>1, <2>2, TypedHere, ObjectUses
    <3>. QED
      BY <3>1 DEF Comes
  <2>6. Held' = X \cup {q} /\ p \notin Held /\ q \notin X
    BY <2>1, <2>3, <2>5 DEF Held
  <2>. HIDE DEF v, p, q, t
  <2>7. Covers(t, X) /\ Keeps(t, table)
    BY <2>3, <2>4, <2>6, CoversTaken DEF Sound, t
  <2>8. t.count[q[2]] > 0
    BY <2>3, <2>4, <2>7 DEF Keeps, Outer
  <2>. HIDE DEF X
  <2>9. Covers(table', X \cup {q})
    BY <2>1, <2>3, <2>6, <2>7, <2>8, CoversTaken
  <2>10. modId # NoId => called'[modId] = called[modId]
    BY <2>1, TypedHere DEF Objs
  <2>. QED
    BY <2>1, <2>6, <2>9, <2>10 DEF Sound
<1>. QED
  BY <1>1, <1>2

LEMMA RemoveWmeSound ==
  ASSUME Typed, Sound, NEW i \in Id, Uses!RemoveWme(i)
  PROVE  Sound'
<1>1. CASE called[i] = Absent
  BY <1>1, SameSound DEF Uses!RemoveWme, Uses!Live, Uses!Fails
<1>2. CASE called[i] # Absent
  <2>. DEFINE v == called[i]
              p == AttrUse(i, "atom", v["atom"])
              q == AttrUse(i, "comp", v["comp"])
              t == Uses!DecrUses(table, v["atom"])
              O == Others(given, modId, result["comp"])
              X == Held \ {p}
  <2>1. /\ called' = [called EXCEPT ![i] = Absent]
        /\ table' = Uses!DecrUses(t, v["comp"]) /\ UNCHANGED <<given, modId, result>>
        /\ modObj' = (modObj /\ i # modId)
    BY <1>2 DEF Uses!RemoveWme, Uses!Live
  <2>2. /\ v \in Uses!Values /\ v["atom"] \in Uses!Molecule /\ v["comp"] \in Uses!Molecule
        /\ called' \in Objs /\ called'[i] = Absent /\ called = [called' EXCEPT ![i] = v]
    BY <1>2, <2>1, ValueTypes, TypedHere, Constants DEF Objs
  <2>3. /\ p[2] = v["atom"] /\ q[2] = v["comp"]
        /\ p \notin O /\ q \notin O /\ p # q
    <3>1. p # q
      BY DEF AttrUse
    <3>. QED
      BY <2>2, <3>1, AttributeUser
  <2>5. /\ AttrUses(called) = (AttrUses(called') \cup {p}) \cup {q}
        /\ p \notin AttrUses(called') /\ q \notin AttrUses(called')
    <3>1. Comes(called, called', i, v)
      <4>. HIDE DEF v
      <4>. QED
        BY <2>2, ObjectUses
    <3>. QED
      BY <3>1 DEF Comes
  <2>6. Held' = X \ {q} /\ p \in Held /\ q \in X
    BY <2>1, <2>3, <2>5 DEF Held
  <2>. HIDE DEF v, p, q, t
  <2>7. Covers(t, X)
    BY <2>3, <2>6, CoversGivenUp DEF Sound, t
  <2>. HIDE DEF X
  <2>9. Covers(table', X \ {q})
    BY <2>1, <2>3, <2>6, <2>7, CoversGivenUp
  <2>10. modId # NoId /\ called'[modId] # Absent => modObj'
    BY <2>1, <2>2, TypedHere DEF Objs, Sound
  <2>. QED
    BY <2>1, <2>6, <2>9, <2>10 DEF Sound
<1>. QED
  BY <1>1, <1>2

\* The molecules of the text of a new object, with the uses its maker has of them.
LEMMA ParsedCovers ==
  ASSUME NEW X, Covers(table, X), Lacks(X, {"hand", "text"}), NEW r \in Buffered
  PROVE  Covers(Uses!Parsed(r["atom"], r["comp"]),
                (X \cup HeldBy(<<"text", "atom">>, r, "atom"))
                   \cup HeldBy(<<"text", "comp">>, r, "comp"))
<1>. DEFINE h == <<"text", "atom">>
            k == <<"text", "comp">>
            x == r["atom"]
            c == r["comp"]
            t == IF x = NoValue THEN table ELSE Uses!MakeMolecule(table, x)
            Y == X \cup HeldBy(h, r, "atom")
<1>1. /\ x # NoValue => x \in Atom
      /\ c # NoValue => c \in Uses!Compound
  BY DEF Buffered
<1>2. Covers(t, Y)
  <2>1. CASE x = NoValue
    <3>1. t = table /\ Y = X
      BY <2>1 DEF HeldBy
    <3>. QED
      BY <3>1
  <2>2. CASE x # NoValue
    <3>. DEFINE p == <<h, x>>
                u == Uses!MakeMolecule(table, x)
    <3>1. t = u /\ Y = X \cup {p}
      BY <2>2 DEF HeldBy
    <3>2. p[2] = x /\ p \notin X /\ Outer(p) /\ p[2] \notin Uses!Compound
      BY <1>1, <2>2, Constants DEF Lacks, Outer
    <3>. HIDE DEF p, u, x
    <3>3. Covers(u, X \cup {p})
      BY <3>2, CoversMade DEF u
    <3>. QED
      BY <3>1, <3>3
  <2>. QED
    BY <2>1, <2>2
<1>3. Lacks(Y, {"hand"}) /\ <<k, c>> \notin Y
  <2>1. \A p \in Y : p[1][1] # "hand" /\ p[1] # k
    BY DEF Lacks, HeldBy
  <2>. QED
    BY <2>1 DEF Lacks
<1>4. Uses!Parsed(x, c) = IF c = NoValue THEN t ELSE Uses!MakeCompound(t, c)
  BY DEF Uses!Parsed
<1>. HIDE DEF t, Y
<1>5. Covers(Uses!Parsed(x, c), Y \cup HeldBy(k, r, "comp"))
  <2>1. CASE c = NoValue
    <3>1. Uses!Parsed(x, c) = t /\ Y \cup HeldBy(k, r, "comp") = Y
      BY <1>4, <2>1 DEF HeldBy
    <3>. QED
      BY <1>2, <3>1
  <2>2. CASE c # NoValue
    <3>. DEFINE p == <<k, c>>
                u == Uses!MakeCompound(t, c)
    <3>1. Uses!Parsed(x, c) = u /\ Y \cup HeldBy(k, r, "comp") = Y \cup {p}
      BY <1>4, <2>2 DEF HeldBy
    <3>2. /\ p[2] = c /\ p \notin Y /\ Outer(p) /\ p[2] \in Uses!Compound
          /\ p[1][1] # "hand"
      BY <1>1, <1>3, <2>2, Constants DEF Outer
    <3>. HIDE DEF p, u, c
    <3>3. Covers(u, Y \cup {p})
      BY <1>2, <1>3, <3>2, CompoundMade DEF u
    <3>. QED
      BY <3>1, <3>3
  <2>. QED
    BY <2>1, <2>2
<1>. QED
  BY <1>5 DEF Y

LEMMA MakeWmeSound ==
  ASSUME Typed, Sound, NEW i \in Id \ made, NEW x \in Atom \cup {NoValue},
         NEW c \in Uses!Compound \cup {NoValue}, NEW ok \in BOOLEAN,
         Uses!MakeWme(i, x, c, ok), risks' = {}
  PROVE  Sound'
<1>. DEFINE r == [atom |-> x, comp |-> c]
            h == <<"text", "atom">>
            k == <<"text", "comp">>
            G == {ProgUse(m) : m \in given}
            t == Uses!Parsed(x, c)
            s == Uses!SetBoth([table |-> t, vals |-> Uses!Default], r)
            Z == (Held \cup HeldBy(h, r, "atom")) \cup HeldBy(k, r, "comp")
<1>1. /\ modId = NoId /\ UNCHANGED <<given, modId, modObj>>
      /\ table' = IF ok THEN s.table ELSE t
      /\ called' = IF ok THEN [called EXCEPT ![i] = s.vals] ELSE called
  BY DEF Uses!MakeWme, Uses!Inside
<1>2. r \in Buffered /\ t = Uses!Parsed(r["atom"], r["comp"])
  BY DEF Buffered
<1>3. Held = AttrUses(called) \cup G /\ Held' = AttrUses(called') \cup G
  BY <1>1 DEF Held, Others, Bufs
<1>. HIDE DEF t, s, r
<1>4. Covers(t, Z)
  BY <1>2, HeldLacks, ParsedCovers DEF Sound, Lacks
<1>5. CASE ~ok
  <2>1. Held' = Held /\ Held \subseteq Z
    BY <1>1, <1>3, <1>5
  <2>. QED
    BY <1>1, <1>4, <1>5, <2>1, CoversFewer DEF Sound
<1>6. CASE ok
  <2>. DEFINE v == Uses!Default
              o == [called EXCEPT ![i] = v]
              p == AttrUse(i, "atom", v["atom"])
              q == AttrUse(i, "comp", v["comp"])
              K == G \cup HeldBy(k, r, "comp")
              Y == Z \cup {p}
  <2>1. v \in Uses!Values /\ v["atom"] = Nil /\ v["comp"] = << >>
    BY Constants DEF Uses!Default, Uses!Values
  <2>. HIDE DEF v
  <2>2. called[i] = Absent /\ called \in Objs
    BY DEF Typed
  <2>3. Comes(o, called, i, v)
    BY <2>1, <2>2, ObjectUses
  <2>4. p[2] = Nil /\ q[2] = << >> /\ Outer(p) /\ Outer(q)
    BY <2>1, AttributeUser, Constants
  <2>5. (AttrUses(o) \cup K) \cup HeldBy(h, r, "atom") = Y \cup {q}
    BY <1>3, <2>3 DEF Comes
  <2>6. o \in Objs /\ o[i] = v /\ o[i] # Absent
    BY <2>3 DEF Comes
  <2>7. s = Uses!SetBoth([table |-> t, vals |-> o[i]], r) /\ Gets(called', o, i, s)
    BY <1>1, <1>6, <2>2, <2>6 DEF s, v, Gets, Objs
  <2>. HIDE DEF o, p, q, Z
  <2>8. Covers(t, Y)
    BY <1>4, <2>4, CoversPermanent DEF Covers
  <2>. HIDE DEF Y
  <2>9. Covers(t, Y \cup {q})
    BY <2>4, <2>8, CoversPermanent DEF Covers
  <2>10. Lacks(G, {"attribute", "assigner"}) /\ Name(h, G) /\ Name(k, G) /\ h # k
    BY DEF Lacks, Name, ProgUse
  <2>11. Covers(t, (AttrUses(o) \cup (G \cup HeldBy(k, r, "comp"))) \cup HeldBy(h, r, "atom"))
    BY <2>5, <2>9
  <2>. HIDE DEF G, h, k
  <2>12. Passed(called', i, s, G)
    BY <1>2, <2>6, <2>7, <2>10, <2>11, BothPassed
  <2>. QED
    BY <1>1, <1>3, <1>6, <2>12 DEF Passed, Sound
<1>. QED
  BY <1>5, <1>6

-----------------------------------------------------------------------------
(* The form of the state, and the history of what was set, in all calls.   *)

Kept == Typed' /\ Tracks' /\ risks \subseteq risks' /\ Uses!WritesAsked

\* Only a call that forgets what was asked has to have written it.
LEMMA Quiet ==
  ASSUME asked' = Uses!Nothing => asked = Uses!Nothing
  PROVE  Uses!WritesAsked
BY DEF Uses!WritesAsked

LEMMA SameKept ==
  ASSUME Typed, Tracks, table' \in Table, status' \in BOOLEAN,
         UNCHANGED <<given, called, made, modId, modObj, result, asked, risks>>
  PROVE  Kept
BY Quiet DEF Kept, Typed, Tracks

LEMMA FailsKept ==
  ASSUME Typed, Tracks, Uses!Fails PROVE Kept
<1>1. table' \in Table
  BY TypedHere DEF Uses!Fails
<1>. QED
  BY <1>1, SameKept DEF Uses!Fails

LEMMA FailsTypedKept ==
  ASSUME Typed, Tracks, NEW x \in Atom, Uses!FailsTyped(x) PROVE Kept
<1>1. table' \in Table
  BY TypedHere, TableKept, Constants DEF Uses!FailsTyped
<1>. QED
  BY <1>1, SameKept DEF Uses!FailsTyped

LEMMA SetterKept ==
  ASSUME Typed, Tracks, NEW i \in made, called[i] # Absent,
         NEW a \in Uses!Attr, NEW m \in KindOf(a), NEW t \in Table, NEW drops \in Seq(Atom),
         Uses!Store(i, a, m, t, drops), risks \subseteq risks', risks' \subseteq Uses!Risk
  PROVE  Kept
<1>. DEFINE now == Uses!Assign([table |-> t, vals |-> called[i]], a, m)
<1>1. i \in Id /\ called[i] \in Uses!Values
  BY ValueTypes DEF Typed
<1>2. now.table \in Table /\ now.vals \in Uses!Values
  BY <1>1, AssignIs
<1>3. /\ table' = Uses!FoldLeft(Uses!DecrUses, IF i = modId THEN t ELSE now.table, drops)
      /\ IF i = modId
         THEN /\ result' = [result EXCEPT ![a] = m] /\ asked' = [asked EXCEPT ![a] = m]
              /\ UNCHANGED called
         ELSE called' = [called EXCEPT ![i] = now.vals] /\ UNCHANGED <<result, asked>>
      /\ status' = TRUE /\ UNCHANGED <<given, made, modId, modObj>>
  BY DEF Uses!Store
<1>. HIDE DEF now
<1>4. table' \in Table
  BY <1>2, <1>3, LoopType
<1>5. called' \in Objs /\ \A j \in Id : called'[j] # Absent => called[j] # Absent
  <2>1. called \in Objs
    BY TypedHere
  <2>. QED
    BY <1>1, <1>2, <1>3, <2>1 DEF Objs
<1>6. result' \in Buffered /\ asked' \in Buffered /\ (asked = result => asked' = result')
  <2>1. \A b \in Buffered : [b EXCEPT ![a] = m] \in Buffered
    BY DEF Uses!Attr, KindOf, Buffered
  <2>. QED
    BY <1>3, <2>1, TypedHere
<1>7. modId = NoId => asked' = asked
  BY <1>1, <1>3, Constants
<1>8. asked' = Uses!Nothing => asked = Uses!Nothing
  <2>1. m # NoValue
    BY Constants DEF KindOf
  <2>. QED
    BY <1>3, <2>1, TypedHere DEF Buffered, Uses!Nothing, Uses!Attr
<1>9. Typed' /\ Tracks'
  BY <1>3, <1>4, <1>5, <1>6, <1>7 DEF Typed, Tracks
<1>. QED
  BY <1>8, <1>9, Quiet DEF Kept

LEMMA SetAttrAtomKept ==
  ASSUME Typed, Tracks, NEW i \in made, NEW x \in Atom, Uses!SetAttrAtom(i, x)
  PROVE  Kept
<1>1. CASE called[i] = Absent
  BY <1>1, FailsKept DEF Uses!SetAttrAtom, Uses!Live
<1>2. CASE called[i] # Absent
  <2>1. Uses!Store(i, "atom", x, table, << >>) /\ risks' = risks \cup Uses!BuffersAtom(i)
    BY <1>2 DEF Uses!SetAttrAtom, Uses!Live
  <2>2. Uses!BuffersAtom(i) \subseteq Uses!Risk /\ risks \subseteq Uses!Risk
    BY DEF Typed, Uses!BuffersAtom, Uses!Risk
  <2>3. x \in KindOf("atom") /\ "atom" \in Uses!Attr /\ << >> \in Seq(Atom) /\ table \in Table
    BY TypedHere DEF KindOf, Uses!Attr
  <2>4. risks \subseteq risks' /\ risks' \subseteq Uses!Risk
    BY <2>1, <2>2
  <2>. QED
    BY <1>2, <2>1, <2>3, <2>4, SetterKept
<1>. QED
  BY <1>1, <1>2

LEMMA SetAttrTypedKept ==
  ASSUME Typed, Tracks, NEW i \in made, NEW x \in Atom, Uses!SetAttrTyped(i, x)
  PROVE  Kept
<1>1. CASE called[i] = Absent
  BY <1>1, FailsTypedKept DEF Uses!SetAttrTyped, Uses!Live
<1>2. CASE called[i] # Absent
  <2>. DEFINE t == Uses!MakeMolecule(table, x)
              drops == <<x>>
  <2>1. Uses!Store(i, "atom", x, t, drops) /\ risks' = risks \cup Uses!BuffersAtom(i)
    BY <1>2 DEF Uses!SetAttrTyped, Uses!Live
  <2>2. Uses!BuffersAtom(i) \subseteq Uses!Risk /\ risks \subseteq Uses!Risk
    BY DEF Typed, Uses!BuffersAtom, Uses!Risk
  <2>3. x \in KindOf("atom") /\ "atom" \in Uses!Attr /\ drops \in Seq(Atom)
    BY DEF KindOf, Uses!Attr
  <2>4. t \in Table
    BY TypedHere, TableKept, Constants
  <2>5. risks \subseteq risks' /\ risks' \subseteq Uses!Risk
    BY <2>1, <2>2
  <2>. HIDE DEF t, drops
  <2>. QED
    BY <1>2, <2>1, <2>3, <2>4, <2>5, SetterKept
<1>. QED
  BY <1>1, <1>2

LEMMA SetCompAttrStringKept ==
  ASSUME Typed, Tracks, NEW i \in made, NEW c \in Uses!Compound, Uses!SetCompAttrString(i, c)
  PROVE  Kept
<1>1. CASE called[i] = Absent
  BY <1>1, FailsKept DEF Uses!SetCompAttrString, Uses!Live
<1>2. CASE called[i] # Absent
  <2>. DEFINE t == Uses!MakeCompound(table, c)
  <2>1. Uses!Store(i, "comp", c, t, << >>) /\ risks' = risks
    BY <1>2 DEF Uses!SetCompAttrString, Uses!Live
  <2>2. risks \subseteq risks' /\ risks' \subseteq Uses!Risk
    BY <2>1 DEF Typed
  <2>3. c \in KindOf("comp") /\ "comp" \in Uses!Attr /\ << >> \in Seq(Atom)
    BY DEF KindOf, Uses!Attr
  <2>4. t \in Table
    BY TypedHere, CompoundMadeType
  <2>. HIDE DEF t
  <2>. QED
    BY <1>2, <2>1, <2>2, <2>3, <2>4, SetterKept
<1>. QED
  BY <1>1, <1>2

LEMMA ElementKept ==
  ASSUME Typed, Tracks, NEW i \in made, called[i] # Absent, NEW n \in 1 .. MaxElements,
         NEW x \in Atom, NEW t \in Table, NEW drops \in Seq(Atom),
         Uses!SetCompElem(i, n, x, t, drops)
  PROVE  Kept
<1>. DEFINE c == Uses!SetNth(Uses!OldCompound(i), n, x)
            read == [t EXCEPT !.freedUsed = @ \/ Uses!ReadsFreedObject(i)]
            u == Uses!MakeMolecule(read, c)
<1>1. Uses!Store(i, "comp", c, u, drops) /\ risks' = risks
  BY DEF Uses!SetCompElem
<1>2. c \in Uses!Compound /\ c \in Uses!Molecule
  <2>1. i \in Id
    BY DEF Typed
  <2>2. Uses!OldCompound(i) \in Uses!Compound
    BY <2>1, OldIs
  <2>. QED
    BY <2>2, NthType, Constants
<1>3. read \in Table
  <2>1. (t.freedUsed \/ Uses!ReadsFreedObject(i)) \in BOOLEAN
    OBVIOUS
  <2>. QED
    BY <2>1 DEF Table
<1>. HIDE DEF c, read
<1>4. u \in Table
  BY <1>2, <1>3, TableKept
<1>5. c \in KindOf("comp") /\ "comp" \in Uses!Attr
  BY <1>2 DEF KindOf, Uses!Attr
<1>6. risks \subseteq risks' /\ risks' \subseteq Uses!Risk
  BY <1>1 DEF Typed
<1>. HIDE DEF u
<1>. QED
  BY <1>1, <1>4, <1>5, <1>6, SetterKept

LEMMA SetCompElemAtomKept ==
  ASSUME Typed, Tracks, NEW i \in made, NEW n \in 1 .. MaxElements, NEW x \in Atom,
         Uses!SetCompElemAtom(i, n, x)
  PROVE  Kept
<1>1. CASE called[i] = Absent
  BY <1>1, FailsKept DEF Uses!SetCompElemAtom, Uses!Live
<1>2. CASE called[i] # Absent
  <2>1. Uses!SetCompElem(i, n, x, table, << >>)
    BY <1>2 DEF Uses!SetCompElemAtom, Uses!Live
  <2>2. << >> \in Seq(Atom) /\ table \in Table
    BY TypedHere
  <2>. QED
    BY <1>2, <2>1, <2>2, ElementKept
<1>. QED
  BY <1>1, <1>2

LEMMA SetCompElemTypedKept ==
  ASSUME Typed, Tracks, NEW i \in made, NEW n \in 1 .. MaxElements, NEW x \in Atom,
         Uses!SetCompElemTyped(i, n, x)
  PROVE  Kept
<1>1. CASE called[i] = Absent
  BY <1>1, FailsTypedKept DEF Uses!SetCompElemTyped, Uses!Live
<1>2. CASE called[i] # Absent
  <2>. DEFINE t == Uses!MakeMolecule(table, x)
              drops == <<x>>
  <2>1. Uses!SetCompElem(i, n, x, t, drops)
    BY <1>2 DEF Uses!SetCompElemTyped, Uses!Live
  <2>2. drops \in Seq(Atom)
    OBVIOUS
  <2>3. t \in Table
    BY TypedHere, TableKept, Constants
  <2>. HIDE DEF t, drops
  <2>. QED
    BY <1>2, <2>1, <2>2, <2>3, ElementKept
<1>. QED
  BY <1>1, <1>2

\* A modify that ends sets the attributes that were asked for.
LEMMA EndedKept ==
  ASSUME Typed
  PROVE  /\ Uses!Ended.table \in Table /\ Uses!Ended.obj \in Objs
         /\ \A j \in Id : Uses!Ended.obj[j] # Absent => called[j] # Absent
         /\ modId # NoId /\ called[modId] # Absent =>
              \E v : /\ Uses!Ended.obj = [called EXCEPT ![modId] = v]
                     /\ Overlaid(v, called[modId], result)
<1>1. CASE ~(modId # NoId /\ called[modId] # Absent)
  BY <1>1, TypedHere DEF Uses!Ended, Uses!Live
<1>2. CASE modId # NoId /\ called[modId] # Absent
  <2>. DEFINE s == Uses!Written(modId)
              w == [called EXCEPT ![modId] = s.vals]
  <2>1. Uses!Ended.table = s.table /\ Uses!Ended.obj = w
    BY <1>2 DEF Uses!Ended, Uses!Live
  <2>2. called[modId] \in Uses!Values /\ modId \in Id /\ called \in Objs
    BY <1>2, TypedHere, ValueTypes
  <2>3. s = Uses!SetBoth([table |-> table, vals |-> called[modId]], result)
    BY DEF Uses!Written
  <2>. HIDE DEF s
  <2>4. s.table \in Table /\ s.vals \in Uses!Values /\ Overlaid(s.vals, called[modId], result)
    BY <2>2, <2>3, TypedHere, BothSet
  <2>5. w \in Objs /\ \A j \in Id : w[j] # Absent => called[j] # Absent
    BY <1>2, <2>2, <2>4 DEF Objs
  <2>. QED
    BY <2>1, <2>4, <2>5
<1>. QED
  BY <1>1, <1>2

LEMMA NothingBuffered == Uses!Nothing \in Buffered
BY DEF Uses!Nothing, Buffered, Uses!Attr

\* What was asked of the object of the modify is what its attributes are left with.
LEMMA EndWrites ==
  ASSUME Typed, Tracks, called' = Uses!Ended.obj
  PROVE  Uses!WritesAsked
<1>. SUFFICES ASSUME asked # Uses!Nothing, called[modId] # Absent, "made inside" \notin risks
              PROVE  called' = [called EXCEPT ![modId] =
                       [a \in Uses!Attr |-> IF asked[a] = NoValue THEN @[a] ELSE asked[a]]]
  BY DEF Uses!WritesAsked, Uses!Live
<1>1. modId # NoId /\ asked = result
  BY DEF Tracks
<1>2. PICK v : Uses!Ended.obj = [called EXCEPT ![modId] = v] /\ Overlaid(v, called[modId], result)
  BY <1>1, EndedKept
<1>3. v = [a \in Uses!Attr |-> IF asked[a] = NoValue THEN called[modId][a] ELSE asked[a]]
  BY <1>1, <1>2 DEF Overlaid
<1>. QED
  BY <1>2, <1>3

LEMMA ModifyStartKept ==
  ASSUME Typed, Tracks, NEW i \in made, Uses!ModifyStart(i)
  PROVE  Kept
<1>1. /\ table' = Uses!Ended.table /\ called' = Uses!Ended.obj
      /\ result' = Uses!Nothing /\ asked' = Uses!Nothing /\ UNCHANGED <<given, made, risks>>
      /\ modId' \in {i, NoId} /\ modObj' \in BOOLEAN /\ status' \in BOOLEAN
  BY DEF Uses!ModifyStart, Uses!Live
<1>2. Typed' /\ Tracks'
  BY <1>1, EndedKept, NothingBuffered DEF Typed, Tracks
<1>. QED
  BY <1>1, <1>2, EndWrites DEF Kept

LEMMA ModifyEndKept ==
  ASSUME Typed, Tracks, NEW i \in made, Uses!ModifyEnd(i)
  PROVE  Kept
<1>1. /\ IF i = modId THEN table' = Uses!Ended.table /\ called' = Uses!Ended.obj
                      ELSE table' = table /\ called' = called /\ status' = FALSE
      /\ result' = Uses!Nothing /\ asked' = Uses!Nothing /\ UNCHANGED <<given, made, risks>>
      /\ modId' = NoId /\ modObj' = FALSE /\ status' \in BOOLEAN
  BY DEF Uses!ModifyEnd, Uses!Live
<1>2. Typed' /\ Tracks'
  <2>1. table' \in Table /\ called' \in Objs /\ \A j \in Id : called'[j] # Absent => called[j] # Absent
    BY <1>1, EndedKept, TypedHere
  <2>. QED
    BY <1>1, <2>1, NothingBuffered DEF Typed, Tracks
<1>3. Uses!WritesAsked
  <2>1. CASE i = modId
    BY <1>1, <2>1, EndWrites
  <2>2. CASE i # modId
    BY <1>1, <2>2 DEF Uses!WritesAsked
  <2>. QED
    BY <2>1, <2>2
<1>. QED
  BY <1>1, <1>2, <1>3 DEF Kept

LEMMA GiveAtomKept ==
  ASSUME Typed, Tracks, NEW x \in Atom, Uses!GiveAtom(x) PROVE Kept
<1>1. table' \in Table /\ given' \subseteq Uses!Molecule
  BY TypedHere, TableKept, Constants DEF Uses!GiveAtom, Typed
<1>2. /\ UNCHANGED <<called, made, modId, modObj, result, asked, risks>> /\ status' = TRUE
  BY DEF Uses!GiveAtom
<1>. QED
  BY <1>1, <1>2, Quiet DEF Kept, Typed, Tracks

LEMMA GetAttrAtomKept ==
  ASSUME Typed, Tracks, NEW i \in made, NEW a \in Uses!Attr, Uses!GetAttrAtom(i, a) PROVE Kept
<1>1. CASE called[i] = Absent
  BY <1>1, FailsKept DEF Uses!GetAttrAtom, Uses!Live
<1>2. CASE called[i] # Absent
  <2>1. /\ given' = given \cup {called[i][a]} /\ table' = Uses!IncrUses(table, called[i][a])
        /\ UNCHANGED <<called, made, modId, modObj, result, asked, risks>> /\ status' = TRUE
    BY <1>2 DEF Uses!GetAttrAtom, Uses!Live
  <2>2. called[i][a] \in Uses!Molecule
    BY <1>2, ValueTypes DEF Typed
  <2>3. table' \in Table /\ given' \subseteq Uses!Molecule
    BY <2>1, <2>2, TableKept DEF Typed
  <2>. QED
    BY <2>1, <2>3, Quiet DEF Kept, Typed, Tracks
<1>. QED
  BY <1>1, <1>2

LEMMA MakeWmeKept ==
  ASSUME Typed, Tracks, NEW i \in Id \ made, NEW x \in Atom \cup {NoValue},
         NEW c \in Uses!Compound \cup {NoValue}, NEW ok \in BOOLEAN, Uses!MakeWme(i, x, c, ok)
  PROVE  Kept
<1>. DEFINE r == [atom |-> x, comp |-> c]
            t == Uses!Parsed(x, c)
            s == Uses!SetBoth([table |-> t, vals |-> Uses!Default], r)
<1>1. /\ table' = IF ok THEN s.table ELSE t
      /\ called' = IF ok THEN [called EXCEPT ![i] = s.vals] ELSE called
      /\ made' = IF ok THEN made \cup {i} ELSE made
      /\ result' = (IF modId # NoId THEN r ELSE result) /\ status' = ok
      /\ risks' = risks \cup Uses!Inside("made inside")
      /\ UNCHANGED <<given, modId, modObj, asked>>
  BY DEF Uses!MakeWme
<1>2. r \in Buffered /\ Uses!Default \in Uses!Values
  BY Constants DEF Buffered, Uses!Default, Uses!Values
<1>3. t \in Table
  <2>. DEFINE u == IF x = NoValue THEN table ELSE Uses!MakeMolecule(table, x)
  <2>1. u \in Table
    BY TypedHere, TableKept, Constants
  <2>2. t = IF c = NoValue THEN u ELSE Uses!MakeCompound(u, c)
    BY DEF Uses!Parsed
  <2>. HIDE DEF t, u
  <2>. QED
    BY <2>1, <2>2, CompoundMadeType
<1>. HIDE DEF t, r
<1>4. s.table \in Table /\ s.vals \in Uses!Values
  BY <1>2, <1>3, BothSet
<1>. HIDE DEF s
<1>5. table' \in Table /\ called' \in Objs /\ \A j \in Id : called'[j] # Absent => j \in made'
  BY <1>1, <1>3, <1>4 DEF Typed, Objs
<1>6. risks \subseteq risks' /\ risks' \subseteq Uses!Risk
  BY <1>1 DEF Typed, Uses!Inside, Uses!Risk
<1>7. Tracks'
  BY <1>1 DEF Tracks, Uses!Inside
<1>8. Typed'
  BY <1>1, <1>2, <1>5, <1>6 DEF Typed
<1>. QED
  BY <1>1, <1>6, <1>7, <1>8, Quiet DEF Kept

LEMMA CopyWmeKept ==
  ASSUME Typed, Tracks, NEW i \in made, NEW j \in Id \ made, Uses!CopyWme(i, j)
  PROVE  Kept
<1>1. CASE called[i] = Absent
  BY <1>1, FailsKept DEF Uses!CopyWme, Uses!Live
<1>2. CASE called[i] # Absent
  <2>. DEFINE v == called[i]
              t == Uses!IncrUses(table, v["atom"])
  <2>1. /\ called' = [called EXCEPT ![j] = v] /\ made' = made \cup {j}
        /\ table' = Uses!IncrUses(t, v["comp"]) /\ status' = TRUE
        /\ UNCHANGED <<given, modId, modObj, result, asked, risks>>
    BY <1>2 DEF Uses!CopyWme, Uses!Live
  <2>2. v \in Uses!Values /\ v["atom"] \in Uses!Molecule /\ v["comp"] \in Uses!Molecule
    BY <1>2, ValueTypes, Constants DEF Typed
  <2>3. t \in Table
    BY <2>2, TypedHere, TableKept
  <2>. HIDE DEF t
  <2>4. table' \in Table
    BY <2>1, <2>2, <2>3, TableKept
  <2>5. called' \in Objs /\ \A k \in Id : called'[k] # Absent => k \in made'
    BY <2>1, <2>2 DEF Typed, Objs
  <2>. QED
    BY <2>1, <2>4, <2>5, Quiet DEF Kept, Typed, Tracks
<1>. QED
  BY <1>1, <1>2

LEMMA SpecializeWmeKept ==
  ASSUME Typed, Tracks, NEW i \in made, Uses!SpecializeWme(i)
  PROVE  Kept
<1>1. CASE called[i] = Absent
  BY <1>1, FailsKept DEF Uses!SpecializeWme, Uses!Live
<1>2. CASE called[i] # Absent
  <2>1. /\ modObj' = (modObj /\ i # modId) /\ status' = TRUE
        /\ risks' = risks \cup (IF i = modId THEN {"specialized inside"} ELSE {})
        /\ UNCHANGED <<table, given, called, made, modId, result, asked>>
    BY <1>2 DEF Uses!SpecializeWme, Uses!Live
  <2>2. risks \subseteq risks' /\ risks' \subseteq Uses!Risk
    BY <2>1 DEF Typed, Uses!Risk
  <2>3. "made inside" \notin risks' => "made inside" \notin risks
    BY <2>2
  <2>. QED
    BY <2>1, <2>2, <2>3, Quiet DEF Kept, Typed, Tracks
<1>. QED
  BY <1>1, <1>2

LEMMA RemoveWmeKept ==
  ASSUME Typed, Tracks, NEW i \in made, Uses!RemoveWme(i)
  PROVE  Kept
<1>1. CASE called[i] = Absent
  BY <1>1, FailsKept DEF Uses!RemoveWme, Uses!Live
<1>2. CASE called[i] # Absent
  <2>. DEFINE v == called[i]
              t == Uses!DecrUses(table, v["atom"])
  <2>1. /\ called' = [called EXCEPT ![i] = Absent]
        /\ table' = Uses!DecrUses(t, v["comp"]) /\ status' = TRUE
        /\ modObj' = (modObj /\ i # modId)
        /\ UNCHANGED <<given, made, modId, result, asked, risks>>
    BY <1>2 DEF Uses!RemoveWme, Uses!Live
  <2>2. v["atom"] \in Uses!Molecule /\ v["comp"] \in Uses!Molecule
    BY <1>2, ValueTypes, Constants DEF Typed
  <2>3. t \in Table
    BY <2>2, TypedHere, TableKept
  <2>. HIDE DEF t
  <2>4. table' \in Table
    BY <2>1, <2>2, <2>3, TableKept
  <2>5. called' \in Objs /\ \A k \in Id : called'[k] # Absent => k \in made
    BY <2>1 DEF Typed, Objs
  <2>. QED
    BY <2>1, <2>4, <2>5, Quiet DEF Kept, Typed, Tracks
<1>. QED
  BY <1>1, <1>2

-----------------------------------------------------------------------------
(* The theorems.                                                           *)

Goes == Kept /\ (Sound /\ risks' = {} => Sound')

LEMMA CallGoes ==
  ASSUME Typed, Tracks, Uses!Next
  PROVE  Goes
<1>1. made \subseteq Id
  BY DEF Typed
<1>2. ASSUME NEW x \in Atom, Uses!GiveAtom(x) PROVE Goes
  BY <1>2, GiveAtomKept, GiveAtomSound DEF Goes
<1>3. CASE Uses!Fails
  BY <1>3, FailsKept, SameSound DEF Goes, Uses!Fails
<1>4. ASSUME NEW i \in Id \ made, NEW x \in Atom \cup {NoValue},
             NEW c \in Uses!Compound \cup {NoValue}, NEW ok \in BOOLEAN,
             Uses!MakeWme(i, x, c, ok)
      PROVE  Goes
  BY <1>4, MakeWmeKept, MakeWmeSound DEF Goes
<1>5. ASSUME NEW i \in made, Uses!ModifyStart(i) PROVE Goes
  BY <1>1, <1>5, ModifyStartKept, ModifyStartSound DEF Goes
<1>6. ASSUME NEW i \in made, Uses!ModifyEnd(i) PROVE Goes
  BY <1>1, <1>6, ModifyEndKept, ModifyEndSound DEF Goes
<1>7. ASSUME NEW i \in made, Uses!SpecializeWme(i) PROVE Goes
  BY <1>1, <1>7, SpecializeWmeKept, SpecializeWmeSound DEF Goes
<1>8. ASSUME NEW i \in made, Uses!RemoveWme(i) PROVE Goes
  BY <1>1, <1>8, RemoveWmeKept, RemoveWmeSound DEF Goes
<1>9. ASSUME NEW i \in made, NEW a \in Uses!Attr, Uses!GetAttrAtom(i, a) PROVE Goes
  BY <1>1, <1>9, GetAttrAtomKept, GetAttrAtomSound DEF Goes
<1>10. ASSUME NEW i \in made, NEW j \in Id \ made, Uses!CopyWme(i, j) PROVE Goes
  BY <1>1, <1>10, CopyWmeKept, CopyWmeSound DEF Goes
<1>11. ASSUME NEW i \in made, NEW c \in Uses!Compound, Uses!SetCompAttrString(i, c) PROVE Goes
  BY <1>1, <1>11, SetCompAttrStringKept, SetCompAttrStringSound DEF Goes
<1>12. ASSUME NEW i \in made, NEW x \in Atom, Uses!SetAttrAtom(i, x) PROVE Goes
  BY <1>1, <1>12, SetAttrAtomKept, SetAttrAtomSound DEF Goes
<1>13. ASSUME NEW i \in made, NEW x \in Atom, Uses!SetAttrTyped(i, x) PROVE Goes
  BY <1>1, <1>13, SetAttrTypedKept, SetAttrTypedSound DEF Goes
<1>14. ASSUME NEW i \in made, NEW x \in Atom, NEW n \in 1 .. MaxElements,
              Uses!SetCompElemAtom(i, n, x)
       PROVE  Goes
  BY <1>1, <1>14, SetCompElemAtomKept, SetCompElemAtomSound DEF Goes
<1>15. ASSUME NEW i \in made, NEW x \in Atom, NEW n \in 1 .. MaxElements,
              Uses!SetCompElemTyped(i, n, x)
       PROVE  Goes
  BY <1>1, <1>15, SetCompElemTypedKept, SetCompElemTypedSound DEF Goes
<1>. QED
  BY <1>2, <1>3, <1>4, <1>5, <1>6, <1>7, <1>8, <1>9, <1>10, <1>11, <1>12, <1>13, <1>14, <1>15
     DEF Uses!Next

LEMMA CallStep ==
  ASSUME CallOK, [Uses!Next]_(Uses!vars)
  PROVE  CallOK' /\ [Uses!WritesAsked]_(Uses!vars)
<1>1. CASE Uses!Next
  <2>1. Kept /\ (Sound /\ risks' = {} => Sound')
    BY <1>1, CallGoes DEF CallOK, Goes
  <2>2. risks' = {} => risks = {}
    BY <2>1 DEF Kept
  <2>. QED
    BY <2>1, <2>2 DEF CallOK, Kept
<1>2. CASE UNCHANGED Uses!vars
  BY <1>2 DEF Uses!vars, CallOK, Typed, Tracks, Sound, Held
<1>. QED
  BY <1>1, <1>2

LEMMA InitCovers == Covers(Uses!InitialTable, {})
<1>. DEFINE t == Uses!InitialTable
<1>1. /\ t.freedUsed = FALSE
      /\ \A m \in Uses!Molecule : t.count[m] = IF m \in {Nil, << >>} THEN Uses!Permanent ELSE 0
  BY DEF Uses!InitialTable
<1>2. t \in Table
  BY Constants DEF Uses!InitialTable, Table
<1>. HIDE DEF t
<1>3. Uses!ElementUses(t) = {}
  <2>. SUFFICES ASSUME NEW c \in Uses!Compound, t.count[c] > 0, NEW p \in Elements(c, Len(c))
                PROVE  FALSE
    BY ElementUsesAre
  <2>1. c = << >>
    BY <1>1, Constants
  <2>. QED
    BY <2>1 DEF Elements
<1>4. Backed(t, {})
  <2>1. IsFiniteSet({}) /\ Cardinality({}) = 0
    BY FS_EmptySet
  <2>2. \A m : Of({}, m) = {}
    BY DEF Of
  <2>3. \A m \in Uses!Molecule : t.count[m] \in Nat
    BY <1>2, Constants DEF Table
  <2>. QED
    BY <2>1, <2>2, <2>3 DEF Backed
<1>5. {} \cup Uses!ElementUses(t) = {} /\ Nil \in Uses!Molecule /\ << >> \in Uses!Molecule
  BY <1>3, Constants
<1>. QED
  BY <1>1, <1>2, <1>4, <1>5 DEF Covers, t

LEMMA CallInit ==
  ASSUME Uses!Init PROVE CallOK
<1>. DEFINE p == ProgUse(Nil)
            q == ProgUse(<< >>)
            X == {} \cup {p}
<1>1. /\ table = Uses!InitialTable /\ given = {Nil, << >>} /\ called = [i \in Id |-> Absent]
      /\ made = {} /\ modId = NoId /\ modObj = FALSE /\ result = Uses!Nothing
      /\ status = TRUE /\ asked = Uses!Nothing /\ risks = {}
  BY DEF Uses!Init
<1>2. Covers(table, {})
  BY <1>1, InitCovers
<1>3. p[2] = Nil /\ q[2] = << >> /\ Outer(p) /\ Outer(q)
  BY Constants DEF ProgUse, Outer
<1>4. Held = X \cup {q}
  <2>1. AttrUses(called) = {}
    BY <1>1 DEF AttrUses
  <2>. QED
    BY <1>1, <2>1 DEF Held, Others, Bufs
<1>. HIDE DEF p, q
<1>5. Covers(table, X)
  BY <1>2, <1>3, CoversPermanent DEF Covers
<1>. HIDE DEF X
<1>6. Covers(table, X \cup {q})
  BY <1>3, <1>5, CoversPermanent DEF Covers
<1>7. Sound
  BY <1>1, <1>4, <1>6 DEF Sound
<1>8. Typed
  <2>1. table \in Table /\ {Nil, << >>} \subseteq Uses!Molecule
    BY <1>6, Constants DEF Covers
  <2>. QED
    BY <1>1, <2>1, NothingBuffered DEF Typed, Objs
<1>9. Tracks
  BY <1>1 DEF Tracks
<1>. QED
  BY <1>7, <1>8, <1>9 DEF CallOK

LEMMA CallCovers ==
  ASSUME CallOK PROVE Uses!TypeOK /\ Uses!UsesCoverUnlessRisked
<1>1. Uses!TypeOK
  <2>1. modId \in Id \cup {NoId}
    BY DEF CallOK, Typed
  <2>. QED
    BY <2>1 DEF CallOK, Typed, Uses!TypeOK, Table, Objs, Buffered
<1>2. ASSUME risks = {}
      PROVE  /\ Uses!FreedNeverUsed
             /\ \A m \in Uses!Molecule :
                  table.count[m] = Uses!Permanent \/ table.count[m] >= Uses!UsesHeld(m)
  <2>1. Covers(table, Held)
    BY <1>2 DEF CallOK, Sound
  <2>2. ~table.freedUsed /\ Backed(table, Uses!AllUses)
    BY <2>1, UsersAre DEF Covers
  <2>3. \A m : Uses!UsesHeld(m) = Cardinality(Of(Uses!AllUses, m))
    <3>1. \A m : Uses!UsesHeld(m) = Uses!Cardinality(Of(Uses!AllUses, m))
      BY DEF Uses!UsesHeld, Of
    <3>2. \A S : Uses!Cardinality(S) = Cardinality(S)
      BY DEF Uses!Cardinality, Cardinality
    <3>. QED
      BY <3>1, <3>2
  <2>. QED
    BY <2>2, <2>3 DEF Backed, Uses!FreedNeverUsed
<1>. QED
  BY <1>1, <1>2 DEF Uses!UsesCoverUnlessRisked

LEMMA PartCalls ==
  ASSUME [Changes \/ Sweeps \/ Calls]_mcVars
  PROVE  [Uses!Next]_(Uses!vars)
<1>1. CASE Calls
  BY <1>1 DEF Calls
<1>2. CASE Changes \/ Sweeps \/ UNCHANGED mcVars
  BY <1>2 DEF Changes, Sweeps, mcVars, callVars, Uses!vars
<1>. QED
  BY <1>1, <1>2

LEMMA CallInvariant == MCSpec => []CallOK
<1>1. MCInit => CallOK
  BY CallInit DEF MCInit
<1>2. CallOK /\ [Changes \/ Sweeps \/ Calls]_mcVars => CallOK'
  BY PartCalls, CallStep
<1>. QED
  BY <1>1, <1>2, PTL DEF MCSpec

\* Of the run of calls: whoever uses a molecule has a use of it (ml_table.c:1069),
\* unless calls were made in an order that use counts do not stand.
THEOREM UsesThroughout == MCSpec => []UsesCoverUnlessRisked
<1>1. CallOK => UsesCoverUnlessRisked
  BY CallCovers DEF UsesCoverUnlessRisked
<1>. QED
  BY <1>1, CallInvariant, PTL

\* A modify (cb_com.c:1679, 1710) writes what was set since it started, and nothing
\* else, or tells its caller that it did not, in whatever order calls are made.
THEOREM EndsThroughout == MCSpec => EndsAsAsked
<1>1. CallOK /\ [Changes \/ Sweeps \/ Calls]_mcVars =>
        [(part \in {"uses", "buffer"}) => Uses!WritesAsked]_mcVars
  <2>1. CASE Changes \/ Sweeps
    BY <2>1 DEF Changes, Sweeps
  <2>2. CASE Calls
    <3>1. CallOK /\ Uses!Next => Uses!WritesAsked
      BY CallGoes DEF CallOK, Goes, Kept
    <3>. QED
      BY <2>2, <3>1 DEF Calls
  <2>. QED
    BY <2>1, <2>2
<1>. QED
  BY <1>1, CallInvariant, PTL DEF MCSpec, EndsAsAsked

\* Both of any program of calls.
THEOREM CallsThroughout ==
  Uses!Spec => [](Uses!TypeOK /\ Uses!UsesCoverUnlessRisked) /\ Uses!EndsAsAsked
<1>1. Uses!Init => CallOK
  BY CallInit
<1>2. CallOK /\ [Uses!Next]_(Uses!vars) => CallOK' /\ [Uses!WritesAsked]_(Uses!vars)
  BY CallStep
<1>3. CallOK => Uses!TypeOK /\ Uses!UsesCoverUnlessRisked
  BY CallCovers
<1>. QED
  BY <1>1, <1>2, <1>3, PTL DEF Uses!Spec, Uses!EndsAsAsked
=============================================================================
