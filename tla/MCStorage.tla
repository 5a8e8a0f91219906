------------------------------ MODULE MCStorage ------------------------------
(* Small instances of SaveRestore (the parts "objects", with references,    *)
(* "rules", with entries of several rules, and "numbers", with generated    *)
(* numbers and several files), of HashTable ("table") and of DynamicArray   *)
(* ("array").  A behaviour is one of one part; the variables of the others  *)
(* stay as they are at first.                                               *)
EXTENDS HashTable, FiniteSets, TLC

CONSTANTS b1, b2, e1, e2, r1, r2, k1, k2, k3, k4,   \* the names of the instances
          Block, Rule, EntryBlock, Sees, Rules,
          MaxObjects, MaxId, MaxTag, MaxGen, MaxSaves,          \* see SaveRestore
          Item, NULL, Garbage, InitialSize, Room, Most, MaxLength,  \* DynamicArray
          Parts

VARIABLES part,
          eb, wm, refset, nextId, clock, gen, file, saves, atSave, last,
          array, stored, popped

saveVars == <<eb, wm, refset, nextId, clock, gen, file, saves, atSave, last>>
arrayVars == <<array, stored, popped>>

\* e2 sees one block of e1, and has one rule of it.
MCSees == e1 :> <<b1, b2>> @@ e2 :> <<b1>>
MCRules == e1 :> {r1, r2} @@ e2 :> {r2}

\* Three keys share a bucket.
MCHash == k1 :> 0 @@ k2 :> 0 @@ k3 :> 0 @@ k4 :> 1

State == INSTANCE SaveRestore
Array == INSTANCE DynamicArray WITH result <- popped

ASSUME StorageAssumption ==
  /\ Parts \subseteq {"objects", "rules", "numbers", "table", "array"}
  /\ State!SeesAssumption /\ State!RulesAssumption /\ State!BoundsAssumption
  /\ SizeAssumption /\ HashAssumption /\ NoneAssumption
  /\ Array!SizeAssumption /\ Array!GarbageAssumption

MCInit ==
  /\ part \in Parts
  /\ State!Init /\ Init /\ Array!Init
  /\ part \in {"objects", "rules", "numbers"} \/ eb = CHOOSE e \in EntryBlock : TRUE

\* The bounds of the parts of SaveRestore: one rule and one file; no references, one
\* object of a block, one entry of a rule and one file, but more ids; one object, but
\* more files and numbers.
OneFile == gen' = 0 /\ saves' <= 1 /\ Cardinality(refset') <= 2
FewIds == nextId' <= MaxId
OneRule == FewIds /\ \A x, y \in refset' : x.rule = y.rule
NoReferences ==
  /\ clock' < nextId' /\ \A b \in Block : Len(wm'[b]) <= 1
  /\ \A x, y \in refset' : x.rule = y.rule => x = y
  /\ Cardinality(refset') + Cardinality(State!Objects') <= 3
  /\ \A o \in State!Objects' : o.ref \notin State!Ids'
OneObject ==
  /\ Cardinality(State!Objects') <= 1 /\ Cardinality(refset') <= 1
  /\ nextId' < MaxId

Saves == /\ State!Next
         /\ \/ part = "objects" /\ OneFile /\ OneRule
            \/ part = "rules" /\ OneFile /\ NoReferences
            \/ part = "numbers" /\ OneObject
         /\ UNCHANGED <<part, vars, arrayVars>>
Looks == part = "table" /\ Next /\ UNCHANGED <<part, saveVars, arrayVars>>
Stores == part = "array" /\ Array!Next /\ UNCHANGED <<part, saveVars, vars>>

mcVars == <<part, saveVars, vars, arrayVars>>
MCSpec == MCInit /\ [][Saves \/ Looks \/ Stores]_mcVars

\* Of SaveRestore, see there: RESTORESTATE (states.c) gives back the objects with
\* their references, what had fired and the counter of generated numbers, and no
\* id is given twice.
MemoryRestored == State!MemoryRestored /\ State!IdsDistinct
FiredStaysFired == State!FiredStaysFired
GeneratedFreshUnlessAdded == State!GeneratedFreshUnlessAdded
ConflictSetRestored == State!ConflictSetRestored
GeneratedFresh == State!GeneratedFresh

\* Of HashTable and DynamicArray, see there: they are a dictionary that counts its
\* keys (hash.c) and a sequence that stays inside its memory (dyar.c).
ActsAsDictionary ==
  /\ D!DInit /\ [][part = "table" => D!DNext]_(D!dvars)
  /\ [](part = "table" => KeysCounted)
ActsAsSequence ==
  /\ Array!S!SInit /\ [][part = "array" => Array!S!SNext]_(Array!S!svars)
  /\ []Array!NeverOverruns
=============================================================================
