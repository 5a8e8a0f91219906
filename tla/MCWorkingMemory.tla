--------------------------- MODULE MCWorkingMemory ---------------------------
(* Small instances of WorkingMemory (the part "changes"), of WmSweep        *)
(* ("sweeps") and of CallIn ("uses", the calls in whose order use counts    *)
(* stand, and "buffer", all calls, with no elements of compounds).  A       *)
(* behaviour is one of one part; the variables of the others stay as they   *)
(* are at first.                                                            *)
EXTENDS WorkingMemory, TLC

CONSTANTS o1, o2, b1, b2,
          SweepId,                          \* the instance ids of WmSweep
          Id, Atom, Nil, MaxElements, Threshold, NoId, NoValue,     \* of CallIn
          Parts

VARIABLES part, objects, wmoLists, nextCell, suspended,
          table, given, called, made, modId, modObj, result, status, asked, risks

\* Two classes, the second a subclass of the first declared in another block.
MCTwoIds == {o1, o2}
MCClasses == {"base", "derived"}
MCBlocks == {"db1", "db2"}
MCBlockOf == [c \in MCClasses |-> IF c = "base" THEN "db1" ELSE "db2"]
MCIsSubclass == {<<"derived", "base">>}

\* Two classes of the second block: SPECIALIZE may stay on a list or leave it.
Sweep == INSTANCE WmSweep WITH
  Id <- SweepId, Block <- <<b1, b2>>,
  ClassBlock <- [a |-> b1, b |-> b2, c |-> b2],
  Inherits <- {<<"b", "a">>, <<"c", "b">>, <<"c", "a">>},
  MaxCell <- 4, MaxDepth <- 3,
  obj <- objects, lists <- wmoLists, stack <- suspended

\* Instance ids are only compared.
IdSymmetry == Permutations(SweepId) \cup Permutations(MCTwoIds)

Uses == INSTANCE CallIn WITH obj <- called

ASSUME CallInAssumption == Uses!CallInAssumption /\ Uses!MoleculesAssumption
ASSUME SweepAssumption ==
  /\ Parts \subseteq {"changes", "sweeps", "uses", "buffer"}
  /\ Sweep!BlockAssumption /\ Sweep!ClassAssumption
  /\ Sweep!InheritsAssumption

sweepVars == <<objects, wmoLists, nextCell, suspended>>

callVars ==
  <<table, given, called, made, modId, modObj, result, status, asked, risks>>

MCInit == part \in Parts /\ Init /\ Sweep!Init /\ Uses!Init
Changes == part = "changes" /\ Next /\ UNCHANGED <<part, sweepVars, callVars>>
Sweeps == part = "sweeps" /\ Sweep!Next /\ UNCHANGED <<part, wmVars, callVars>>
\* The program holds one molecule besides the predefined ones.
FewGiven == Cardinality(given') <= 3
NoElements == \A c \in Uses!Compound \ {<< >>} : table'.count[c] = 0
Calls ==
  /\ part \in {"uses", "buffer"}
  /\ Uses!Next
  /\ IF part = "uses" THEN risks' = {} /\ FewGiven ELSE NoElements
  /\ UNCHANGED <<part, wmVars, sweepVars>>
mcVars == <<part, wmVars, sweepVars, callVars>>
Moves == /\ part = "uses" /\ Uses!Next /\ risks' \subseteq {"specialized inside"}
         /\ UNCHANGED <<part, wmVars, sweepVars>>
MCSpec == MCInit /\ [][Changes \/ Sweeps \/ Calls]_mcVars
\* With objects specialized while they are modified.
MCSpecMoved == MCInit /\ [][Moves]_mcVars

\* CursorsLiveUnlessTaken and SweepsComplete of WmSweep: a sweep keeps its place in
\* the lists (wm_updat.c:519) unless code it called takes the object at that place
\* from its list, and one that keeps it removes all it was asked to remove.
\* CursorsLive of WmSweep is the first without the exception.
CursorsLiveUnlessTaken == Sweep!CursorsLiveUnlessTaken
CursorsLive == Sweep!CursorsLive
SweepsComplete == Sweep!SweepsComplete
\* SweepsSubclasses of WmSweep: REMOVE-EVERY leaves no object of a subclass.
SweepsSubclasses == Sweep!SweepsSubclasses

\* Of CallIn, see there: use counts cover the users (ml_table.c), unless calls
\* were made in an order they do not stand; a modify of the call-in interface
\* (cb_com.c) writes what it was given; and nothing that was freed is used.
UsesCoverUnlessRisked ==
  part = "uses" => Uses!TypeOK /\ Uses!UsesCoverUnlessRisked
EndsAsAsked == [][(part \in {"uses", "buffer"}) => Uses!WritesAsked]_mcVars
FreedNeverUsed == Uses!FreedNeverUsed
=============================================================================
