------------------------------ MODULE Molecules ------------------------------
(* The table of molecules (ml_table.c) as operators on a record: count is   *)
(* the ref_count of each value, 0 for a value that is not in the table, and *)
(* freedUsed tells whether a molecule that was freed has been used since.   *)
(* Values are interned, so a value stands for the molecule that holds it.   *)
(* This is the release build (NDEBUG), in which the last use frees.         *)
EXTENDS Naturals, Sequences, SequencesExt

CONSTANTS Atom,         \* atoms, NIL among them
          Nil,          \* SA_nil, permanent as SA_compound_empty is
          MaxElements,  \* bound on the elements of a compound
          Threshold     \* PERMANENCE_THRESHOLD

Compound == UNION {[1 .. n -> Atom] : n \in 0 .. MaxElements}

MoleculesAssumption ==
  /\ Nil \in Atom /\ Atom \cap Compound = {}
  /\ MaxElements \in Nat /\ Threshold \in Nat \ {0}

Molecule == Atom \cup Compound
Permanent == Threshold + 1

\* The table once rul__mol_init has made the predefined constants.
InitialTable ==
  [count |-> [m \in Molecule |-> IF m \in {Nil, << >>} THEN Permanent ELSE 0],
   freedUsed |-> FALSE]

IncrUses(table, m) ==
  CASE table.count[m] = Permanent -> table
    [] table.count[m] = 0 -> [table EXCEPT !.freedUsed = TRUE]
    [] OTHER -> [table EXCEPT !.count[m] = @ + 1]

DecrOne(table, m) ==
  CASE table.count[m] = Permanent -> table
    [] table.count[m] = 0 -> [table EXCEPT !.freedUsed = TRUE]
    [] OTHER -> [table EXCEPT !.count[m] = @ - 1]

\* The last use of a compound gives up its uses of its elements.
DecrUses(table, m) ==
  LET freed == m \in Compound /\ table.count[m] = 1
  IN  FoldLeft(DecrOne, DecrOne(table, m), IF freed THEN m ELSE << >>)

\* The maker of a molecule gets one use of it.
\* Fault: a compound takes no use of its elements.
MakeMolecule_Borrows(table, m) ==
  IF table.count[m] > 0 THEN IncrUses(table, m) ELSE [table EXCEPT !.count[m] = 1]
MakeMolecule(table, m) ==
  IF table.count[m] > 0
  THEN IncrUses(table, m)
  ELSE LET made == [table EXCEPT !.count[m] = 1]
       IN  FoldLeft(IncrUses, made, IF m \in Compound THEN m ELSE << >>)

\* rul__mol_set_comp_nth (ml_comps.c): the compound with an element replaced or
\* added, after as many NILs as it takes.
SetNth(compound, n, atom) ==
  [i \in 1 .. (IF n > Len(compound) THEN n ELSE Len(compound)) |->
     IF i = n THEN atom ELSE IF i <= Len(compound) THEN compound[i] ELSE Nil]

\* The uses that compounds in the table have of their elements: who uses what.
ElementUses(table) ==
  LET live == {c \in Compound : table.count[c] > 0}
  IN  UNION {{<<<<"element", c, k>>, c[k]>> : k \in DOMAIN c} : c \in live}
==============================================================================
