------------------------------- MODULE CallIn -------------------------------
(* The call-in interface (cb_com.c): a C program makes, copies, specializes *)
(* and removes objects and sets their attributes, one at a time, or several *)
(* between modify_wme_start and modify_wme_end, which keep the values in a  *)
(* buffer.  Every call passes no entry block, so no method runs.  Objects   *)
(* have an attribute of an atom and one of a compound, and are not being    *)
(* changed by a rule when a call is made.                                   *)
EXTENDS Molecules, FiniteSets

CONSTANTS Id,           \* instance ids, in the order they are given
          Absent,       \* the object of an id that has none
          NoId, NoValue

Attr == {"atom", "comp"}
Nothing == [a \in Attr |-> NoValue]
Values == [atom : Atom, comp : Compound]
Risk == {"atom buffered", "made inside", "specialized inside"}

CallInAssumption ==
  Absent \notin Molecule \cup Values /\ NoValue \notin Molecule /\ NoId \notin Id

VARIABLES table,        \* see Molecules
          given,        \* the molecules the program has been given a use of
          obj, made,    \* the object of each id; the ids that were given
          modId,        \* SM_mod_wme_id
          modObj,       \* whether SO_mod_wme points at its object
          result,       \* SM_result; it is not read but between the two calls
          status,       \* what the last call returned
          asked,        \* history: what was set since modify_wme_start
          risks         \* history: calls whose order use counts do not stand

vars == <<table, given, obj, made, modId, modObj, result, status, asked, risks>>

Init ==
  /\ table = InitialTable /\ given = {Nil, << >>}
  /\ obj = [i \in Id |-> Absent] /\ made = {}
  /\ modId = NoId /\ modObj = FALSE /\ result = Nothing
  /\ status = TRUE /\ asked = Nothing /\ risks = {}

Live(i) == obj[i] # Absent
\* A program that used what was freed may do anything: it is left alone.
Defined == ~table.freedUsed
\* What somebody points at after it was freed: its value, made again, is another
\* molecule, so that is left alone as well.
Dangling == {m \in Molecule :
               /\ table.count[m] = 0
               /\ \/ m \in given
                  \/ \E a \in Attr :
                       result[a] = m \/ \E i \in Id : Live(i) /\ obj[i][a] = m}
Fails == /\ status' = FALSE
         /\ UNCHANGED <<table, given, obj, made, modId, modObj, result, asked, risks>>
\* A setter for a type has made its atom by then, and gives it up.
FailsTyped(x) ==
  /\ table' = DecrUses(MakeMolecule(table, x), x) /\ status' = FALSE
  /\ UNCHANGED <<given, obj, made, modId, modObj, result, asked, risks>>

\* rul__wm_set_offset_val of wm_updat.c on a table and a record of values
Assign(state, attr, m) ==
  [table |-> DecrUses(IncrUses(state.table, m), state.vals[attr]),
   vals |-> [state.vals EXCEPT ![attr] = m]]

\* The loop of rul__modify_wme_end: each value in the buffer is set, and the use
\* the buffer has of it given up.
SetBuffered(state, buffer, attr) ==
  IF buffer[attr] = NoValue THEN state
  ELSE [Assign(state, attr, buffer[attr]) EXCEPT !.table = DecrUses(@, buffer[attr])]
SetBoth(state, buffer) == SetBuffered(SetBuffered(state, buffer, "atom"), buffer, "comp")
Written(i) == SetBoth([table |-> table, vals |-> obj[i]], result)

\* What rul__modify_wme_end (modId) leaves of the table and the objects.
Ended == IF modId # NoId /\ Live(modId)
         THEN [table |-> Written(modId).table,
               obj |-> [obj EXCEPT ![modId] = Written(modId).vals]]
         ELSE [table |-> table, obj |-> obj]

\* Fault: the modify before is not ended.
ModifyStart_Forgets(i) ==
  /\ status' = Live(i) /\ modObj' = Live(i)
  /\ modId' = IF Live(i) THEN i ELSE NoId
  /\ result' = Nothing /\ asked' = Nothing
  /\ UNCHANGED <<table, given, obj, made, risks>>
ModifyStart(i) ==
  /\ table' = Ended.table /\ obj' = Ended.obj
  /\ status' = Live(i) /\ modObj' = Live(i)
  /\ modId' = IF Live(i) THEN i ELSE NoId
  /\ result' = Nothing /\ asked' = Nothing
  /\ UNCHANGED <<given, made, risks>>

ModifyEnd(i) ==
  /\ status' = (i = modId /\ Live(i))
  /\ table' = IF i = modId THEN Ended.table ELSE table
  /\ obj' = IF i = modId THEN Ended.obj ELSE obj
  /\ modId' = NoId /\ modObj' = FALSE
  /\ result' = Nothing /\ asked' = Nothing
  /\ UNCHANGED <<given, made, risks>>

\* The end of a setter: the value goes to the buffer, or to the object at once.
\* A setter that made an atom of its argument gives up its use of it (drops).
Store(i, attr, m, tbl, drops) ==
  LET now == Assign([table |-> tbl, vals |-> obj[i]], attr, m)
      rest == IF i = modId THEN tbl ELSE now.table
  IN  /\ table' = FoldLeft(DecrUses, rest, drops)
      /\ IF i = modId
         THEN /\ result' = [result EXCEPT ![attr] = m]
              /\ asked' = [asked EXCEPT ![attr] = m]
              /\ UNCHANGED obj
         ELSE obj' = [obj EXCEPT ![i] = now.vals] /\ UNCHANGED <<result, asked>>
      /\ status' = TRUE
      /\ UNCHANGED <<given, made, modId, modObj>>

\* The buffer takes no use of an atom (it does of the compounds it is given).
BuffersAtom(i) == IF i = modId THEN {"atom buffered"} ELSE {}

SetAttrAtom(i, x) ==
  /\ x \in given
  /\ IF Live(i) THEN Store(i, "atom", x, table, << >>) /\ risks' = risks \cup BuffersAtom(i)
     ELSE Fails

\* rul__set_attr_integer, and its like for other types
SetAttrTyped(i, x) ==
  IF Live(i)
  THEN /\ Store(i, "atom", x, MakeMolecule(table, x), <<x>>)
       /\ risks' = risks \cup BuffersAtom(i)
  ELSE FailsTyped(x)

\* A compound is made of atoms that are made for it, as the atoms of a string.
MakeCompound(tbl, c) ==
  FoldLeft(DecrUses, MakeMolecule(FoldLeft(MakeMolecule, tbl, c), c), c)

SetCompAttrString(i, c) ==
  IF Live(i) THEN Store(i, "comp", c, MakeCompound(table, c), << >>) /\ UNCHANGED risks
  ELSE Fails

\* The compound a buffered element is put into is the buffered one or else that
\* of SO_mod_wme, which must still point at the object.
OldCompound(i) ==
  IF i = modId /\ result["comp"] # NoValue THEN result["comp"] ELSE obj[i]["comp"]
ReadsFreedObject(i) == i = modId /\ result["comp"] = NoValue /\ ~modObj

SetCompElem(i, n, x, tbl, drops) ==
  LET c == SetNth(OldCompound(i), n, x)
      read == [tbl EXCEPT !.freedUsed = @ \/ ReadsFreedObject(i)]
  IN  Store(i, "comp", c, MakeMolecule(read, c), drops) /\ UNCHANGED risks

SetCompElemAtom(i, n, x) ==
  x \in given /\ IF Live(i) THEN SetCompElem(i, n, x, table, << >>) ELSE Fails

SetCompElemTyped(i, n, x) ==
  IF Live(i)
  THEN SetCompElem(i, n, x, MakeMolecule(table, x), <<x>>)
  ELSE FailsTyped(x)

\* rul__string_to_atom and its like: the program never gives an atom back.
GiveAtom(x) ==
  /\ x \notin given /\ given' = given \cup {x}
  /\ table' = MakeMolecule(table, x) /\ status' = TRUE
  /\ UNCHANGED <<obj, made, modId, modObj, result, asked, risks>>

GetAttrAtom(i, attr) ==
  IF Live(i)
  THEN /\ obj[i][attr] \notin given /\ given' = given \cup {obj[i][attr]}
       /\ table' = IncrUses(table, obj[i][attr]) /\ status' = TRUE
       /\ UNCHANGED <<obj, made, modId, modObj, result, asked, risks>>
  ELSE Fails

Inside(risk) == IF modId # NoId THEN {risk} ELSE {}

\* rul___make_wmos empties SM_result, reads the values of the text into it, sets
\* them, and gives up its uses.  A text it refuses after some attributes leaves
\* them there with their uses; one it refuses for its class changes nothing.
Default == [atom |-> Nil, comp |-> << >>]
Parsed(x, c) == LET tbl == IF x = NoValue THEN table ELSE MakeMolecule(table, x)
                IN  IF c = NoValue THEN tbl ELSE MakeCompound(tbl, c)
MakeWme(i, x, c, ok) ==
  LET values == [atom |-> x, comp |-> c]
      new == SetBoth([table |-> Parsed(x, c), vals |-> Default], values)
  IN  /\ i \notin made
      /\ result' = IF modId # NoId THEN values ELSE result
      /\ status' = ok
      /\ table' = IF ok THEN new.table ELSE Parsed(x, c)
      /\ obj' = IF ok THEN [obj EXCEPT ![i] = new.vals] ELSE obj
      /\ made' = IF ok THEN made \cup {i} ELSE made
      /\ risks' = risks \cup Inside("made inside")
      /\ UNCHANGED <<given, modId, modObj, asked>>

CopyWme(i, j) ==
  IF Live(i)
  THEN /\ j \notin made /\ made' = made \cup {j}
       /\ obj' = [obj EXCEPT ![j] = obj[i]]
       /\ table' = IncrUses(IncrUses(table, obj[i]["atom"]), obj[i]["comp"])
       /\ status' = TRUE
       /\ UNCHANGED <<given, modId, modObj, result, asked, risks>>
  ELSE Fails

\* To a class with more attributes: the object moves (rul__mem_realloc).
SpecializeWme(i) ==
  IF Live(i)
  THEN /\ status' = TRUE
       /\ modObj' = (modObj /\ i # modId)
       /\ risks' = risks \cup IF i = modId THEN {"specialized inside"} ELSE {}
       /\ UNCHANGED <<table, given, obj, made, modId, result, asked>>
  ELSE Fails

RemoveWme(i) ==
  IF Live(i)
  THEN /\ obj' = [obj EXCEPT ![i] = Absent]
       /\ table' = DecrUses(DecrUses(table, obj[i]["atom"]), obj[i]["comp"])
       /\ modObj' = (modObj /\ i # modId) /\ status' = TRUE
       /\ UNCHANGED <<given, made, modId, result, asked, risks>>
  ELSE Fails

Next ==
  /\ Defined
  /\ \/ \E x \in Atom : GiveAtom(x)
     \/ Fails
     \/ \E i \in Id \ made, x \in Atom \cup {NoValue}, c \in Compound \cup {NoValue},
           ok \in BOOLEAN : MakeWme(i, x, c, ok)
     \/ \E i \in made :
          \/ ModifyStart(i) \/ ModifyEnd(i) \/ SpecializeWme(i) \/ RemoveWme(i)
          \/ \E a \in Attr : GetAttrAtom(i, a)
          \/ \E j \in Id \ made : CopyWme(i, j)
          \/ \E c \in Compound : SetCompAttrString(i, c)
          \/ \E x \in Atom :
               \/ SetAttrAtom(i, x) \/ SetAttrTyped(i, x)
               \/ \E n \in 1 .. MaxElements :
                    SetCompElemAtom(i, n, x) \/ SetCompElemTyped(i, n, x)
  /\ \A m \in Dangling : table'.count[m] = 0

Spec == Init /\ [][Next]_vars

TypeOK ==
  /\ table \in [count : [Molecule -> 0 .. Permanent], freedUsed : BOOLEAN]
  /\ given \subseteq Molecule
  /\ obj \in [Id -> Values \cup {Absent}] /\ made \subseteq Id
  /\ modId \in Id \cup {NoId} /\ modObj \in BOOLEAN /\ status \in BOOLEAN
  /\ result \in [atom : Atom \cup {NoValue}, comp : Compound \cup {NoValue}]
  /\ asked \in [atom : Atom \cup {NoValue}, comp : Compound \cup {NoValue}]
  /\ risks \subseteq Risk

\* The uses attributes, the program, the buffer and compounds have: who uses what.
AttributeUses ==
  {<<<<"attribute", i, a>>, obj[i][a]>> : i \in {j \in Id : Live(j)}, a \in Attr}
ProgramUses == {<<<<"program">>, m>> : m \in given}
BufferUses == {<<<<"buffer">>, m>> : m \in IF modId = NoId THEN {} ELSE {result["comp"]} \ {NoValue}}
AllUses == AttributeUses \cup ProgramUses \cup BufferUses \cup ElementUses(table)
UsesHeld(m) == Cardinality({u \in AllUses : u[2] = m})

\* ml_table.c:1069 says that a molecule must have at least one reference or it
\* would have been freed: whoever uses a molecule has a use of it.
FreedNeverUsed == ~table.freedUsed

\* Unless atoms were set, objects made or the object specialized between
\* modify_wme_start and modify_wme_end (cb_com.c:1684), nobody is left with a
\* molecule that has fewer uses than users, and none that was freed is used.
UsesCoverUnlessRisked ==
  risks = {} =>
    /\ FreedNeverUsed
    /\ \A m \in Molecule :
         table.count[m] = Permanent \/ table.count[m] >= UsesHeld(m)

\* A modify that ends (cb_com.c:1679, 1710) wrote to its object what was set since
\* it started, all of it and nothing else, or the caller is told that it did not;
\* whatever else the program did to this and other objects in between.
WritesAsked ==
  LET Overlay(v) == [a \in Attr |-> IF asked[a] = NoValue THEN v[a] ELSE asked[a]]
      ends == asked # Nothing /\ asked' = Nothing
  IN  ends /\ Live(modId) /\ "made inside" \notin risks
        => \/ obj' = [obj EXCEPT ![modId] = Overlay(@)]
           \/ obj' = obj /\ ~status'
EndsAsAsked == [][WritesAsked]_vars
=============================================================================
