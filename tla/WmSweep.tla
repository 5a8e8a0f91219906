------------------------------- MODULE WmSweep -------------------------------
(***************************************************************************)
(* The sweep of working memory that REMOVE-EVERY makes (wm_updat.c): it    *)
(* walks the list of objects of every declaration block with a cursor that *)
(* stays where it is while the BEFORE-REMOVE method of an object runs.     *)
(*                                                                         *)
(* WorkingMemory has the changes of objects in full; here an object is its *)
(* class, its nesting count and its list cell.  A sweep that is called     *)
(* without entry block data (RESTORESTATE, rul_remove_class) calls no      *)
(* methods: it is the sweep in which no method does anything.              *)
(***************************************************************************)
EXTENDS Integers, Sequences, FiniteSets, SequencesExt

CONSTANTS
    Id,             \* the instance ids
    ClassBlock,     \* the declaration block of each class
    Block,          \* the declaration blocks, in their order
    Inherits,       \* the pairs of a class and a class it inherits from
    MaxCell,        \* bound on the list cells that are ever allocated
    MaxDepth        \* bound on the nesting of changes, removals and sweeps

BlockAssumption == Block \in Seq(Range(Block)) /\ Block # <<>> /\ IsInjective(Block)
ClassAssumption ==
    /\ ClassBlock \in [DOMAIN ClassBlock -> Range(Block)]
    /\ "none" \notin DOMAIN ClassBlock
InheritsAssumption ==
    /\ Inherits \subseteq (DOMAIN ClassBlock) \X (DOMAIN ClassBlock)
    /\ \A p, q \in Inherits : /\ p[1] # p[2]
                              /\ p[2] = q[1] => <<p[1], q[2]>> \in Inherits

Class == DOMAIN ClassBlock
NoClass == "none"       \* a class_id of NULL
NULL == 0

VARIABLES
    obj,        \* the objects: class, nesting count of changes, list cell
    lists,      \* the WMO list of each block, as the ids of its cells
    nextCell,   \* the next list cell
    stack       \* the code that is suspended, the running code last

vars == <<obj, lists, nextCell, stack>>

\* Where e stands in s.
Place(s, e) == CHOOSE i \in DOMAIN s : s[i] = e

Header(b) == -Place(Block, b)
Cells(b) == {obj[lists[b][i]].cell : i \in DOMAIN lists[b]}
Objects == {o \in Id : obj[o].class \in Class}
Dead == [class |-> NoClass, changes |-> 0, cell |-> NULL]

Top == Last(stack)
Push(f) == Append(stack, f)
\* RHS code and methods act; a sweep only walks.
Acting == ~(stack # <<>> /\ Top.kind = "sweep")

-----------------------------------------------------------------------------
(* The lists *)

AddLast(b, o) == [lists EXCEPT ![b] = Append(@, o)]
Unlisted(b, o) == [lists EXCEPT ![b] = RemoveAt(@, Place(@, o))]

\* rul__list_first, of the header of a list or of a cell of it.
ListFirst(b, cursor) ==
    IF cursor = Header(b) THEN lists[b][1]
    ELSE CHOOSE o \in Range(lists[b]) : obj[o].cell = cursor

\* rul__list_next, of the cell of an object.
ListNext(b, o) ==
    LET i == Place(lists[b], o)
    IN  IF i = Len(lists[b]) THEN NULL ELSE obj[lists[b][i + 1]].cell

\* o is about to leave its list and its cell to be freed: the sweeps among the
\* frames that have kept that cell as their place have lost it.
Marked(frames, o) ==
    [i \in DOMAIN frames |->
        IF frames[i].kind = "sweep" /\ frames[i].cursor = obj[o].cell
        THEN [frames[i] EXCEPT !.lost = TRUE] ELSE frames[i]]

-----------------------------------------------------------------------------
(* What RHS code and methods do *)

Create(o, c) ==
    /\ Acting /\ o \notin Objects
    /\ nextCell <= MaxCell
    /\ obj' = [obj EXCEPT ![o] = [class |-> c, changes |-> 0, cell |-> nextCell]]
    /\ lists' = AddLast(ClassBlock[c], o)
    /\ nextCell' = nextCell + 1
    /\ UNCHANGED stack

\* A change begins, and a method is called in the middle of it.
Change(o) ==
    /\ Acting /\ o \in Objects /\ Len(stack) < MaxDepth
    /\ ~\E i \in DOMAIN stack : stack[i].kind = "removal" /\ stack[i].of = o
    /\ obj' = [obj EXCEPT ![o].changes = @ + 1]
    /\ stack' = Push([kind |-> "change", of |-> o])
    /\ UNCHANGED <<lists, nextCell>>

\* SPECIALIZE gives the object a new cell, at the end of its new block's list.
Specialize(o, c) ==
    /\ Acting /\ o \in Objects /\ obj[o].changes = 0
    /\ <<c, obj[o].class>> \in Inherits
    /\ nextCell <= MaxCell
    /\ obj' = [obj EXCEPT ![o].class = c, ![o].cell = nextCell]
    /\ lists' = [Unlisted(ClassBlock[obj[o].class], o)
                    EXCEPT ![ClassBlock[c]] = Append(@, o)]
    /\ nextCell' = nextCell + 1
    /\ stack' = Marked(stack, o)

\* An object under change is left alone.
Destroyed(o, frames) ==
    /\ obj' = [obj EXCEPT ![o].changes = 1]
    /\ lists' = Unlisted(ClassBlock[obj[o].class], o)
    /\ stack' = Append(frames, [kind |-> "removal", of |-> o, cell |-> obj[o].cell])
    /\ UNCHANGED nextCell

Destroy(o) ==
    /\ Acting /\ o \in Objects /\ Len(stack) < MaxDepth
    /\ obj[o].changes = 0
    /\ Destroyed(o, Marked(stack, o))

\* A sweep of a class, or of NoClass: of every object.  Two parts of its frame are
\* history: of, the cells of the objects of the class and its subclasses that are
\* under no change when it starts; and lost, whether code that it called has taken
\* the object at its cursor from its list since.
StartSweep(c) ==
    /\ Acting /\ Len(stack) < MaxDepth
    /\ stack' = Push([kind |-> "sweep", class |-> c, block |-> 1,
                      cursor |-> Header(Block[1]), lost |-> FALSE,
                      of |-> {obj[o].cell : o \in {p \in Objects :
                                 /\ c \in {obj[p].class, NoClass} \/ <<obj[p].class, c>> \in Inherits
                                 /\ obj[p].changes = 0}}])
    /\ UNCHANGED <<obj, lists, nextCell>>

\* A change ends, or a removal does and the object is freed.
End ==
    /\ stack # <<>> /\ Top.kind \in {"change", "removal"}
    /\ obj' = IF Top.kind = "removal" THEN [obj EXCEPT ![Top.of] = Dead]
              ELSE [obj EXCEPT ![Top.of].changes = @ - 1]
    /\ stack' = Front(stack)
    /\ UNCHANGED <<lists, nextCell>>

-----------------------------------------------------------------------------
(* rul__wm_destroy_and_notify_all *)

Sweeping == stack # <<>> /\ Top.kind = "sweep" /\ Top.block <= Len(Block)
SweepList == Block[Top.block]

\* Mutant: the first list that is done ends the sweep.
NextBlockStops ==
    /\ Sweeping
    /\ \/ Top.cursor = NULL
       \/ Top.cursor = Header(SweepList) /\ lists[SweepList] = <<>>
    /\ stack' = [stack EXCEPT ![Len(stack)].block = Len(Block) + 1]
    /\ UNCHANGED <<obj, lists, nextCell>>

NextBlock ==
    /\ Sweeping
    /\ \/ Top.cursor = NULL
       \/ Top.cursor = Header(SweepList) /\ lists[SweepList] = <<>>
    /\ stack' = [stack EXCEPT ![Len(stack)] =
                   [Top EXCEPT !.block = @ + 1,
                               !.cursor = IF Top.block = Len(Block) THEN NULL
                                          ELSE Header(Block[Top.block + 1])]]
    /\ UNCHANGED <<obj, lists, nextCell>>

\* Mutant: the cursor is moved only when the removal is over.
AdvanceLate(o) == [Top EXCEPT !.cursor = obj[o].cell]

\* The next entry is fetched before the object is removed.
Advance(o) == [Top EXCEPT !.cursor = ListNext(SweepList, o)]

\* The sweep s removes objects of class c.
Seeks(s, c) == s.class \in {c, NoClass}

ToRemove(o) == Seeks(Top, obj[o].class) /\ obj[o].changes = 0

\* A cursor that dangles has no next state: what the code does then is undefined.
Visit ==
    /\ Sweeping
    /\ \/ Top.cursor = Header(SweepList) /\ lists[SweepList] # <<>>
       \/ Top.cursor \in Cells(SweepList)
    /\ LET o == ListFirst(SweepList, Top.cursor)
       IN  IF ToRemove(o)
           THEN Destroyed(o, Append(Marked(Front(stack), o), Advance(o)))
           ELSE /\ stack' = Append(Front(stack), Advance(o))
                /\ UNCHANGED <<obj, lists, nextCell>>

EndSweep ==
    /\ stack # <<>> /\ Top.kind = "sweep" /\ Top.block > Len(Block)
    /\ stack' = Front(stack)
    /\ UNCHANGED <<obj, lists, nextCell>>

-----------------------------------------------------------------------------
Init ==
    /\ obj = [o \in Id |-> Dead]
    /\ lists = [b \in Range(Block) |-> <<>>]
    /\ nextCell = 1
    /\ stack = <<>>

Next ==
    \/ \E o \in Id, c \in Class : Create(o, c) \/ Specialize(o, c)
    \/ \E o \in Id : Change(o) \/ Destroy(o)
    \/ \E c \in Class \cup {NoClass} : StartSweep(c)
    \/ End \/ NextBlock \/ Visit \/ EndSweep

Spec == Init /\ [][Next]_vars

-----------------------------------------------------------------------------
Sweeps == {i \in DOMAIN stack : stack[i].kind = "sweep"}

\* The place a sweep has kept is a cell of the list it walks, the list's header,
\* or the end of it.
PlaceLive(s) ==
    s.block <= Len(Block) =>
        LET b == Block[s.block] IN s.cursor \in Cells(b) \cup {Header(b), NULL}

\* "Special iterator for removes", which fetches the next entry before it removes
\* the object (wm_updat.c:519): a sweep keeps its place while methods create,
\* change, specialize and remove objects and sweep the lists themselves, unless
\* one of them takes the very object it has fetched from its list.
CursorsLiveUnlessTaken ==
    \A i \in Sweeps : stack[i].lost \/ PlaceLive(stack[i])

\* The same with no exception.  It does not hold: what was fetched may be freed.
CursorsLive == \A i \in Sweeps : PlaceLive(stack[i])

\* A sweep that ends, and has not lost its place, has removed every object of its
\* class (every object, when it was given none) that was on a list, and under no
\* change, when it started, in whatever block, and whatever was created, removed
\* or swept meanwhile; except an object that a method has specialized, which has
\* got a new cell (rul__wm_destroy_and_notify_all).
SweepsComplete ==
    [][\A i \in Sweeps :
         i > Len(stack') /\ ~stack[i].lost =>
             ~\E o \in Objects : /\ Seeks(stack[i], obj[o].class)
                                 /\ obj[o].cell \in stack[i].of]_vars

\* "Deletes all the working memory objects that are instances of the specified class
\* or its subclasses": a sweep leaves no object of a subclass behind either.
SweepsSubclasses ==
    [][\A i \in Sweeps :
         i > Len(stack') => ~\E o \in Objects : obj[o].cell \in stack[i].of]_vars
=============================================================================
