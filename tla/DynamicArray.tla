----------------------------- MODULE DynamicArray -----------------------------
(***************************************************************************)
(* The dynamic arrays of the compiler and the run time (dyar.c): memory    *)
(* that is grown before an item is stored past its end.  Memory that was   *)
(* never stored to holds garbage, as the builds without assertions leave   *)
(* it.  Places are counted from 1 here, from 0 in the code.                *)
(***************************************************************************)
EXTENDS Integers, Sequences

CONSTANTS
    Item, NULL,
    Garbage,        \* what memory holds before it is stored to
    InitialSize,
    Room, Most,     \* how much an array grows: 10 and 1000 in the code
    MaxLength       \* bound on the places used

SizeAssumption ==
    /\ InitialSize \in Nat /\ Most \in Nat /\ MaxLength \in Nat
    /\ Room \in Nat \ {0}
GarbageAssumption == Garbage \notin Item \union {NULL}

VARIABLES
    array,          \* the memory
    stored,         \* items_stored
    result          \* what the last operation returned

vars == <<array, stored, result>>

Larger(a, b) == IF a > b THEN a ELSE b
Smaller(a, b) == IF a < b THEN a ELSE b

Grown(a, size) == [i \in 1..size |-> IF i \in DOMAIN a THEN a[i] ELSE Garbage]

\* Mutant: an array is taken for full one place late.
HasRoomLate(a, n) ==
    IF Len(a) >= n - 1 THEN a
    ELSE Grown(a, Len(a) + Larger(n - 1 - Len(a) + Room, Smaller(Len(a), Most)))

\* The memory of an array that has a place n.
HasRoom(a, n) ==
    IF Len(a) >= n THEN a
    ELSE Grown(a, Len(a) + Larger(n - 1 - Len(a) + Room, Smaller(Len(a), Most)))

Add(x) ==
    /\ array' = [HasRoom(array, stored + 1) EXCEPT ![stored + 1] = x]
    /\ stored' = stored + 1

DoAppend(x) == stored < MaxLength /\ Add(x) /\ result' = NULL

AppendIfUnique(x) ==
    /\ stored < MaxLength
    /\ IF \E i \in 1..stored : array[i] = x THEN UNCHANGED <<array, stored>> ELSE Add(x)
    /\ result' = NULL

Prepend(x) ==
    /\ stored < MaxLength
    /\ LET a == HasRoom(array, stored + 1)
       IN  array' = [i \in DOMAIN a |-> IF i = 1 THEN x
                                        ELSE IF i <= stored + 1 THEN a[i - 1] ELSE a[i]]
    /\ stored' = stored + 1
    /\ result' = NULL

\* pop_first takes place 1, pop_last the last place, remove_nth any place.
RemoveNth(n) ==
    \/ n > stored /\ result' = NULL /\ UNCHANGED <<array, stored>>
    \/ /\ n <= stored
       /\ result' = array[n]
       /\ array' = [i \in DOMAIN array |->
                      IF n <= i /\ i < stored THEN array[i + 1] ELSE array[i]]
       /\ stored' = stored - 1

GetNth(n) ==
    /\ result' = IF n > stored THEN NULL ELSE array[n]
    /\ UNCHANGED <<array, stored>>

\* Mutant: the places between are left as they are.
SetNthUnfilled(n, x) ==
    /\ n <= MaxLength
    /\ array' = [HasRoom(array, n) EXCEPT ![n] = x]
    /\ stored' = Larger(n, stored)
    /\ result' = NULL

SetNth(n, x) ==
    /\ n <= MaxLength
    /\ LET a == HasRoom(array, n)
       IN  array' = [i \in DOMAIN a |-> IF i = n THEN x
                                        ELSE IF stored < i /\ i < n THEN NULL ELSE a[i]]
    /\ stored' = Larger(n, stored)
    /\ result' = NULL

SetArrayEmpty == stored' = 0 /\ result' = NULL /\ UNCHANGED array

Init ==
    /\ array = [i \in 1..InitialSize |-> Garbage]
    /\ stored = 0
    /\ result = NULL

Next ==
    \/ \E x \in Item : DoAppend(x) \/ AppendIfUnique(x) \/ Prepend(x)
    \/ \E n \in 1..(MaxLength + 1) : RemoveNth(n) \/ GetNth(n)
    \/ \E n \in 1..(MaxLength + 1), x \in Item : SetNth(n, x)
    \/ SetArrayEmpty

Spec == Init /\ [][Next]_vars

-----------------------------------------------------------------------------
S == INSTANCE ItemSequence WITH items <- SubSeq(array, 1, stored), Place <- 1..(MaxLength + 1)

\* However an array is grown, filled past its end, emptied and filled again, it holds
\* the items put into it in their order, and no item is memory nobody stored to (dyar.c).
IsSequence == S!SSpec

\* No operation leaves more items than there is memory for.
NeverOverruns == stored <= Len(array)
=============================================================================
