---------------------------- MODULE ItemSequence ----------------------------
(***************************************************************************)
(* What a dynamic array promises (dyar.c): the items it holds, in order,   *)
(* at places counted from 1.  NULL is what a place without an item returns. *)
(***************************************************************************)
EXTENDS Integers, Sequences, SequencesExt

CONSTANTS
    Item, NULL,
    Place       \* the places an operation may name

VARIABLES
    items,      \* the items held
    result      \* what the last operation returned

svars == <<items, result>>

SInit == items = <<>> /\ result = NULL

\* The item of place n, if there is one.
Nth(n) == IF n \in DOMAIN items THEN items[n] ELSE NULL

Put(s) == items' = s /\ result' = NULL
Look(n) == result' = Nth(n) /\ UNCHANGED items
Take(n) ==
    /\ result' = Nth(n)
    /\ items' = IF n \in DOMAIN items THEN RemoveAt(items, n) ELSE items

\* Places between the last item and the one that is set hold NULL.
Set(n, x) ==
    Put([i \in 1..(IF n > Len(items) THEN n ELSE Len(items)) |-> IF i = n THEN x ELSE Nth(i)])

Insert(x) ==
    \/ Put(Append(items, x))
    \/ Put(<<x>> \o items)
    \/ Put(IF x \in Range(items) THEN items ELSE Append(items, x))

SNext ==
    \/ \E x \in Item : Insert(x)
    \/ \E x \in Item, n \in Place : Set(n, x)
    \/ \E n \in Place : Look(n) \/ Take(n)
    \/ Put(<<>>)

SSpec == SInit /\ [][SNext]_svars
=============================================================================
