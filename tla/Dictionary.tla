----------------------------- MODULE Dictionary -----------------------------
(***************************************************************************)
(* What a hash table promises (hash.c): it keeps one object for each key   *)
(* it has been given, until that key is removed.                           *)
(***************************************************************************)
CONSTANTS Key, Object, None

VARIABLES
    map,        \* the object of each key, or None
    result      \* what the last operation returned

dvars == <<map, result>>

DInit == map = [k \in Key |-> None] /\ result = None

Get(k) == result' = map[k] /\ UNCHANGED map

\* A key that is there is refused.
Add(k, o) ==
    IF map[k] # None THEN result' = None /\ UNCHANGED map
    ELSE result' = o /\ map' = [map EXCEPT ![k] = o]

Replace(k, o) == map' = [map EXCEPT ![k] = o] /\ result' = None
Remove(k) == map' = [map EXCEPT ![k] = None] /\ result' = None

DNext ==
    \/ \E k \in Key : Get(k) \/ Remove(k)
    \/ \E k \in Key, o \in Object : Add(k, o) \/ Replace(k, o)

DSpec == DInit /\ [][DNext]_dvars
=============================================================================
