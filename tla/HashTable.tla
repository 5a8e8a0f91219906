------------------------------ MODULE HashTable ------------------------------
(***************************************************************************)
(* The hash tables of declarations, constructs and variables (hash.c):     *)
(* buckets with a chain of entries each, the newest entry first.           *)
(***************************************************************************)
EXTENDS Naturals, Sequences

CONSTANTS
    Key, Object, None,
    Size,           \* the number of buckets
    Hash,           \* the bucket of each key
    RemoveAny       \* whether the first entry of a longer chain may be removed

SizeAssumption == Size \in Nat /\ Size > 1
HashAssumption == Hash \in [Key -> 0..(Size - 1)]
NoneAssumption == None \notin Object

VARIABLES
    buckets,        \* the chain of each bucket
    result,         \* what the last operation returned
    uses            \* how often each key is counted as used by the table

vars == <<buckets, result, uses>>

Chain(k) == buckets[Hash[k]]
Places(k) == {i \in DOMAIN Chain(k) : Chain(k)[i].symbol = k}
Entry(k, o) == [symbol |-> k, object |-> o]

\* The entry a walk along the chain comes to first.
First(k) == CHOOSE i \in Places(k) : \A j \in Places(k) : i <= j

Linked(k, o) ==
    /\ buckets' = [buckets EXCEPT ![Hash[k]] = <<Entry(k, o)>> \o @]
    /\ uses' = [uses EXCEPT ![k] = @ + 1]

GetEntry(k) ==
    /\ result' = IF Places(k) = {} THEN None ELSE Chain(k)[First(k)].object
    /\ UNCHANGED <<buckets, uses>>

\* Mutant: the chain is not searched for the key.
AddUnchecked(k, o) == Linked(k, o) /\ result' = o

AddEntry(k, o) ==
    \/ Places(k) # {} /\ result' = None /\ UNCHANGED <<buckets, uses>>
    \/ Places(k) = {} /\ Linked(k, o) /\ result' = o

\* Mutant: a replaced entry counts its key again.
ReplaceCounts(k, o) ==
    /\ result' = None
    /\ \/ /\ Places(k) # {}
          /\ buckets' = [buckets EXCEPT ![Hash[k]][First(k)].object = o]
          /\ uses' = [uses EXCEPT ![k] = @ + 1]
       \/ Places(k) = {} /\ Linked(k, o)

ReplaceEntry(k, o) ==
    /\ result' = None
    /\ \/ /\ Places(k) # {}
          /\ buckets' = [buckets EXCEPT ![Hash[k]][First(k)].object = o]
          /\ UNCHANGED uses
       \/ Places(k) = {} /\ Linked(k, o)

\* The first entry of a chain is unlinked by emptying the bucket.
RemoveEntry(k) ==
    /\ Places(k) # {} /\ First(k) = 1 => RemoveAny \/ Len(Chain(k)) = 1
    /\ result' = None
    /\ \/ Places(k) = {} /\ UNCHANGED <<buckets, uses>>
       \/ /\ Places(k) # {}
          /\ uses' = [uses EXCEPT ![k] = @ - 1]
          /\ buckets' = [buckets EXCEPT ![Hash[k]] =
               IF First(k) = 1 THEN <<>>
               ELSE SubSeq(@, 1, First(k) - 1) \o SubSeq(@, First(k) + 1, Len(@))]

Init ==
    /\ buckets = [b \in 0..(Size - 1) |-> <<>>]
    /\ result = None
    /\ uses = [k \in Key |-> 0]

Next ==
    \/ \E k \in Key : GetEntry(k) \/ RemoveEntry(k)
    \/ \E k \in Key, o \in Object : AddEntry(k, o) \/ ReplaceEntry(k, o)

Spec == Init /\ [][Next]_vars

-----------------------------------------------------------------------------
Map == [k \in Key |-> IF Places(k) = {} THEN None ELSE Chain(k)[First(k)].object]

D == INSTANCE Dictionary WITH map <- Map

\* Whatever keys share a bucket, and in whatever order they are added, replaced and
\* removed, the table is a dictionary (hash.c).
IsDictionary == D!DSpec

\* A key counts as used exactly as long as the table has an entry of it, so that its
\* molecule is neither freed while it is the key of an entry nor kept for ever.
KeysCounted ==
    \A k \in Key : uses[k] = IF Places(k) = {} THEN 0 ELSE 1

\* "There was an entry for this key, so remove it": the other entries stay.
RemovesOneKey ==
    [][\A k \in Key : RemoveEntry(k) =>
           \A j \in Key \ {k} : Map'[j] = Map[j]]_vars
=============================================================================
