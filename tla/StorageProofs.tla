---------------------------- MODULE StorageProofs ----------------------------
(***************************************************************************)
(* Proofs about HashTable, DynamicArray and SaveRestore.                   *)
(*                                                                         *)
(* For any keys, any number of buckets and any hash function, hash tables  *)
(* are dictionaries in programs that do not remove the first entry of a    *)
(* longer chain.  The argument: a chain has one entry for each key at      *)
(* most, so each operation changes the entry of its own key only, wherever *)
(* the entries of other keys move to.                                      *)
(*                                                                         *)
(* For any items, any initial size and any way to grow that makes room for *)
(* one place at least, an array is the sequence of the items put into it   *)
(* and never stores past its memory.                                       *)
(*                                                                         *)
(* For any declaration blocks, rules and entry blocks, RESTORESTATE gives  *)
(* back what was saved.  The argument: the file has an object once, and an *)
(* entry for each instantiation that could not fire (FileSound); the loops *)
(* that read it translate different ids into different new ones, and after *)
(* k objects the k-th of its block stands where the file has it (ReadSound *)
(* and EntrySound, by induction on k); so what was read last is the memory *)
(* the file names (ReadBack), the refraction set is that of the entries    *)
(* that were read (Refracts), and of a whole file nothing is missing       *)
(* (Restored).                                                             *)
(***************************************************************************)
EXTENDS MCStorage, SequenceFacts, FiniteSetTheorems

Assumptions ==
  SizeAssumption /\ HashAssumption /\ NoneAssumption /\ RemoveAny = FALSE

EntryType == [symbol : Key, object : Object]

TypeOK ==
  /\ buckets \in [0..(Size - 1) -> Seq(EntryType)]
  /\ result \in Object \cup {None}
  /\ uses \in [Key -> Nat]

\* A chain holds keys of its bucket, each once.
KeysOnce ==
  \A b \in 0..(Size - 1) : \A m, n \in DOMAIN buckets[b] :
    /\ Hash[buckets[b][m].symbol] = b
    /\ buckets[b][m].symbol = buckets[b][n].symbol => m = n

Inv == TypeOK /\ KeysOnce /\ KeysCounted

-----------------------------------------------------------------------------
(* One chain, as a constant.                                               *)

Once(c) == \A m, n \in DOMAIN c : c[m].symbol = c[n].symbol => m = n
Linking(c, k, o) == <<Entry(k, o)>> \o c
Replacing(c, p, o) == [c EXCEPT ![p].object = o]
PlacesIn(c, k) == {n \in DOMAIN c : c[n].symbol = k}
FirstIn(c, k) == CHOOSE n \in PlacesIn(c, k) : \A m \in PlacesIn(c, k) : n <= m
Value(c, k) == IF PlacesIn(c, k) = {} THEN None ELSE c[FirstIn(c, k)].object

\* In a chain of different keys a walk comes to the entry of the key.
LEMMA ValueOf ==
  ASSUME NoneAssumption, NEW c \in Seq(EntryType), Once(c), NEW k \in Key
  PROVE  /\ \A n \in DOMAIN c : c[n].symbol = k => Value(c, k) = c[n].object
         /\ \A n \in DOMAIN c : c[n].symbol = k => FirstIn(c, k) = n
         /\ Value(c, k) = None <=> PlacesIn(c, k) = {}
         /\ Value(c, k) \in Object \cup {None}
<1>1. \A n \in DOMAIN c : c[n] \in EntryType /\ c[n].object \in Object /\ n \in Nat
  <2>1. \A n \in DOMAIN c : c[n] \in EntryType /\ n \in Nat
    OBVIOUS
  <2>. QED
    BY <2>1 DEF EntryType
<1>2. ASSUME NEW n \in DOMAIN c, c[n].symbol = k
      PROVE  PlacesIn(c, k) = {n} /\ FirstIn(c, k) = n /\ Value(c, k) = c[n].object
  <2>1. PlacesIn(c, k) = {n}
    BY <1>2 DEF PlacesIn, Once
  <2>2. FirstIn(c, k) = n
    BY <2>1, <1>1 DEF FirstIn
  <2>. QED
    BY <2>1, <2>2 DEF Value
<1>3. CASE PlacesIn(c, k) = {}
  <2>1. Value(c, k) = None
    BY <1>3 DEF Value
  <2>. QED
    BY <1>2, <1>3, <2>1
<1>4. CASE PlacesIn(c, k) # {}
  <2>1. PICK n \in DOMAIN c : c[n].symbol = k
    BY <1>4 DEF PlacesIn
  <2>2. Value(c, k) \in Object
    BY <2>1, <1>1, <1>2
  <2>. QED
    BY <1>2, <1>4, <2>2 DEF NoneAssumption
<1>. QED
  BY <1>3, <1>4

\* Two chains that hold the same entries of a key hold the same object.
LEMMA SameValue ==
  ASSUME NoneAssumption, NEW k \in Key,
         NEW c \in Seq(EntryType), Once(c), NEW d \in Seq(EntryType), Once(d),
         \A n \in DOMAIN c : c[n].symbol = k => \E m \in DOMAIN d : d[m] = c[n],
         \A m \in DOMAIN d : d[m].symbol = k => \E n \in DOMAIN c : c[n] = d[m]
  PROVE  /\ Value(d, k) = Value(c, k)
         /\ PlacesIn(d, k) = {} <=> PlacesIn(c, k) = {}
<1>1. CASE PlacesIn(c, k) = {}
  <2>1. PlacesIn(d, k) = {}
    BY <1>1 DEF PlacesIn
  <2>. QED
    BY <1>1, <2>1 DEF Value
<1>2. CASE PlacesIn(c, k) # {}
  <2>1. PICK n \in DOMAIN c : c[n].symbol = k
    BY <1>2 DEF PlacesIn
  <2>2. PICK m \in DOMAIN d : d[m] = c[n]
    BY <2>1
  <2>3. Value(c, k) = c[n].object /\ Value(d, k) = d[m].object
    BY <2>1, <2>2, ValueOf
  <2>. QED
    BY <1>2, <2>1, <2>2, <2>3 DEF PlacesIn
<1>. QED
  BY <1>1, <1>2

\* Linking the entry of a key that is not in the chain.
LEMMA LinkedChain ==
  ASSUME NoneAssumption, NEW c \in Seq(EntryType), Once(c), NEW k \in Key, NEW o \in Object,
         PlacesIn(c, k) = {}
  PROVE  LET d == Linking(c, k, o)
         IN  /\ d \in Seq(EntryType) /\ Once(d)
             /\ \A n \in DOMAIN d : d[n].symbol = k \/ \E m \in DOMAIN c : d[n] = c[m]
             /\ PlacesIn(d, k) # {} /\ Value(d, k) = o
             /\ \A j \in Key \ {k} : /\ Value(d, j) = Value(c, j)
                                     /\ PlacesIn(d, j) = {} <=> PlacesIn(c, j) = {}
<1>. DEFINE d == Linking(c, k, o)
<1>1. Entry(k, o) \in EntryType /\ Entry(k, o).symbol = k /\ Entry(k, o).object = o
  BY DEF Entry, EntryType
<1>2. /\ d \in Seq(EntryType) /\ DOMAIN d = 1 .. Len(c) + 1 /\ d[1] = Entry(k, o)
      /\ \A n \in DOMAIN c : d[n + 1] = c[n]
      /\ \A n \in DOMAIN d : n = 1 \/ n - 1 \in DOMAIN c
  BY <1>1, PushedFirst DEF Linking
<1>. HIDE DEF d
<1>3. DOMAIN c = 1 .. Len(c) /\ Len(c) \in Nat
  OBVIOUS
<1>4. \A n \in DOMAIN c : n \in Nat /\ n + 1 \in DOMAIN d /\ c[n].symbol # k
  BY <1>2, <1>3 DEF PlacesIn
<1>5. \A n \in DOMAIN d : n # 1 => n \in Nat /\ n - 1 \in DOMAIN c /\ d[n] = c[n - 1]
  <2>. SUFFICES ASSUME NEW n \in DOMAIN d, n # 1
                PROVE  n \in Nat /\ n - 1 \in DOMAIN c /\ d[n] = c[n - 1]
    OBVIOUS
  <2>1. n \in Nat /\ n - 1 \in DOMAIN c /\ (n - 1) + 1 = n
    BY <1>2, <1>3
  <2>. QED
    BY <2>1, <1>2
<1>6. Once(d)
  <2>. SUFFICES ASSUME NEW m \in DOMAIN d, NEW n \in DOMAIN d, d[m].symbol = d[n].symbol
                PROVE  m = n
    BY DEF Once
  <2>1. CASE m = 1 \/ n = 1
    BY <2>1, <1>1, <1>2, <1>4, <1>5
  <2>2. CASE m # 1 /\ n # 1
    <3>1. m - 1 = n - 1 /\ m \in Nat /\ n \in Nat
      BY <2>2, <1>5 DEF Once
    <3>. QED
      BY <3>1
  <2>. QED
    BY <2>1, <2>2
<1>7. 1 \in DOMAIN d
  BY <1>2, <1>3
<1>8. PlacesIn(d, k) # {} /\ Value(d, k) = o
  BY <1>1, <1>2, <1>6, <1>7, ValueOf DEF PlacesIn
<1>9. ASSUME NEW j \in Key \ {k}
      PROVE  Value(d, j) = Value(c, j) /\ (PlacesIn(d, j) = {} <=> PlacesIn(c, j) = {})
  <2>1. \A n \in DOMAIN c : \E m \in DOMAIN d : d[m] = c[n]
    BY <1>2, <1>4
  <2>2. \A m \in DOMAIN d : d[m].symbol = j => \E n \in DOMAIN c : c[n] = d[m]
    BY <1>1, <1>2, <1>5
  <2>. QED
    BY <2>1, <2>2, <1>2, <1>6, SameValue
<1>10. \A n \in DOMAIN d : d[n].symbol = k \/ \E m \in DOMAIN c : d[n] = c[m]
  BY <1>1, <1>2, <1>5
<1>. QED
  BY <1>2, <1>6, <1>8, <1>9, <1>10 DEF d

\* Giving the entry of a key another object.
LEMMA ReplacedChain ==
  ASSUME NoneAssumption, NEW c \in Seq(EntryType), Once(c), NEW k \in Key, NEW o \in Object,
         NEW p \in DOMAIN c, c[p].symbol = k
  PROVE  LET d == Replacing(c, p, o)
         IN  /\ d \in Seq(EntryType) /\ Once(d)
             /\ \A n \in DOMAIN d : n \in DOMAIN c /\ d[n].symbol = c[n].symbol
             /\ PlacesIn(d, k) # {} /\ Value(d, k) = o
             /\ \A j \in Key \ {k} : /\ Value(d, j) = Value(c, j)
                                     /\ PlacesIn(d, j) = {} <=> PlacesIn(c, j) = {}
<1>. DEFINE d == Replacing(c, p, o)
<1>1. \A n \in DOMAIN c : c[n] \in EntryType
  OBVIOUS
<1>2. /\ DOMAIN d = DOMAIN c /\ d[p].symbol = k /\ d[p].object = o /\ d[p] \in EntryType
      /\ \A n \in DOMAIN c \ {p} : d[n] = c[n]
  BY <1>1 DEF EntryType, Replacing
<1>3. d \in Seq(EntryType)
  <2>1. c \in [1 .. Len(c) -> EntryType] /\ Len(c) \in Nat
    OBVIOUS
  <2>2. d \in [1 .. Len(c) -> EntryType]
    BY <2>1, <1>2 DEF Replacing
  <2>. QED
    BY <2>1, <2>2
<1>. HIDE DEF d
<1>4. \A n \in DOMAIN d : d[n].symbol = c[n].symbol
  BY <1>2
<1>5. Once(d)
  BY <1>2, <1>4 DEF Once
<1>6. PlacesIn(d, k) # {} /\ Value(d, k) = o
  BY <1>2, <1>3, <1>5, ValueOf DEF PlacesIn
<1>7. ASSUME NEW j \in Key \ {k}
      PROVE  Value(d, j) = Value(c, j) /\ (PlacesIn(d, j) = {} <=> PlacesIn(c, j) = {})
  <2>1. \A n \in DOMAIN c : c[n].symbol = j => \E m \in DOMAIN d : d[m] = c[n]
    BY <1>2
  <2>2. \A m \in DOMAIN d : d[m].symbol = j => \E n \in DOMAIN c : c[n] = d[m]
    BY <1>2
  <2>. QED
    BY <2>1, <2>2, <1>3, <1>5, SameValue
<1>. QED
  BY <1>2, <1>3, <1>4, <1>5, <1>6, <1>7 DEF d

\* Unlinking the entry of a key.
LEMMA UnlinkedChain ==
  ASSUME NoneAssumption, NEW c \in Seq(EntryType), Once(c), NEW k \in Key,
         NEW p \in DOMAIN c, c[p].symbol = k
  PROVE  LET d == RemoveAt(c, p)
         IN  /\ d \in Seq(EntryType) /\ Once(d)
             /\ \A n \in DOMAIN d : \E m \in DOMAIN c : d[n] = c[m]
             /\ PlacesIn(d, k) = {} /\ Value(d, k) = None
             /\ \A j \in Key \ {k} : /\ Value(d, j) = Value(c, j)
                                     /\ PlacesIn(d, j) = {} <=> PlacesIn(c, j) = {}
<1>. DEFINE d == RemoveAt(c, p)
<1>1. /\ d \in Seq(EntryType) /\ DOMAIN d = 1 .. Len(c) - 1
      /\ \A n \in DOMAIN d : d[n] = IF n < p THEN c[n] ELSE c[n + 1]
  BY TakenOut
<1>. HIDE DEF d
<1>2. DOMAIN c = 1 .. Len(c) /\ Len(c) \in Nat /\ p \in 1 .. Len(c) /\ p \in Nat
  OBVIOUS
<1>3. ASSUME NEW n \in DOMAIN d
      PROVE  /\ n \in Nat
             /\ n < p => n \in DOMAIN c \ {p} /\ d[n] = c[n]
             /\ ~(n < p) => n + 1 \in DOMAIN c \ {p} /\ d[n] = c[n + 1]
  <2>1. n \in 1 .. Len(c) - 1
    BY <1>1
  <2>2. n \in Nat /\ (n < p => n \in 1 .. Len(c) /\ n # p)
        /\ (~(n < p) => n + 1 \in 1 .. Len(c) /\ n + 1 # p)
    BY <1>2, <2>1
  <2>. QED
    BY <1>1, <1>2, <2>2
<1>4. Once(d)
  <2>. SUFFICES ASSUME NEW m \in DOMAIN d, NEW n \in DOMAIN d, d[m].symbol = d[n].symbol
                PROVE  m = n
    BY DEF Once
  <2>. DEFINE old(x) == IF x < p THEN x ELSE x + 1
  <2>1. /\ old(m) \in DOMAIN c /\ d[m] = c[old(m)]
        /\ old(n) \in DOMAIN c /\ d[n] = c[old(n)]
    BY <1>3
  <2>2. old(m) = old(n)
    BY <2>1 DEF Once
  <2>. QED
    BY <1>2, <1>3, <2>2
<1>5. \A n \in DOMAIN d : \E m \in DOMAIN c \ {p} : d[n] = c[m]
  BY <1>3
<1>6. \A n \in DOMAIN c : c[n].symbol = k => n = p
  BY DEF Once
<1>7. PlacesIn(d, k) = {}
  BY <1>5, <1>6 DEF PlacesIn
<1>8. ASSUME NEW j \in Key \ {k}
      PROVE  Value(d, j) = Value(c, j) /\ (PlacesIn(d, j) = {} <=> PlacesIn(c, j) = {})
  <2>1. ASSUME NEW n \in DOMAIN c, c[n].symbol = j PROVE \E m \in DOMAIN d : d[m] = c[n]
    <3>1. n \in 1 .. Len(c) /\ n \in Nat /\ n # p
      BY <1>2, <2>1
    <3>2. CASE n < p
      <4>1. n \in 1 .. Len(c) - 1
        BY <1>2, <3>1, <3>2
      <4>. QED
        BY <4>1, <3>2, <1>1
    <3>3. CASE n > p
      <4>1. n - 1 \in 1 .. Len(c) - 1 /\ ~(n - 1 < p) /\ (n - 1) + 1 = n
        BY <1>2, <3>1, <3>3
      <4>. QED
        BY <4>1, <1>1
    <3>. QED
      BY <3>1, <3>2, <3>3, <1>2
  <2>2. \A m \in DOMAIN d : d[m].symbol = j => \E n \in DOMAIN c : c[n] = d[m]
    BY <1>5
  <2>. QED
    BY <2>1, <2>2, <1>1, <1>4, SameValue
<1>9. Value(d, k) = None
  BY <1>7 DEF Value
<1>. QED
  BY <1>1, <1>4, <1>5, <1>7, <1>8, <1>9 DEF d

-----------------------------------------------------------------------------
(* The table.                                                              *)

LEMMA MapIsValue ==
  /\ Map = [k \in Key |-> Value(Chain(k), k)]
  /\ Map' = [k \in Key |-> Value(Chain(k)', k)]
BY DEF Map, Value, Places, First, PlacesIn, FirstIn, Chain

LEMMA ChainType ==
  ASSUME Assumptions, Inv, NEW k \in Key
  PROVE  /\ Hash[k] \in 0..(Size - 1) /\ Chain(k) \in Seq(EntryType) /\ Once(Chain(k))
         /\ \A n \in DOMAIN Chain(k) : Hash[Chain(k)[n].symbol] = Hash[k]
         /\ Places(k) = PlacesIn(Chain(k), k) /\ First(k) = FirstIn(Chain(k), k)
         /\ \A p \in Places(k) : p \in DOMAIN Chain(k) /\ Chain(k)[p].symbol = k
         /\ Places(k) # {} => First(k) \in Places(k)
<1>1. Hash[k] \in 0..(Size - 1)
  BY DEF Assumptions, HashAssumption
<1>2. Chain(k) \in Seq(EntryType) /\ Once(Chain(k))
      /\ \A n \in DOMAIN Chain(k) : Hash[Chain(k)[n].symbol] = Hash[k]
  BY <1>1 DEF Inv, TypeOK, KeysOnce, Chain, Once
<1>3. Places(k) = PlacesIn(Chain(k), k) /\ First(k) = FirstIn(Chain(k), k)
  BY DEF Places, First, PlacesIn, FirstIn
<1>4. ASSUME NEW p \in Places(k)
      PROVE  p \in DOMAIN Chain(k) /\ Chain(k)[p].symbol = k /\ First(k) = p
  BY <1>2, <1>3, ValueOf DEF Places, Assumptions
<1>. QED
  BY <1>1, <1>2, <1>3, <1>4

\* A step that changes one chain, and in it the entry of one key.
LEMMA ChainStep ==
  ASSUME Assumptions, Inv, NEW k \in Key, NEW d \in Seq(EntryType), Once(d),
         \A n \in DOMAIN d : Hash[d[n].symbol] = Hash[k],
         \A j \in Key \ {k} : /\ Value(d, j) = Value(Chain(k), j)
                              /\ PlacesIn(d, j) = {} <=> PlacesIn(Chain(k), j) = {},
         buckets' = [buckets EXCEPT ![Hash[k]] = d],
         uses' = [uses EXCEPT ![k] = IF PlacesIn(d, k) = {} THEN 0 ELSE 1],
         result' \in Object \cup {None}
  PROVE  Inv' /\ Map' = [Map EXCEPT ![k] = Value(d, k)]
<1>1. /\ Hash[k] \in 0..(Size - 1) /\ \A j \in Key : Hash[j] \in 0..(Size - 1)
      /\ buckets \in [0..(Size - 1) -> Seq(EntryType)] /\ uses \in [Key -> Nat]
  BY ChainType DEF Inv, TypeOK
<1>2. buckets' \in [0..(Size - 1) -> Seq(EntryType)] /\ uses' \in [Key -> Nat]
  BY <1>1
<1>3. /\ buckets'[Hash[k]] = d
      /\ \A b \in 0..(Size - 1) \ {Hash[k]} : buckets'[b] = buckets[b]
  BY <1>1
<1>4. TypeOK'
  BY <1>2 DEF TypeOK
<1>5. KeysOnce'
  <2>. SUFFICES ASSUME NEW b \in 0..(Size - 1),
                       NEW m \in DOMAIN buckets'[b], NEW n \in DOMAIN buckets'[b]
                PROVE  /\ Hash[buckets'[b][m].symbol] = b
                       /\ buckets'[b][m].symbol = buckets'[b][n].symbol => m = n
    BY DEF KeysOnce
  <2>1. CASE b = Hash[k]
    BY <2>1, <1>3 DEF Once
  <2>2. CASE b # Hash[k]
    BY <2>2, <1>3 DEF Inv, KeysOnce
  <2>. QED
    BY <2>1, <2>2
<1>6. ASSUME NEW j \in Key \ {k}
      PROVE  /\ Value(Chain(j)', j) = Value(Chain(j), j)
             /\ Places(j)' = {} <=> Places(j) = {}
  <2>1. CASE Hash[j] = Hash[k]
    <3>1. Chain(j)' = d /\ Chain(j) = Chain(k)
      BY <2>1, <1>3 DEF Chain
    <3>. QED
      BY <3>1 DEF Places, PlacesIn
  <2>2. CASE Hash[j] # Hash[k]
    <3>1. Chain(j)' = Chain(j)
      BY <2>2, <1>1, <1>3 DEF Chain
    <3>. QED
      BY <3>1 DEF Places
  <2>. QED
    BY <2>1, <2>2
<1>7. Chain(k)' = d
  BY <1>3 DEF Chain
<1>8. Map' = [Map EXCEPT ![k] = Value(d, k)]
  BY <1>6, <1>7, MapIsValue
<1>9. KeysCounted'
  <2>. SUFFICES ASSUME NEW j \in Key
                PROVE  uses'[j] = IF Places(j)' = {} THEN 0 ELSE 1
    BY DEF KeysCounted
  <2>1. CASE j = k
    <3>1. Places(k)' = PlacesIn(d, k)
      BY <1>7 DEF Places, PlacesIn
    <3>. QED
      BY <2>1, <3>1, <1>1
  <2>2. CASE j # k
    BY <2>2, <1>1, <1>6 DEF Inv, KeysCounted
  <2>. QED
    BY <2>1, <2>2
<1>. QED
  BY <1>4, <1>5, <1>8, <1>9 DEF Inv

\* An operation that changes no chain.
LEMMA SameChains ==
  ASSUME Inv, UNCHANGED <<buckets, uses>>, result' \in Object \cup {None}
  PROVE  Inv' /\ Map' = Map
<1>1. TypeOK' /\ KeysOnce'
  BY DEF Inv, TypeOK, KeysOnce
<1>2. \A k \in Key : Chain(k)' = Chain(k) /\ Places(k)' = Places(k) /\ First(k)' = First(k)
  BY DEF Places, First, Chain
<1>3. Map' = Map
  BY <1>2 DEF Map
<1>4. KeysCounted'
  BY <1>2 DEF Inv, KeysCounted
<1>. QED
  BY <1>1, <1>3, <1>4 DEF Inv

LEMMA LinkedStep ==
  ASSUME Assumptions, Inv, NEW k \in Key, NEW o \in Object, Places(k) = {},
         Linked(k, o), result' \in Object \cup {None}
  PROVE  Inv' /\ Map' = [Map EXCEPT ![k] = o]
<1>. DEFINE c == Chain(k)
            d == Linking(c, k, o)
<1>1. /\ c \in Seq(EntryType) /\ Once(c) /\ Hash[k] \in 0..(Size - 1)
      /\ \A n \in DOMAIN c : Hash[c[n].symbol] = Hash[k]
      /\ PlacesIn(c, k) = {}
  BY ChainType
<1>2. buckets' = [buckets EXCEPT ![Hash[k]] = d]
  BY DEF Linked, Linking, Chain
<1>3. uses' = [uses EXCEPT ![k] = 1]
  <2>1. uses \in [Key -> Nat] /\ uses[k] = 0
    BY DEF Inv, TypeOK, KeysCounted
  <2>. QED
    BY <2>1 DEF Linked
<1>4. NoneAssumption
  BY DEF Assumptions
<1>. HIDE DEF c
<1>5. /\ d \in Seq(EntryType) /\ Once(d)
      /\ \A n \in DOMAIN d : d[n].symbol = k \/ \E m \in DOMAIN c : d[n] = c[m]
      /\ PlacesIn(d, k) # {} /\ Value(d, k) = o
      /\ \A j \in Key \ {k} : /\ Value(d, j) = Value(c, j)
                              /\ PlacesIn(d, j) = {} <=> PlacesIn(c, j) = {}
  BY <1>1, <1>4, LinkedChain
<1>. HIDE DEF d
<1>6. \A n \in DOMAIN d : Hash[d[n].symbol] = Hash[k]
  BY <1>1, <1>5
<1>. QED
  BY <1>2, <1>3, <1>5, <1>6, ChainStep DEF c

LEMMA ReplacedStep ==
  ASSUME Assumptions, Inv, NEW k \in Key, NEW o \in Object, Places(k) # {},
         buckets' = [buckets EXCEPT ![Hash[k]][First(k)].object = o],
         UNCHANGED uses, result' = None
  PROVE  Inv' /\ Map' = [Map EXCEPT ![k] = o]
<1>. DEFINE c == Chain(k)
            p == First(k)
            d == Replacing(c, p, o)
<1>1. /\ c \in Seq(EntryType) /\ Once(c) /\ Hash[k] \in 0..(Size - 1)
      /\ \A n \in DOMAIN c : Hash[c[n].symbol] = Hash[k]
      /\ p \in DOMAIN c /\ c[p].symbol = k
  BY ChainType
<1>2. buckets' = [buckets EXCEPT ![Hash[k]] = d]
  BY DEF Replacing, Chain
<1>3. uses' = [uses EXCEPT ![k] = 1]
  <2>1. uses \in [Key -> Nat] /\ uses[k] = 1
    BY DEF Inv, TypeOK, KeysCounted
  <2>. QED
    BY <2>1
<1>4. NoneAssumption
  BY DEF Assumptions
<1>. HIDE DEF c, p
<1>5. /\ d \in Seq(EntryType) /\ Once(d)
      /\ \A n \in DOMAIN d : n \in DOMAIN c /\ d[n].symbol = c[n].symbol
      /\ PlacesIn(d, k) # {} /\ Value(d, k) = o
      /\ \A j \in Key \ {k} : /\ Value(d, j) = Value(c, j)
                              /\ PlacesIn(d, j) = {} <=> PlacesIn(c, j) = {}
  BY <1>1, <1>4, ReplacedChain
<1>. HIDE DEF d
<1>6. \A n \in DOMAIN d : Hash[d[n].symbol] = Hash[k]
  BY <1>1, <1>5
<1>. QED
  BY <1>2, <1>3, <1>5, <1>6, ChainStep DEF c

\* The only entry of a chain is unlinked by emptying the bucket, any other by
\* linking its neighbours.
LEMMA RemovedStep ==
  ASSUME Assumptions, Inv, NEW k \in Key, Places(k) # {}, RemoveEntry(k)
  PROVE  Inv' /\ Map' = [Map EXCEPT ![k] = None]
<1>. DEFINE c == Chain(k)
            p == First(k)
            d == RemoveAt(c, p)
<1>1. /\ c \in Seq(EntryType) /\ Once(c) /\ Hash[k] \in 0..(Size - 1)
      /\ \A n \in DOMAIN c : Hash[c[n].symbol] = Hash[k]
      /\ p \in DOMAIN c /\ c[p].symbol = k
  BY ChainType
<1>2. buckets' = [buckets EXCEPT ![Hash[k]] = d]
  <2>1. CASE p = 1
    <3>1. Len(c) = 1 /\ c = buckets[Hash[k]]
      BY <2>1 DEF RemoveEntry, Assumptions, Chain
    <3>2. d \in Seq(EntryType) /\ DOMAIN d = 1 .. 0
      BY <1>1, <3>1, TakenOut
    <3>3. d = << >>
      BY <3>2
    <3>. QED
      BY <2>1, <3>3 DEF RemoveEntry
  <2>2. CASE p # 1
    BY <2>2 DEF RemoveEntry, RemoveAt, Chain
  <2>. QED
    BY <2>1, <2>2
<1>3. uses' = [uses EXCEPT ![k] = 0]
  <2>1. uses \in [Key -> Nat] /\ uses[k] = 1
    BY DEF Inv, TypeOK, KeysCounted
  <2>. QED
    BY <2>1 DEF RemoveEntry
<1>4. NoneAssumption
  BY DEF Assumptions
<1>7. result' = None
  BY DEF RemoveEntry
<1>. HIDE DEF c, p
<1>5. /\ d \in Seq(EntryType) /\ Once(d)
      /\ \A n \in DOMAIN d : \E m \in DOMAIN c : d[n] = c[m]
      /\ PlacesIn(d, k) = {} /\ Value(d, k) = None
      /\ \A j \in Key \ {k} : /\ Value(d, j) = Value(c, j)
                              /\ PlacesIn(d, j) = {} <=> PlacesIn(c, j) = {}
  BY <1>1, <1>4, UnlinkedChain, SMTT(60)
<1>. HIDE DEF d
<1>6. \A n \in DOMAIN d : Hash[d[n].symbol] = Hash[k]
  BY <1>1, <1>5
<1>. QED
  BY <1>2, <1>3, <1>5, <1>6, <1>7, ChainStep DEF c

-----------------------------------------------------------------------------
(* Each operation is the operation of the dictionary.                      *)

LEMMA MapType ==
  ASSUME Assumptions, Inv, NEW k \in Key
  PROVE  /\ Map[k] = None <=> Places(k) = {}
         /\ Map[k] \in Object \cup {None}
         /\ Places(k) # {} => Map[k] = Chain(k)[First(k)].object
         /\ Map = [Map EXCEPT ![k] = Map[k]]
<1>1. Map[k] = Value(Chain(k), k)
  BY MapIsValue
<1>2. Chain(k) \in Seq(EntryType) /\ Once(Chain(k)) /\ NoneAssumption
  BY ChainType DEF Assumptions
<1>3. /\ Places(k) = PlacesIn(Chain(k), k)
      /\ Places(k) # {} => First(k) \in DOMAIN Chain(k) /\ Chain(k)[First(k)].symbol = k
  BY ChainType
<1>4. /\ Map[k] = None <=> PlacesIn(Chain(k), k) = {}
      /\ Map[k] \in Object \cup {None}
      /\ \A n \in DOMAIN Chain(k) : Chain(k)[n].symbol = k => Map[k] = Chain(k)[n].object
  BY <1>1, <1>2, ValueOf
<1>5. Map = [Map EXCEPT ![k] = Map[k]]
  BY DEF Map
<1>. QED
  BY <1>3, <1>4, <1>5

LEMMA GetRefines ==
  ASSUME Assumptions, Inv, NEW k \in Key, GetEntry(k)
  PROVE  Inv' /\ D!Get(k)
<1>1. result' = Map[k]
  BY MapType DEF GetEntry
<1>2. Inv' /\ Map' = Map
  BY <1>1, MapType, SameChains DEF GetEntry
<1>. QED
  BY <1>1, <1>2 DEF D!Get

LEMMA AddRefines ==
  ASSUME Assumptions, Inv, NEW k \in Key, NEW o \in Object, AddEntry(k, o)
  PROVE  Inv' /\ D!Add(k, o)
<1>1. CASE Places(k) # {} /\ result' = None /\ UNCHANGED <<buckets, uses>>
  BY <1>1, MapType, SameChains DEF D!Add
<1>2. CASE Places(k) = {} /\ Linked(k, o) /\ result' = o
  BY <1>2, MapType, LinkedStep DEF D!Add
<1>. QED
  BY <1>1, <1>2 DEF AddEntry

LEMMA ReplaceRefines ==
  ASSUME Assumptions, Inv, NEW k \in Key, NEW o \in Object, ReplaceEntry(k, o)
  PROVE  Inv' /\ D!Replace(k, o)
<1>1. CASE Places(k) # {}
  BY <1>1, ReplacedStep DEF ReplaceEntry, D!Replace
<1>2. CASE Places(k) = {}
  BY <1>2, LinkedStep DEF ReplaceEntry, D!Replace
<1>. QED
  BY <1>1, <1>2

LEMMA RemoveRefines ==
  ASSUME Assumptions, Inv, NEW k \in Key, RemoveEntry(k)
  PROVE  Inv' /\ D!Remove(k)
<1>1. CASE Places(k) = {}
  BY <1>1, MapType, SameChains DEF RemoveEntry, D!Remove
<1>2. CASE Places(k) # {}
  BY <1>2, RemovedStep DEF RemoveEntry, D!Remove
<1>. QED
  BY <1>1, <1>2

LEMMA InitRefines == Assumptions /\ Init => Inv /\ D!DInit
<1>. SUFFICES ASSUME Assumptions, Init PROVE Inv /\ D!DInit
  OBVIOUS
<1>1. TypeOK /\ KeysOnce
  BY DEF Init, TypeOK, KeysOnce
<1>2. \A k \in Key : Places(k) = {}
  <2>. SUFFICES ASSUME NEW k \in Key PROVE DOMAIN Chain(k) = {}
    BY DEF Places
  <2>1. Chain(k) = << >>
    BY DEF Assumptions, HashAssumption, Init, Chain
  <2>. QED
    BY <2>1
<1>3. KeysCounted
  BY <1>2 DEF Init, KeysCounted
<1>4. D!DInit
  BY <1>2 DEF D!DInit, Init, Map
<1>. QED
  BY <1>1, <1>3, <1>4 DEF Inv

LEMMA NextRefines ==
  ASSUME Assumptions, Inv, [Next]_vars
  PROVE  Inv' /\ [D!DNext]_(D!dvars)
<1>1. ASSUME NEW k \in Key, GetEntry(k) PROVE Inv' /\ D!DNext
  BY <1>1, GetRefines DEF D!DNext
<1>2. ASSUME NEW k \in Key, RemoveEntry(k) PROVE Inv' /\ D!DNext
  BY <1>2, RemoveRefines DEF D!DNext
<1>3. ASSUME NEW k \in Key, NEW o \in Object, AddEntry(k, o) PROVE Inv' /\ D!DNext
  BY <1>3, AddRefines DEF D!DNext
<1>4. ASSUME NEW k \in Key, NEW o \in Object, ReplaceEntry(k, o) PROVE Inv' /\ D!DNext
  BY <1>4, ReplaceRefines DEF D!DNext
<1>5. CASE UNCHANGED vars
  <2>1. UNCHANGED <<buckets, uses>> /\ result' = result /\ result' \in Object \cup {None}
    BY <1>5 DEF vars, Inv, TypeOK
  <2>2. Inv' /\ Map' = Map
    BY <2>1, SameChains
  <2>. QED
    BY <2>1, <2>2 DEF D!dvars
<1>. QED
  BY <1>1, <1>2, <1>3, <1>4, <1>5 DEF Next

\* A hash table of any number of buckets and with any hash function behaves as the
\* dictionary, whatever keys share a bucket (hash.c), as long as the first entry of
\* a longer chain is not removed.
THEOREM TableRefines == ASSUME Assumptions PROVE Spec => IsDictionary
<1>1. Inv /\ [Next]_vars => Inv' /\ [D!DNext]_(D!dvars)
  BY NextRefines
<1>2. Init => Inv /\ D!DInit
  BY InitRefines
<1>. QED
  BY <1>1, <1>2, PTL DEF Spec, IsDictionary, D!DSpec

\* In every behaviour of the composition the table is a dictionary that counts a key
\* as used exactly while it has an entry of the key.
THEOREM DictionaryThroughout ==
  ASSUME RemoveAny = FALSE
  PROVE  MCSpec => ActsAsDictionary
<1>. DEFINE MCNext == Saves \/ Looks \/ Stores
<1>1. Assumptions
  BY StorageAssumption DEF Assumptions
<1>2. MCInit => Inv /\ D!DInit
  BY <1>1, InitRefines DEF MCInit
<1>3. [MCNext]_mcVars => [Next]_vars
  BY DEF Saves, Looks, Stores, mcVars, vars
<1>4. Inv /\ [Next]_vars => Inv' /\ [D!DNext]_(D!dvars)
  BY <1>1, NextRefines
<1>5. Inv => (part = "table" => KeysCounted)
  BY DEF Inv
<1>. HIDE DEF MCNext
<1>6. Inv /\ [MCNext]_mcVars => Inv' /\ [part = "table" => D!DNext]_(D!dvars)
  BY <1>3, <1>4
<1>7. MCSpec => MCInit /\ [][MCNext]_mcVars
  BY DEF MCSpec, MCNext
<1>. QED
  BY <1>2, <1>5, <1>6, <1>7, PTL DEF ActsAsDictionary

-----------------------------------------------------------------------------
(* Dynamic arrays.                                                         *)

ArrayAssumptions == Array!SizeAssumption /\ Array!GarbageAssumption

Word == Item \cup {NULL, Garbage}

\* The items are a prefix of the memory.
ArrayInv == array \in Seq(Word) /\ stored \in 0 .. Len(array)

\* The abstract sequence.
items == SubSeq(array, 1, stored)

-----------------------------------------------------------------------------
\* Growing keeps what is in the memory and makes room for the place.
LEMMA HasRoomProperties ==
  ASSUME ArrayAssumptions, NEW a \in Seq(Word), NEW n \in Nat
  PROVE  /\ Array!HasRoom(a, n) \in Seq(Word)
         /\ Len(Array!HasRoom(a, n)) \in Nat /\ Len(Array!HasRoom(a, n)) >= n
         /\ Len(Array!HasRoom(a, n)) >= Len(a)
         /\ DOMAIN Array!HasRoom(a, n) = 1 .. Len(Array!HasRoom(a, n))
         /\ \A i \in 1 .. Len(a) : Array!HasRoom(a, n)[i] = a[i]
<1>1. /\ Len(a) \in Nat /\ DOMAIN a = 1 .. Len(a) /\ \A i \in 1 .. Len(a) : a[i] \in Word
      /\ Room \in Nat \ {0} /\ Most \in Nat
  BY DEF ArrayAssumptions, Array!SizeAssumption
<1>2. CASE Len(a) >= n
  BY <1>1, <1>2 DEF Array!HasRoom
<1>3. CASE ~(Len(a) >= n)
  <2>. DEFINE size == Len(a) + Array!Larger(n - 1 - Len(a) + Room, Array!Smaller(Len(a), Most))
  <2>1. size \in Nat /\ size >= n /\ size >= Len(a)
    BY <1>1, <1>3 DEF Array!Larger, Array!Smaller
  <2>. HIDE DEF size
  <2>2. Array!Grown(a, size) \in [1 .. size -> Word]
    BY <1>1, <2>1 DEF Array!Grown, Word
  <2>3. \A i \in 1 .. Len(a) : Array!Grown(a, size)[i] = a[i]
    BY <1>1, <2>1 DEF Array!Grown
  <2>4. /\ Array!Grown(a, size) \in Seq(Word) /\ Len(Array!Grown(a, size)) = size
        /\ DOMAIN Array!Grown(a, size) = 1 .. size
    BY <2>1, <2>2, IntervalSeq
  <2>5. Array!HasRoom(a, n) = Array!Grown(a, size)
    BY <1>3 DEF Array!HasRoom, size
  <2>. QED
    BY <2>1, <2>3, <2>4, <2>5
<1>. QED
  BY <1>1, <1>2, <1>3

\* What a step must show of the memory it leaves: each place of the sequence.
LEMMA ItemsAre ==
  ASSUME NEW a \in Seq(Word), NEW m \in 0 .. Len(a), NEW s \in Seq(Word), Len(s) = m,
         \A i \in 1 .. m : a[i] = s[i]
  PROVE  SubSeq(a, 1, m) = s
<1>1. /\ SubSeq(a, 1, m) \in Seq(Word) /\ Len(SubSeq(a, 1, m)) = m
      /\ \A i \in 1 .. m : SubSeq(a, 1, m)[i] = a[i]
  BY Prefix
<1>. QED
  BY <1>1, SeqEqual

LEMMA ItemsType ==
  ASSUME ArrayInv
  PROVE  /\ items \in Seq(Word) /\ Len(items) = stored /\ DOMAIN items = 1 .. stored
         /\ stored \in Nat /\ stored <= Len(array) /\ Len(array) \in Nat
         /\ DOMAIN array = 1 .. Len(array)
         /\ \A i \in 1 .. stored : items[i] = array[i]
         /\ \A i \in 1 .. Len(array) : array[i] \in Word
<1>1. stored \in 0 .. Len(array) /\ array \in Seq(Word)
  BY DEF ArrayInv
<1>2. /\ Len(array) \in Nat /\ DOMAIN array = 1 .. Len(array)
      /\ \A i \in 1 .. Len(array) : array[i] \in Word
  BY <1>1
<1>. QED
  BY <1>1, <1>2, Prefix DEF items

-----------------------------------------------------------------------------
LEMMA AddStep ==
  ASSUME ArrayAssumptions, ArrayInv, NEW x \in Item, Array!Add(x)
  PROVE  ArrayInv' /\ items' = Append(items, x)
<1>. DEFINE a == Array!HasRoom(array, stored + 1)
<1>1. /\ items \in Seq(Word) /\ Len(items) = stored
      /\ stored \in Nat /\ stored + 1 \in Nat /\ stored <= Len(array) /\ Len(array) \in Nat
      /\ \A i \in 1 .. stored : items[i] = array[i]
      /\ array \in Seq(Word) /\ x \in Word
  BY ItemsType DEF ArrayInv, Word
<1>2. /\ a \in Seq(Word) /\ Len(a) \in Nat /\ Len(a) >= stored + 1
      /\ DOMAIN a = 1 .. Len(a)
      /\ \A i \in 1 .. Len(array) : a[i] = array[i]
  BY <1>1, HasRoomProperties
<1>. HIDE DEF a
<1>3. array' = [a EXCEPT ![stored + 1] = x] /\ stored' = stored + 1
  BY DEF Array!Add, a
<1>4. /\ array' \in Seq(Word) /\ Len(array') = Len(a)
      /\ \A i \in 1 .. Len(a) : array'[i] = IF i = stored + 1 THEN x ELSE a[i]
  <2>1. stored + 1 \in 1 .. Len(a)
    BY <1>1, <1>2
  <2>. QED
    BY <2>1, <1>1, <1>2, <1>3, ExceptSeq
<1>5. ArrayInv'
  BY <1>1, <1>2, <1>3, <1>4 DEF ArrayInv
<1>6. /\ Append(items, x) \in Seq(Word) /\ Len(Append(items, x)) = stored + 1
      /\ \A i \in 1 .. stored : Append(items, x)[i] = items[i]
      /\ Append(items, x)[stored + 1] = x
  BY <1>1, AppendProperties
<1>7. \A i \in 1 .. stored + 1 : array'[i] = Append(items, x)[i]
  <2>. SUFFICES ASSUME NEW i \in 1 .. stored + 1 PROVE array'[i] = Append(items, x)[i]
    OBVIOUS
  <2>1. CASE i = stored + 1
    BY <2>1, <1>1, <1>2, <1>4, <1>6
  <2>2. CASE i # stored + 1
    <3>1. i \in 1 .. stored /\ i \in 1 .. Len(array) /\ i \in 1 .. Len(a)
      BY <2>2, <1>1, <1>2
    <3>. QED
      BY <3>1, <2>2, <1>1, <1>2, <1>4, <1>6
  <2>. QED
    BY <2>1, <2>2
<1>8. SubSeq(array', 1, stored + 1) = Append(items, x)
  BY <1>1, <1>2, <1>4, <1>6, <1>7, ItemsAre
<1>. QED
  BY <1>3, <1>5, <1>8 DEF items

LEMMA PrependStep ==
  ASSUME ArrayAssumptions, ArrayInv, NEW x \in Item, Array!Prepend(x)
  PROVE  ArrayInv' /\ items' = <<x>> \o items
<1>. DEFINE a == Array!HasRoom(array, stored + 1)
<1>1. /\ items \in Seq(Word) /\ Len(items) = stored /\ DOMAIN items = 1 .. stored
      /\ stored \in Nat /\ stored + 1 \in Nat /\ stored <= Len(array) /\ Len(array) \in Nat
      /\ \A i \in 1 .. stored : items[i] = array[i]
      /\ array \in Seq(Word) /\ x \in Word
  BY ItemsType DEF ArrayInv, Word
<1>2. /\ a \in Seq(Word) /\ Len(a) \in Nat /\ Len(a) >= stored + 1
      /\ DOMAIN a = 1 .. Len(a)
      /\ \A i \in 1 .. Len(array) : a[i] = array[i]
      /\ \A i \in 1 .. Len(a) : a[i] \in Word
  BY <1>1, HasRoomProperties
<1>. HIDE DEF a
<1>3. /\ array' = [i \in 1 .. Len(a) |-> IF i = 1 THEN x
                                         ELSE IF i <= stored + 1 THEN a[i - 1] ELSE a[i]]
      /\ stored' = stored + 1
  BY <1>2 DEF Array!Prepend, a
<1>4. array' \in Seq(Word) /\ Len(array') = Len(a)
  <2>1. array' \in [1 .. Len(a) -> Word]
    <3>. SUFFICES ASSUME NEW i \in 1 .. Len(a), i # 1, i <= stored + 1
                  PROVE  i - 1 \in 1 .. Len(a)
      BY <1>1, <1>2, <1>3
    <3>. QED
      BY <1>2
  <2>. QED
    BY <2>1, <1>2, IntervalSeq
<1>5. ArrayInv'
  BY <1>1, <1>2, <1>3, <1>4 DEF ArrayInv
<1>. DEFINE s == <<x>> \o items
<1>6. /\ s \in Seq(Word) /\ DOMAIN s = 1 .. stored + 1 /\ s[1] = x
      /\ \A i \in 1 .. stored : s[i + 1] = items[i]
  BY <1>1, PushedFirst
<1>. HIDE DEF s
<1>7. Len(s) = stored + 1
  BY <1>1, <1>6
<1>8. ASSUME NEW i \in 1 .. stored + 1 PROVE array'[i] = s[i]
  <2>1. i \in 1 .. Len(a)
    BY <1>1, <1>2
  <2>2. CASE i = 1
    BY <2>1, <2>2, <1>3, <1>6
  <2>3. CASE i # 1
    <3>1. i - 1 \in 1 .. stored /\ i - 1 \in 1 .. Len(array) /\ (i - 1) + 1 = i
      BY <2>3, <1>1
    <3>2. array'[i] = a[i - 1]
      BY <2>1, <2>3, <1>3
    <3>3. s[i] = items[i - 1]
      BY <3>1, <1>6
    <3>. QED
      BY <3>1, <3>2, <3>3, <1>1, <1>2
  <2>. QED
    BY <2>2, <2>3
<1>9. SubSeq(array', 1, stored + 1) = s
  BY <1>1, <1>2, <1>4, <1>6, <1>7, <1>8, ItemsAre
<1>. QED
  BY <1>3, <1>5, <1>9 DEF items, s

LEMMA RemoveStep ==
  ASSUME ArrayInv, NEW n \in Nat \ {0}, Array!RemoveNth(n), n <= stored
  PROVE  ArrayInv' /\ n \in DOMAIN items /\ popped' = items[n] /\ items' = RemoveAt(items, n)
<1>1. /\ items \in Seq(Word) /\ Len(items) = stored /\ DOMAIN items = 1 .. stored
      /\ stored \in Nat /\ stored <= Len(array) /\ Len(array) \in Nat
      /\ DOMAIN array = 1 .. Len(array)
      /\ \A i \in 1 .. stored : items[i] = array[i]
      /\ \A i \in 1 .. Len(array) : array[i] \in Word
  BY ItemsType
<1>2. /\ array' = [i \in 1 .. Len(array) |->
                     IF n <= i /\ i < stored THEN array[i + 1] ELSE array[i]]
      /\ stored' = stored - 1 /\ popped' = array[n]
  BY <1>1 DEF Array!RemoveNth
<1>3. n \in 1 .. stored /\ stored - 1 \in Nat
  BY <1>1
<1>4. array' \in Seq(Word) /\ Len(array') = Len(array)
  <2>1. array' \in [1 .. Len(array) -> Word]
    <3>. SUFFICES ASSUME NEW i \in 1 .. Len(array), i < stored
                  PROVE  i + 1 \in 1 .. Len(array)
      BY <1>1, <1>2
    <3>. QED
      BY <1>1
  <2>. QED
    BY <2>1, <1>1, IntervalSeq
<1>5. ArrayInv'
  BY <1>1, <1>2, <1>3, <1>4 DEF ArrayInv
<1>. DEFINE s == RemoveAt(items, n)
<1>6. /\ s \in Seq(Word) /\ DOMAIN s = 1 .. stored - 1 /\ Len(s) = stored - 1
      /\ \A i \in 1 .. stored - 1 : s[i] = IF i < n THEN items[i] ELSE items[i + 1]
  BY <1>1, <1>3, TakenOut
<1>. HIDE DEF s
<1>7. ASSUME NEW i \in 1 .. stored - 1 PROVE array'[i] = s[i]
  <2>1. i \in 1 .. Len(array) /\ i \in 1 .. stored /\ i + 1 \in 1 .. stored /\ i < stored
    BY <1>1
  <2>2. array'[i] = IF n <= i THEN array[i + 1] ELSE array[i]
    BY <2>1, <1>2
  <2>3. i < n <=> ~(n <= i)
    BY <1>3
  <2>. QED
    BY <2>1, <2>2, <2>3, <1>1, <1>6
<1>8. SubSeq(array', 1, stored - 1) = s
  <2>1. stored - 1 \in 0 .. Len(array')
    BY <1>1, <1>3, <1>4
  <2>. QED
    BY <2>1, <1>4, <1>6, <1>7, ItemsAre
<1>. QED
  BY <1>1, <1>2, <1>3, <1>5, <1>8 DEF items, s

\* The sequence after a place is set, with NULL in the places between.
SetTo(n, x) ==
  [i \in 1 .. (IF n > Len(items) THEN n ELSE Len(items)) |->
     IF i = n THEN x ELSE IF i \in DOMAIN items THEN items[i] ELSE NULL]

LEMMA SetStep ==
  ASSUME ArrayAssumptions, ArrayInv, NEW n \in Nat \ {0}, NEW x \in Item,
         Array!SetNth(n, x)
  PROVE  ArrayInv' /\ items' = SetTo(n, x)
<1>. DEFINE a == Array!HasRoom(array, n)
            m == Array!Larger(n, stored)
<1>1. /\ items \in Seq(Word) /\ Len(items) = stored /\ DOMAIN items = 1 .. stored
      /\ stored \in Nat /\ stored <= Len(array) /\ Len(array) \in Nat
      /\ \A i \in 1 .. stored : items[i] = array[i]
      /\ \A i \in 1 .. Len(array) : array[i] \in Word
      /\ array \in Seq(Word) /\ x \in Word /\ NULL \in Word
  BY ItemsType DEF ArrayInv, Word
<1>2. /\ a \in Seq(Word) /\ Len(a) \in Nat /\ Len(a) >= n /\ Len(a) >= Len(array)
      /\ DOMAIN a = 1 .. Len(a)
      /\ \A i \in 1 .. Len(array) : a[i] = array[i]
      /\ \A i \in 1 .. Len(a) : a[i] \in Word
  BY <1>1, HasRoomProperties
<1>. HIDE DEF a
<1>3. /\ array' = [i \in 1 .. Len(a) |-> IF i = n THEN x
                                         ELSE IF stored < i /\ i < n THEN NULL ELSE a[i]]
      /\ stored' = m
  BY <1>2 DEF Array!SetNth, a
<1>4. m \in Nat /\ m <= Len(a) /\ m >= n /\ m >= stored /\ (m = n \/ m = stored)
  BY <1>1, <1>2 DEF Array!Larger
<1>. HIDE DEF m
<1>5. array' \in Seq(Word) /\ Len(array') = Len(a)
  <2>1. array' \in [1 .. Len(a) -> Word]
    BY <1>1, <1>2, <1>3
  <2>. QED
    BY <2>1, <1>2, IntervalSeq
<1>6. ArrayInv'
  BY <1>2, <1>3, <1>4, <1>5 DEF ArrayInv
<1>7. SetTo(n, x) = [i \in 1 .. m |->
                       IF i = n THEN x ELSE IF i \in 1 .. stored THEN items[i] ELSE NULL]
  <2>1. (IF n > Len(items) THEN n ELSE Len(items)) = m
    BY <1>1 DEF m, Array!Larger
  <2>. QED
    BY <2>1, <1>1 DEF SetTo
<1>8. SetTo(n, x) \in Seq(Word) /\ Len(SetTo(n, x)) = m
  <2>1. \A i \in 1 .. stored : items[i] \in Word
    BY <1>1
  <2>2. SetTo(n, x) \in [1 .. m -> Word]
    BY <2>1, <1>1, <1>7
  <2>. QED
    BY <2>2, <1>4, IntervalSeq
<1>9. ASSUME NEW i \in 1 .. m PROVE array'[i] = SetTo(n, x)[i]
  <2>1. i \in 1 .. Len(a) /\ i \in Nat
    BY <1>4, <1>2
  <2>2. /\ array'[i] = IF i = n THEN x ELSE IF stored < i /\ i < n THEN NULL ELSE a[i]
        /\ SetTo(n, x)[i] = IF i = n THEN x ELSE IF i \in 1 .. stored THEN items[i] ELSE NULL
    BY <2>1, <1>3, <1>7
  <2>3. CASE i \in 1 .. stored
    <3>1. i \in 1 .. Len(array) /\ ~(stored < i)
      BY <2>3, <1>1
    <3>. QED
      BY <2>2, <2>3, <3>1, <1>1, <1>2
  <2>4. CASE i \notin 1 .. stored
    <3>1. stored < i /\ (i = n \/ i < n)
      BY <2>1, <2>4, <1>1, <1>4
    <3>. QED
      BY <2>2, <2>4, <3>1
  <2>. QED
    BY <2>3, <2>4
<1>10. SubSeq(array', 1, m) = SetTo(n, x)
  <2>1. m \in 0 .. Len(array')
    BY <1>2, <1>4, <1>5
  <2>. QED
    BY <2>1, <1>5, <1>8, <1>9, ItemsAre
<1>. QED
  BY <1>3, <1>6, <1>10 DEF items

-----------------------------------------------------------------------------
(* Each operation is an operation of the sequence.                         *)

LEMMA ArrayInsert ==
  ASSUME ArrayAssumptions, ArrayInv, NEW x \in Item,
         Array!DoAppend(x) \/ Array!AppendIfUnique(x) \/ Array!Prepend(x)
  PROVE  ArrayInv' /\ Array!S!Insert(x)
<1>1. CASE Array!DoAppend(x)
  BY <1>1, AddStep DEF Array!DoAppend, Array!S!Insert, Array!S!Put, items
<1>2. CASE Array!AppendIfUnique(x)
  <2>1. Range(items) = {array[i] : i \in 1 .. stored}
    BY ItemsType DEF Range
  <2>2. CASE \E i \in 1 .. stored : array[i] = x
    <3>1. UNCHANGED <<array, stored>> /\ popped' = NULL /\ x \in Range(items)
      BY <1>2, <2>1, <2>2 DEF Array!AppendIfUnique
    <3>2. ArrayInv' /\ items' = items
      BY <3>1 DEF ArrayInv, items
    <3>. QED
      BY <3>1, <3>2 DEF Array!S!Insert, Array!S!Put, Array!S!Range, Range, items
  <2>3. CASE ~ \E i \in 1 .. stored : array[i] = x
    <3>1. Array!Add(x) /\ popped' = NULL
      BY <1>2, <2>3 DEF Array!AppendIfUnique
    <3>. QED
      BY <3>1, AddStep DEF Array!S!Insert, Array!S!Put, items
  <2>. QED
    BY <2>2, <2>3
<1>3. CASE Array!Prepend(x)
  BY <1>3, PrependStep DEF Array!Prepend, Array!S!Insert, Array!S!Put, items
<1>. QED
  BY <1>1, <1>2, <1>3

LEMMA ArraySet ==
  ASSUME ArrayAssumptions, ArrayInv, NEW n \in Nat \ {0}, NEW x \in Item,
         Array!SetNth(n, x)
  PROVE  ArrayInv' /\ Array!S!Set(n, x)
<1>1. ArrayInv' /\ items' = SetTo(n, x) /\ popped' = NULL
  BY SetStep DEF Array!SetNth
<1>. QED
  BY <1>1 DEF SetTo, Array!S!Set, Array!S!Put, Array!S!Nth, items

LEMMA ArrayTake ==
  ASSUME ArrayInv, NEW n \in Nat \ {0}, Array!RemoveNth(n)
  PROVE  ArrayInv' /\ Array!S!Take(n)
<1>1. CASE n <= stored
  BY <1>1, RemoveStep DEF Array!S!Take, Array!S!Nth, Array!S!RemoveAt, RemoveAt, items
<1>2. CASE ~(n <= stored)
  <2>1. n \notin DOMAIN items
    BY <1>2, ItemsType
  <2>2. popped' = NULL /\ UNCHANGED <<array, stored>>
    BY <1>2, ItemsType DEF Array!RemoveNth
  <2>. QED
    BY <2>1, <2>2 DEF ArrayInv, Array!S!Take, Array!S!Nth, items
<1>. QED
  BY <1>1, <1>2

LEMMA ArrayLook ==
  ASSUME ArrayInv, NEW n \in Nat \ {0}, Array!GetNth(n)
  PROVE  ArrayInv' /\ Array!S!Look(n)
<1>1. n \in DOMAIN items <=> ~(n > stored)
  BY ItemsType
<1>2. ~(n > stored) => items[n] = array[n]
  BY ItemsType
<1>. QED
  BY <1>1, <1>2 DEF Array!GetNth, ArrayInv, Array!S!Look, Array!S!Nth, items

LEMMA ArrayEmpty ==
  ASSUME ArrayInv, Array!SetArrayEmpty
  PROVE  ArrayInv' /\ Array!S!Put(<<>>)
<1>1. array' \in Seq(Word) /\ stored' = 0 /\ 0 \in 0 .. Len(array') /\ popped' = NULL
  BY DEF ArrayInv, Array!SetArrayEmpty
<1>2. SubSeq(array', 1, 0) = << >>
  BY SubSeqEmpty
<1>. QED
  BY <1>1, <1>2 DEF ArrayInv, Array!S!Put

LEMMA ArrayInit == ArrayAssumptions /\ Array!Init => ArrayInv /\ Array!S!SInit
<1>. SUFFICES ASSUME ArrayAssumptions, Array!Init PROVE ArrayInv /\ Array!S!SInit
  OBVIOUS
<1>1. array \in [1 .. InitialSize -> Word] /\ InitialSize \in Nat /\ stored = 0
  BY DEF ArrayAssumptions, Array!SizeAssumption, Array!Init, Word
<1>2. array \in Seq(Word) /\ Len(array) \in Nat
  BY <1>1
<1>3. SubSeq(array, 1, 0) = << >>
  BY SubSeqEmpty
<1>. QED
  BY <1>1, <1>2, <1>3 DEF ArrayInv, Array!Init, Array!S!SInit

LEMMA ArrayNext ==
  ASSUME ArrayAssumptions, ArrayInv, [Array!Next]_(Array!vars)
  PROVE  ArrayInv' /\ [Array!S!SNext]_(Array!S!svars)
<1>0. \A n \in 1 .. (MaxLength + 1) : n \in Nat \ {0}
  BY DEF ArrayAssumptions, Array!SizeAssumption
<1>1. ASSUME NEW x \in Item,
             Array!DoAppend(x) \/ Array!AppendIfUnique(x) \/ Array!Prepend(x)
      PROVE  ArrayInv' /\ Array!S!SNext
  BY <1>1, ArrayInsert DEF Array!S!SNext
<1>2. ASSUME NEW n \in 1 .. (MaxLength + 1), Array!RemoveNth(n)
      PROVE  ArrayInv' /\ Array!S!SNext
  BY <1>0, <1>2, ArrayTake DEF Array!S!SNext
<1>3. ASSUME NEW n \in 1 .. (MaxLength + 1), Array!GetNth(n)
      PROVE  ArrayInv' /\ Array!S!SNext
  BY <1>0, <1>3, ArrayLook DEF Array!S!SNext
<1>4. ASSUME NEW n \in 1 .. (MaxLength + 1), NEW x \in Item, Array!SetNth(n, x)
      PROVE  ArrayInv' /\ Array!S!SNext
  BY <1>0, <1>4, ArraySet DEF Array!S!SNext
<1>5. CASE Array!SetArrayEmpty
  BY <1>5, ArrayEmpty DEF Array!S!SNext
<1>6. CASE UNCHANGED Array!vars
  BY <1>6 DEF Array!vars, ArrayInv, Array!S!svars
<1>. QED
  BY <1>1, <1>2, <1>3, <1>4, <1>5, <1>6 DEF Array!Next

\* An array that is grown, filled past its end, emptied and filled again holds the
\* items put into it, in their order, and returns them (dyar.c).
THEOREM ArrayRefines ==
  ASSUME ArrayAssumptions
  PROVE  Array!Spec => Array!IsSequence
<1>1. ArrayInv /\ [Array!Next]_(Array!vars) => ArrayInv' /\ [Array!S!SNext]_(Array!S!svars)
  BY ArrayNext
<1>2. Array!Init => ArrayInv /\ Array!S!SInit
  BY ArrayInit
<1>. QED
  BY <1>1, <1>2, PTL DEF Array!Spec, Array!IsSequence, Array!S!SSpec

\* In every behaviour of the composition the array is a sequence and never holds more
\* items than it has memory for (dyar.c grows it first).
THEOREM SequenceThroughout == MCSpec => ActsAsSequence
<1>. DEFINE MCNext == Saves \/ Looks \/ Stores
<1>1. ArrayAssumptions
  BY StorageAssumption DEF ArrayAssumptions
<1>2. MCInit => ArrayInv /\ Array!S!SInit
  BY <1>1, ArrayInit DEF MCInit
<1>3. [MCNext]_mcVars => [Array!Next]_(Array!vars)
  BY DEF Saves, Looks, Stores, mcVars, arrayVars, Array!vars
<1>4. ArrayInv /\ [Array!Next]_(Array!vars) => ArrayInv' /\ [Array!S!SNext]_(Array!S!svars)
  BY <1>1, ArrayNext
<1>5. ArrayInv => Array!NeverOverruns
  BY ItemsType DEF Array!NeverOverruns
<1>. HIDE DEF MCNext
<1>6. ArrayInv /\ [MCNext]_mcVars
        => ArrayInv' /\ [part = "array" => Array!S!SNext]_(Array!S!svars)
  BY <1>3, <1>4
<1>7. MCSpec => MCInit /\ [][MCNext]_mcVars
  BY DEF MCSpec, MCNext
<1>. QED
  BY <1>2, <1>5, <1>6, <1>7, PTL DEF ActsAsSequence

-----------------------------------------------------------------------------
(* SAVESTATE and RESTORESTATE: types, and the translation of ids.          *)

Id == Nat \ {0}
Obj == [id : Id, tag : Nat, ref : Nat, gen : Nat]
Filed == [block : Block, id : Id, ref : Nat, gen : Nat]
Listed == [rule : Rule, id : Id]
Refraction == [rule : Rule, id : Id, tag : Nat]
Trans == UNION {[d -> Id] : d \in SUBSET Nat}
Memory == [Block -> Seq(Obj)]
Reading == [wm : Memory, trans : Trans, next : Id, clock : Nat, status : BOOLEAN]
ReadingOn == [wm : Memory, trans : Trans, next : Id, refset : SUBSET Refraction,
              status : BOOLEAN]

LEMMA SameOperators ==
  /\ \A s : State!Range(s) = Range(s)
  /\ \A s : State!IsInjective(s) = IsInjective(s)
  /\ \A s : State!FlattenSeq(s) = FlattenSeq(s)
  /\ \A s, i : State!RemoveAt(s, i) = RemoveAt(s, i)
<1>1. \A s : State!Range(s) = Range(s)
  BY DEF State!Range, Range
<1>2. \A s : State!IsInjective(s) = IsInjective(s)
  BY DEF State!IsInjective, IsInjective
<1>3. \A s : State!FlattenSeq(s) = FlattenSeq(s)
  BY DEF State!FlattenSeq, FlattenSeq
<1>4. \A s, i : State!RemoveAt(s, i) = RemoveAt(s, i)
  BY DEF State!RemoveAt, RemoveAt
<1>. QED
  BY <1>1, <1>2, <1>3, <1>4

LEMMA TransIs ==
  \A f : f \in Trans <=> DOMAIN f \subseteq Nat /\ f \in [DOMAIN f -> Id]
<1>1. ASSUME NEW f \in Trans PROVE DOMAIN f \subseteq Nat /\ f \in [DOMAIN f -> Id]
  <2>1. PICK d \in SUBSET Nat : f \in [d -> Id]
    BY DEF Trans
  <2>. QED
    BY <2>1
<1>2. ASSUME NEW f, DOMAIN f \subseteq Nat, f \in [DOMAIN f -> Id] PROVE f \in Trans
  BY <1>2 DEF Trans
<1>. QED
  BY <1>1, <1>2

\* What Translate does to the translation and to the next id.
Longer(f, next, id) ==
  IF id \in DOMAIN f THEN f
  ELSE [i \in DOMAIN f \cup {id} |-> IF i = id THEN next ELSE f[i]]
After(f, next, id) == IF id \in DOMAIN f THEN next ELSE next + 1

LEMMA TranslateIs ==
  ASSUME NEW t, t \in Reading \/ t \in ReadingOn, NEW id
  PROVE  /\ State!Translate(t, id).trans = Longer(t.trans, t.next, id)
         /\ State!Translate(t, id).next = After(t.trans, t.next, id)
         /\ State!Translate(t, id).wm = t.wm
         /\ State!Translate(t, id).status = t.status
         /\ t \in Reading => State!Translate(t, id).clock = t.clock
         /\ t \in ReadingOn => State!Translate(t, id).refset = t.refset
<1>. USE DEF State!Translate, Longer, After
<1>1. CASE t \in Reading
  BY <1>1 DEF Reading, ReadingOn
<1>2. CASE t \in ReadingOn
  BY <1>2 DEF Reading, ReadingOn
<1>. QED
  BY <1>1, <1>2

\* The translation of different ids is different, and of the ids handed out since n0.
Fresh(f, n0, next) ==
  /\ f \in Trans /\ n0 \in Id /\ next \in Id /\ n0 <= next
  /\ \A i \in DOMAIN f : n0 <= f[i] /\ f[i] < next
  /\ \A i, j \in DOMAIN f : f[i] = f[j] => i = j

\* g is f with a translation of id.
Lengthens(f, next, id, g, n) ==
  /\ g \in Trans /\ n \in Id
  /\ DOMAIN g = DOMAIN f \cup {id}
  /\ \A i \in DOMAIN f : g[i] = f[i]
  /\ next <= n
  /\ id \notin DOMAIN f => g[id] = next

LEMMA TransTyped ==
  ASSUME NEW f \in Trans, NEW next \in Id, NEW id \in Nat
  PROVE  Lengthens(f, next, id, Longer(f, next, id), After(f, next, id))
<1>. USE DEF Lengthens
<1>1. DOMAIN f \subseteq Nat /\ f \in [DOMAIN f -> Id]
  BY TransIs
<1>2. CASE id \in DOMAIN f
  <2>1. Longer(f, next, id) = f /\ After(f, next, id) = next /\ DOMAIN f = DOMAIN f \cup {id}
    BY <1>2 DEF Longer, After
  <2>2. next <= next
    BY DEF Id
  <2>. QED
    BY <1>2, <2>1, <2>2
<1>3. CASE id \notin DOMAIN f
  <2>. DEFINE g == [i \in DOMAIN f \cup {id} |-> IF i = id THEN next ELSE f[i]]
  <2>1. Longer(f, next, id) = g /\ After(f, next, id) = next + 1
    BY <1>3 DEF Longer, After
  <2>2. DOMAIN g = DOMAIN f \cup {id} /\ DOMAIN g \subseteq Nat
    BY <1>1, <1>3
  <2>3. \A i \in DOMAIN g : g[i] \in Id
    BY <1>1, <1>3
  <2>4. g \in [DOMAIN g -> Id]
    BY <2>2, <2>3
  <2>5. \A i \in DOMAIN f : g[i] = f[i]
    BY <1>3
  <2>6. g[id] = next
    BY <1>3
  <2>. HIDE DEF g
  <2>7. g \in Trans
    BY <2>2, <2>4, TransIs
  <2>8. next + 1 \in Id /\ next <= next + 1
    BY DEF Id
  <2>. QED
    BY <2>1, <2>2, <2>5, <2>6, <2>7, <2>8
<1>. QED
  BY <1>2, <1>3

LEMMA StaysFresh ==
  ASSUME NEW f, NEW n0, NEW next, Fresh(f, n0, next), NEW id \in Nat
  PROVE  Fresh(Longer(f, next, id), n0, After(f, next, id))
<1>. DEFINE g == Longer(f, next, id)
<1>0. f \in Trans /\ next \in Id
  BY DEF Fresh
<1>1. /\ g \in Trans /\ After(f, next, id) \in Id
      /\ DOMAIN g = DOMAIN f \cup {id}
      /\ \A i \in DOMAIN f : g[i] = f[i]
      /\ next <= After(f, next, id)
      /\ id \notin DOMAIN f => g[id] = next
  BY <1>0, TransTyped DEF Lengthens
<1>2. CASE id \in DOMAIN f
  BY <1>2 DEF Longer, After
<1>3. CASE id \notin DOMAIN f
  <2>1. After(f, next, id) = next + 1
    BY <1>3 DEF After
  <2>. HIDE DEF g
  <2>2. f \in [DOMAIN f -> Id]
    BY TransIs DEF Fresh
  <2>3. n0 \in Nat /\ next \in Nat /\ \A i \in DOMAIN f : f[i] \in Nat
    BY <2>2 DEF Fresh, Id
  <2>4. \A i \in DOMAIN g : i \in DOMAIN f \/ i = id
    BY <1>1
  <2>5. \A i \in DOMAIN g : n0 <= g[i] /\ g[i] < next + 1
    BY <1>1, <1>3, <2>3, <2>4 DEF Fresh
  <2>6. ASSUME NEW i \in DOMAIN g, NEW j \in DOMAIN g, g[i] = g[j] PROVE i = j
    <3>1. CASE i \in DOMAIN f /\ j \in DOMAIN f
      BY <3>1, <1>1, <2>6 DEF Fresh
    <3>2. CASE i \in DOMAIN f /\ j = id
      BY <3>2, <1>1, <1>3, <2>6, <2>3 DEF Fresh
    <3>3. CASE i = id /\ j \in DOMAIN f
      BY <3>3, <1>1, <1>3, <2>6, <2>3 DEF Fresh
    <3>. QED
      BY <3>1, <3>2, <3>3, <2>4
  <2>7. n0 <= next + 1
    BY <2>3 DEF Fresh
  <2>8. Fresh(g, n0, next + 1)
    BY <1>1, <2>1, <2>5, <2>6, <2>7 DEF Fresh
  <2>. QED
    BY <2>1, <2>8 DEF g
<1>. QED
  BY <1>2, <1>3

-----------------------------------------------------------------------------
(* One object of the file.                                                 *)

Twice(t, o) == Longer(Longer(t.trans, t.next, o.id), After(t.trans, t.next, o.id), o.ref)
NextTwice(t, o) == After(Longer(t.trans, t.next, o.id), After(t.trans, t.next, o.id), o.ref)
Made(t, o) == [id |-> Twice(t, o)[o.id], tag |-> t.clock + 1,
               ref |-> Twice(t, o)[o.ref], gen |-> o.gen]
Visibly == Range(Sees[eb])

LEMMA TwiceTyped ==
  ASSUME NEW t \in Reading, NEW o \in Filed
  PROVE  /\ Twice(t, o) \in Trans /\ NextTwice(t, o) \in Id
         /\ DOMAIN t.trans \subseteq DOMAIN Twice(t, o) /\ t.next <= NextTwice(t, o)
         /\ \A i \in DOMAIN t.trans : Twice(t, o)[i] = t.trans[i]
         /\ o.id \in DOMAIN Twice(t, o)
         /\ o.ref \in DOMAIN Twice(t, o)
         /\ o.id \notin DOMAIN t.trans => Twice(t, o)[o.id] = t.next
         /\ Made(t, o) \in Obj
<1>1. t.trans \in Trans /\ t.next \in Id /\ t.clock \in Nat
  BY DEF Reading
<1>2. o.id \in Id /\ o.id \in Nat /\ o.ref \in Nat /\ o.gen \in Nat
  BY DEF Filed, Id
<1>. DEFINE f == Longer(t.trans, t.next, o.id)
            n == After(t.trans, t.next, o.id)
<1>3. /\ f \in Trans /\ n \in Id
      /\ DOMAIN f = DOMAIN t.trans \cup {o.id}
      /\ \A i \in DOMAIN t.trans : f[i] = t.trans[i]
      /\ t.next <= n
      /\ o.id \notin DOMAIN t.trans => f[o.id] = t.next
  <2>1. Lengthens(t.trans, t.next, o.id, f, n)
    BY <1>1, <1>2, TransTyped
  <2>. QED
    BY <2>1 DEF Lengthens
<1>. HIDE DEF f, n
<1>4. /\ Longer(f, n, o.ref) \in Trans /\ After(f, n, o.ref) \in Id
      /\ DOMAIN Longer(f, n, o.ref) = DOMAIN f \cup {o.ref}
      /\ \A i \in DOMAIN f : Longer(f, n, o.ref)[i] = f[i]
      /\ n <= After(f, n, o.ref)
  <2>1. Lengthens(f, n, o.ref, Longer(f, n, o.ref), After(f, n, o.ref))
    BY <1>2, <1>3, TransTyped
  <2>. QED
    BY <2>1 DEF Lengthens
<1>5. Twice(t, o) = Longer(f, n, o.ref) /\ NextTwice(t, o) = After(f, n, o.ref)
  BY DEF Twice, NextTwice, f, n
<1>6. /\ Twice(t, o) \in Trans /\ NextTwice(t, o) \in Id
      /\ DOMAIN t.trans \subseteq DOMAIN Twice(t, o)
      /\ \A i \in DOMAIN t.trans : Twice(t, o)[i] = t.trans[i]
      /\ o.id \in DOMAIN Twice(t, o)
      /\ o.ref \in DOMAIN Twice(t, o)
      /\ o.id \notin DOMAIN t.trans => Twice(t, o)[o.id] = t.next
  BY <1>2, <1>3, <1>4, <1>5
<1>7. t.next <= NextTwice(t, o)
  BY <1>1, <1>3, <1>4, <1>5 DEF Id
<1>8. Twice(t, o) \in [DOMAIN Twice(t, o) -> Id]
  BY <1>6, TransIs
<1>9. Twice(t, o)[o.id] \in Id /\ Twice(t, o)[o.ref] \in Nat
  BY <1>6, <1>8 DEF Id
<1>10. Made(t, o) \in Obj
  BY <1>1, <1>2, <1>9 DEF Made, Obj
<1>. QED
  BY <1>6, <1>7, <1>10

Makes(t, o, u) ==
  /\ u \in Reading
  /\ o.block \notin Visibly =>
       /\ u.wm = t.wm /\ u.trans = t.trans /\ u.next = t.next
       /\ u.clock = t.clock /\ u.status = FALSE
  /\ o.block \in Visibly =>
       /\ u.wm = [t.wm EXCEPT ![o.block] = Append(@, Made(t, o))]
       /\ u.trans = Twice(t, o) /\ u.next = NextTwice(t, o)
       /\ u.clock = t.clock + 1 /\ u.status = t.status

LEMMA MakeWmoIs ==
  ASSUME NEW t \in Reading, NEW o \in Filed
  PROVE  Makes(t, o, State!MakeWmo(t, o))
<1>. DEFINE u == State!MakeWmo(t, o)
<1>0. u = State!MakeWmo(t, o)
  OBVIOUS
<1>. HIDE DEF u
<1>. SUFFICES Makes(t, o, u)
  BY <1>0
<1>. USE DEF Makes
<1>1. CASE o.block \notin Visibly
  <2>1. u = [t EXCEPT !.status = FALSE]
    BY <1>0, <1>1, SameOperators DEF State!MakeWmo, Visibly
  <2>. QED
    BY <1>1, <2>1 DEF Reading
<1>2. CASE o.block \in Visibly
  <2>. DEFINE p == State!Translate(t, o.id)
              q == State!Translate(p, o.ref)
  <2>1. /\ p.trans = Longer(t.trans, t.next, o.id)
        /\ p.next = After(t.trans, t.next, o.id)
        /\ p.wm = t.wm /\ p.status = t.status /\ p.clock = t.clock
    BY TranslateIs
  <2>2. p \in Reading
    <3>1. t.trans \in Trans /\ t.next \in Id /\ o.id \in Nat
      BY DEF Reading, Filed, Id
    <3>2. p.trans \in Trans /\ p.next \in Id
      BY <2>1, <3>1, TransTyped DEF Lengthens
    <3>3. p = t \/ p = [t EXCEPT !.trans = p.trans, !.next = p.next]
      <4>1. p = t \/ p = [t EXCEPT !.trans = [i \in DOMAIN t.trans \cup {o.id} |->
                                IF i = o.id THEN t.next ELSE t.trans[i]],
                                   !.next = @ + 1]
        BY DEF State!Translate
      <4>. HIDE DEF p
      <4>. QED
        BY <4>1 DEF Reading
    <3>. HIDE DEF p
    <3>. QED
      BY <3>2, <3>3 DEF Reading
  <2>. HIDE DEF p
  <2>3. /\ q.trans = Longer(p.trans, p.next, o.ref)
        /\ q.next = After(p.trans, p.next, o.ref)
        /\ q.wm = p.wm /\ q.status = p.status /\ q.clock = p.clock
    BY <2>2, TranslateIs
  <2>4. /\ q.trans = Twice(t, o) /\ q.next = NextTwice(t, o)
        /\ q.wm = t.wm /\ q.status = t.status /\ q.clock = t.clock
    BY <2>1, <2>3 DEF Twice, NextTwice
  <2>5. q \in [{"wm", "trans", "next", "clock", "status"} -> {q[x] : x \in
                  {"wm", "trans", "next", "clock", "status"}}]
    <3>1. q = p \/ q = [p EXCEPT !.trans = [i \in DOMAIN p.trans \cup {o.ref} |->
                                IF i = o.ref THEN p.next ELSE p.trans[i]],
                                 !.next = @ + 1]
      BY DEF State!Translate
    <3>. HIDE DEF q
    <3>. QED
      BY <2>2, <3>1 DEF Reading
  <2>6. u = [q EXCEPT !.clock = @ + 1,
                      !.wm[o.block] = Append(@, [id |-> q.trans[o.id],
                                                 tag |-> q.clock + 1,
                                                 ref |-> q.trans[o.ref],
                                                 gen |-> o.gen])]
    BY <1>0, <1>2, SameOperators DEF State!MakeWmo, Visibly, p, q
  <2>7. [id |-> q.trans[o.id], tag |-> q.clock + 1,
         ref |-> q.trans[o.ref], gen |-> o.gen] = Made(t, o)
    BY <2>4 DEF Made
  <2>8. u = [q EXCEPT !.clock = t.clock + 1,
                      !.wm = [t.wm EXCEPT ![o.block] = Append(@, Made(t, o))]]
    <3>. HIDE DEF q
    <3>. QED
      BY <2>4, <2>5, <2>6, <2>7
  <2>. HIDE DEF q
  <2>9. /\ u.wm = [t.wm EXCEPT ![o.block] = Append(@, Made(t, o))]
        /\ u.trans = Twice(t, o) /\ u.next = NextTwice(t, o)
        /\ u.clock = t.clock + 1 /\ u.status = t.status
    BY <2>4, <2>5, <2>8
  <2>10. u \in Reading
    <3>1. Twice(t, o) \in Trans /\ NextTwice(t, o) \in Id /\ Made(t, o) \in Obj
      BY TwiceTyped
    <3>2. t.wm \in Memory /\ t.clock \in Nat /\ t.status \in BOOLEAN /\ o.block \in Block
      BY DEF Reading, Filed
    <3>3. t.wm[o.block] \in Seq(Obj)
      BY <3>2 DEF Memory
    <3>4. Append(t.wm[o.block], Made(t, o)) \in Seq(Obj)
      BY <3>1, <3>3
    <3>5. u.wm \in Memory
      BY <2>9, <3>2, <3>4 DEF Memory
    <3>6. u = [wm |-> u.wm, trans |-> u.trans, next |-> u.next, clock |-> u.clock,
               status |-> u.status]
      BY <2>5, <2>8
    <3>7. /\ u.trans \in Trans /\ u.next \in Id /\ u.clock \in Nat
          /\ u.status \in BOOLEAN
      BY <2>9, <3>1, <3>2
    <3>. QED
      BY <3>5, <3>6, <3>7 DEF Reading
  <2>. QED
    BY <1>2, <2>9, <2>10
<1>. QED
  BY <1>1, <1>2

-----------------------------------------------------------------------------
(* The objects of the file, one after the other.                           *)

LEMMA ObjectsOneByOne ==
  ASSUME NEW s \in Seq(Filed), NEW b \in Reading
  PROVE  \E h \in [0 .. Len(s) -> Reading] :
           /\ h[0] = b
           /\ \A k \in 1 .. Len(s) : h[k] = State!MakeWmo(h[k - 1], s[k])
           /\ h[Len(s)] = State!FoldLeft(State!MakeWmo, b, s)
<1>. DEFINE n == Len(s)
            F == [x \in Reading \X (1 .. n) |-> State!MakeWmo(x[1], s[x[2]])]
            Loop(f) == f = [t \in SUBSET (1 .. n) |->
                              IF t = {} THEN b ELSE State!MakeWmo(f[t \ {Max(t)}], s[Max(t)])]
            it == CHOOSE f : Loop(f)
            h == [k \in 0 .. n |-> it[1 .. k]]
<1>1. n \in Nat /\ DOMAIN s = 1 .. n /\ \A k \in 1 .. n : s[k] \in Filed
  OBVIOUS
<1>2. State!FoldLeft(State!MakeWmo, b, s) = it[1 .. n]
  <2>1. \A t : State!Max(t) = Max(t)
    BY DEF State!Max, Max
  <2>. QED
    BY <1>1, <2>1 DEF State!FoldLeft, State!MapThenFoldSet
<1>. HIDE DEF n
<1>3. F \in [Reading \X (1 .. n) -> Reading]
  BY <1>1, MakeWmoIs DEF Makes
<1>. HIDE DEF F, it
<1>4. \E f : Loop(f)
  <2>1. PICK f \in [SUBSET (1 .. n) -> Reading] : FoldsBy(f, n, F, b)
    BY <1>1, <1>3, FoldExists
  <2>2. ASSUME NEW t \in SUBSET (1 .. n)
        PROVE  f[t] = IF t = {} THEN b ELSE State!MakeWmo(f[t \ {Max(t)}], s[Max(t)])
    <3>1. CASE t = {}
      BY <3>1, <2>1 DEF FoldsBy
    <3>2. CASE t # {}
      <4>1. f[t] = F[<<f[t \ {Max(t)}], Max(t)>>]
        BY <3>2, <2>1 DEF FoldsBy
      <4>2. Max(t) \in 1 .. n
        BY <1>1, <3>2, LastOfSet
      <4>3. <<f[t \ {Max(t)}], Max(t)>> \in Reading \X (1 .. n)
        BY <2>1, <4>2
      <4>. QED
        BY <3>2, <4>1, <4>3 DEF F
    <3>. QED
      BY <3>1, <3>2
  <2>3. Loop(f)
    BY <2>2
  <2>. QED
    BY <2>3
<1>5. Loop(it)
  BY <1>4 DEF it
<1>6. h[0] = b
  <2>1. 1 .. 0 = {} /\ {} \in SUBSET (1 .. n) /\ 0 \in 0 .. n
    BY <1>1
  <2>. QED
    BY <1>5, <2>1
<1>7. ASSUME NEW k \in 1 .. n PROVE h[k] = State!MakeWmo(h[k - 1], s[k])
  <2>1. /\ Max(1 .. k) = k /\ (1 .. k) \ {k} = 1 .. (k - 1)
        /\ 1 .. k # {} /\ 1 .. k \in SUBSET (1 .. n)
    BY <1>1, LastOfInterval
  <2>3. k \in 0 .. n /\ k - 1 \in 0 .. n
    BY <1>1
  <2>4. it[1 .. k] = State!MakeWmo(it[1 .. (k - 1)], s[k])
    BY <1>5, <2>1
  <2>. QED
    BY <2>3, <2>4
<1>8. h[n] = it[1 .. n]
  BY <1>1
<1>9. h \in [0 .. n -> Reading]
  <2>. HIDE DEF h
  <2>. DEFINE G == {k \in 0 .. n : h[k] \in Reading}
  <2>1. 0 \in G
    BY <1>1, <1>6
  <2>2. ASSUME NEW k \in 1 .. n, k - 1 \in G PROVE k \in G
    <3>1. h[k - 1] \in Reading /\ s[k] \in Filed /\ k \in 0 .. n
      BY <1>1, <2>2
    <3>2. State!MakeWmo(h[k - 1], s[k]) \in Reading
      BY <3>1, MakeWmoIs DEF Makes
    <3>. QED
      BY <1>7, <3>1, <3>2
  <2>. HIDE DEF G
  <2>3. \A k \in 0 .. n : k \in G
    BY <1>1, <2>1, <2>2, Induct
  <2>. QED
    BY <2>3 DEF G, h
<1>. HIDE DEF h
<1>. QED
  BY <1>2, <1>6, <1>7, <1>8, <1>9 DEF n

LEMMA MemoryIs ==
  ASSUME NEW w \in Memory, NEW b \in Block
  PROVE  /\ w[b] \in Seq(Obj) /\ Len(w[b]) \in Nat /\ DOMAIN w[b] = 1 .. Len(w[b])
         /\ \A i \in DOMAIN w[b] :
              /\ w[b][i] \in Obj /\ w[b][i].id \in Nat /\ w[b][i].id # 0
              /\ w[b][i].tag \in Nat /\ w[b][i].ref \in Nat /\ w[b][i].gen \in Nat
<1>1. w[b] \in Seq(Obj)
  BY DEF Memory
<1>2. /\ Len(w[b]) \in Nat /\ DOMAIN w[b] = 1 .. Len(w[b])
      /\ \A i \in DOMAIN w[b] : w[b][i] \in Obj
  BY <1>1
<1>. QED
  BY <1>1, <1>2 DEF Obj, Id

\* How the memory is after an object is put at the end of a list.
Appends(w, b, e, v) ==
  /\ v \in Memory /\ Len(w[b]) \in Nat
  /\ \A c \in Block : \A i \in DOMAIN w[c] : i \in DOMAIN v[c] /\ v[c][i] = w[c][i]
  /\ Len(w[b]) + 1 \in DOMAIN v[b] /\ v[b][Len(w[b]) + 1] = e
  /\ \A c \in Block : \A i \in DOMAIN v[c] :
       i \in DOMAIN w[c] \/ (c = b /\ i = Len(w[b]) + 1)
  /\ \A c \in Block : Len(v[c]) = IF c = b THEN Len(w[c]) + 1 ELSE Len(w[c])

LEMMA Appended ==
  ASSUME NEW w \in Memory, NEW b \in Block, NEW e \in Obj,
         NEW v, v = [w EXCEPT ![b] = Append(@, e)]
  PROVE  Appends(w, b, e, v)
<1>1. w[b] \in Seq(Obj) /\ v[b] = Append(w[b], e) /\ \A c \in Block \ {b} : v[c] = w[c]
  BY DEF Memory
<1>. DEFINE s == Append(w[b], e)
<1>2. /\ s \in Seq(Obj) /\ Len(s) = Len(w[b]) + 1 /\ Len(w[b]) \in Nat
      /\ DOMAIN s = 1 .. Len(w[b]) + 1 /\ DOMAIN w[b] = 1 .. Len(w[b])
      /\ \A i \in DOMAIN w[b] : s[i] = w[b][i]
      /\ s[Len(w[b]) + 1] = e
  BY <1>1
<1>. HIDE DEF s
<1>3. v \in Memory
  BY <1>1, <1>2 DEF s, Memory
<1>4. /\ \A i \in DOMAIN w[b] : i \in DOMAIN s /\ s[i] = w[b][i]
      /\ \A i \in DOMAIN s : i \in DOMAIN w[b] \/ i = Len(w[b]) + 1
      /\ Len(w[b]) + 1 \in DOMAIN s
  BY <1>2
<1>5. v[b] = s
  BY <1>1 DEF s
<1>6. \A c \in Block : c = b \/ v[c] = w[c]
  BY <1>1
<1>7. \A c \in Block : \A i \in DOMAIN w[c] : i \in DOMAIN v[c] /\ v[c][i] = w[c][i]
  BY <1>4, <1>5, <1>6
<1>8. \A c \in Block : \A i \in DOMAIN v[c] :
        i \in DOMAIN w[c] \/ (c = b /\ i = Len(w[b]) + 1)
  BY <1>4, <1>5, <1>6
<1>9. \A c \in Block : Len(v[c]) = IF c = b THEN Len(w[c]) + 1 ELSE Len(w[c])
  BY <1>2, <1>5, <1>6
<1>. QED
  BY <1>2, <1>3, <1>4, <1>5, <1>7, <1>8, <1>9 DEF Appends

\* The objects of a block among the first of the file.
Count(s, k, b) == Cardinality({i \in 1 .. k : s[i].block = b})

LEMMA CountIs ==
  ASSUME NEW s, NEW b
  PROVE  /\ Count(s, 0, b) = 0
         /\ \A k \in Nat : Count(s, k, b) \in Nat
         /\ \A k \in Nat \ {0} : Count(s, k, b) =
              IF s[k].block = b THEN Count(s, k - 1, b) + 1 ELSE Count(s, k - 1, b)
<1>. DEFINE At(k) == {i \in 1 .. k : s[i].block = b}
<1>1. Count(s, 0, b) = 0
  <2>1. At(0) = {}
    OBVIOUS
  <2>. QED
    BY <2>1, FS_EmptySet DEF Count
<1>2. ASSUME NEW k \in Nat PROVE IsFiniteSet(At(k)) /\ Cardinality(At(k)) \in Nat
  <2>1. IsFiniteSet(1 .. k)
    BY FS_Interval
  <2>2. At(k) \in SUBSET (1 .. k)
    OBVIOUS
  <2>. HIDE DEF At
  <2>3. IsFiniteSet(At(k))
    BY <2>1, <2>2, FS_Subset
  <2>. QED
    BY <2>3, FS_CardinalityType
<1>3. ASSUME NEW k \in Nat \ {0}
      PROVE  Cardinality(At(k)) =
               IF s[k].block = b THEN Cardinality(At(k - 1)) + 1 ELSE Cardinality(At(k - 1))
  <2>1. k - 1 \in Nat
    OBVIOUS
  <2>2. IsFiniteSet(At(k - 1))
    BY <1>2, <2>1
  <2>3. CASE s[k].block = b
    <3>1. At(k) = At(k - 1) \cup {k} /\ k \notin At(k - 1)
      BY <2>3
    <3>. HIDE DEF At
    <3>. QED
      BY <2>2, <2>3, <3>1, FS_AddElement
  <2>4. CASE s[k].block # b
    <3>1. At(k) = At(k - 1)
      BY <2>4
    <3>. HIDE DEF At
    <3>. QED
      BY <2>4, <3>1
  <2>. QED
    BY <2>3, <2>4
<1>4. \A k : Count(s, k, b) = Cardinality(At(k))
  BY DEF Count
<1>. HIDE DEF At
<1>5. \A k \in Nat : Count(s, k, b) \in Nat
  BY <1>2, <1>4
<1>6. ASSUME NEW k \in Nat \ {0}
      PROVE  Count(s, k, b) =
               IF s[k].block = b THEN Count(s, k - 1, b) + 1 ELSE Count(s, k - 1, b)
  BY <1>3, <1>4
<1>. QED
  BY <1>1, <1>5, <1>6

\* No id is used twice, and all are below the next one.
IdsApart(w) ==
  \A b, c \in Block : \A i \in DOMAIN w[b], j \in DOMAIN w[c] :
    w[b][i].id = w[c][j].id => b = c /\ i = j
IdsBelow(w, next) == \A b \in Block : \A i \in DOMAIN w[b] : w[b][i].id < next

LEMMA AppendKeepsApart ==
  ASSUME NEW w, IdsApart(w), NEW b \in Block, NEW e, NEW v, Appends(w, b, e, v),
         \A c \in Block : \A i \in DOMAIN w[c] : w[c][i].id # e.id
  PROVE  IdsApart(v)
<1>. SUFFICES ASSUME NEW c \in Block, NEW d \in Block, NEW i \in DOMAIN v[c], NEW j \in DOMAIN v[d],
                     v[c][i].id = v[d][j].id
              PROVE  c = d /\ i = j
  BY DEF IdsApart
<1>. DEFINE p == Len(w[b]) + 1
<1>1. i \in DOMAIN w[c] \/ (c = b /\ i = p)
  BY DEF Appends
<1>2. j \in DOMAIN w[d] \/ (d = b /\ j = p)
  BY DEF Appends
<1>3. /\ i \in DOMAIN w[c] => v[c][i] = w[c][i]
      /\ j \in DOMAIN w[d] => v[d][j] = w[d][j]
      /\ v[b][p] = e
  BY DEF Appends
<1>. HIDE DEF p
<1>4. CASE i \in DOMAIN w[c] /\ j \in DOMAIN w[d]
  BY <1>3, <1>4 DEF IdsApart
<1>5. CASE i \in DOMAIN w[c] /\ d = b /\ j = p
  BY <1>3, <1>5
<1>6. CASE c = b /\ i = p /\ j \in DOMAIN w[d]
  BY <1>3, <1>6
<1>. QED
  BY <1>1, <1>2, <1>4, <1>5, <1>6

\* What is so when the first k objects of s were read into the memory mem, with n0 as
\* the first free id.
Translates(f, o, new) ==
  /\ o.id \in DOMAIN f /\ new.id = f[o.id]
  /\ o.ref \in DOMAIN f /\ new.ref = f[o.ref]
  /\ new.gen = o.gen
ReadAs(o, p, t) ==
  p \in DOMAIN t.wm[o.block] /\ Translates(t.trans, o, t.wm[o.block][p])
Place(s, j, mem) == Len(mem[s[j].block]) + Count(s, j, s[j].block)
OldOrRead(s, k, mem, n0, t) ==
  \A b \in Block : \A i \in DOMAIN t.wm[b] :
    \/ i <= Len(mem[b]) /\ t.wm[b][i].id < n0
    \/ \E j \in 1 .. k : s[j].id \in DOMAIN t.trans /\ t.wm[b][i].id = t.trans[s[j].id]
NumbersRead(s, k, mem, t) ==
  \A b \in Block : \A i \in DOMAIN t.wm[b] :
    i <= Len(mem[b]) \/ \E j \in 1 .. k : t.wm[b][i].gen = s[j].gen
AllRead(s, k, mem, t) ==
  /\ \A b \in Visibly : Len(t.wm[b]) = Len(mem[b]) + Count(s, k, b)
  /\ \A j \in 1 .. k : s[j].block \in Visibly => ReadAs(s[j], Place(s, j, mem), t)
ReadSound(s, k, mem, n0, t) ==
  /\ Fresh(t.trans, n0, t.next)
  /\ IdsApart(t.wm) /\ IdsBelow(t.wm, t.next)
  /\ OldOrRead(s, k, mem, n0, t) /\ NumbersRead(s, k, mem, t)
  /\ AllRead(s, k, mem, t)

LEMMA OneMore == \A x, y \in Nat : (x + y) + 1 = x + (y + 1)
OBVIOUS

LEMMA MakeWmoSound ==
  ASSUME NEW s \in Seq(Filed), \A i, j \in DOMAIN s : s[i].id = s[j].id => i = j,
         NEW mem \in Memory, NEW n0 \in Id, NEW k \in 1 .. Len(s), NEW t \in Reading,
         ReadSound(s, k - 1, mem, n0, t), NEW u, u = State!MakeWmo(t, s[k]),
         Visibly \subseteq Block
  PROVE  ReadSound(s, k, mem, n0, u)
<1>. DEFINE o == s[k]
<1>0. /\ o \in Filed /\ o.block \in Block /\ k \in Nat \ {0} /\ DOMAIN s = 1 .. Len(s)
      /\ k - 1 \in Nat /\ \A j \in 1 .. (k - 1) : j \in 1 .. k /\ j \in DOMAIN s /\ j # k
      /\ \A j \in 1 .. k : j \in 1 .. (k - 1) \/ j = k
  <2>1. Len(s) \in Nat /\ DOMAIN s = 1 .. Len(s) /\ s[k] \in Filed
    OBVIOUS
  <2>2. s[k].block \in Block
    BY <2>1 DEF Filed
  <2>. QED
    BY <2>1, <2>2
<1>. HIDE DEF o
<1>1. u = State!MakeWmo(t, o)
  BY DEF o
<1>2. CASE o.block \notin Visibly
  <2>1. u.wm = t.wm /\ u.trans = t.trans /\ u.next = t.next /\ u.status = FALSE
    <3>1. o \in Filed
      BY <1>0
    <3>2. Makes(t, o, u)
      BY <3>1, <1>1, MakeWmoIs
    <3>. QED
      BY <3>2, <1>2 DEF Makes
  <2>2. OldOrRead(s, k, mem, n0, u)
    BY <1>0, <2>1 DEF ReadSound, OldOrRead
  <2>3. NumbersRead(s, k, mem, u)
    BY <1>0, <2>1 DEF ReadSound, NumbersRead
  <2>4. AllRead(s, k, mem, u)
    <3>1. AllRead(s, k - 1, mem, t)
      BY DEF ReadSound
    <3>2. \A b \in Visibly : Count(s, k, b) = Count(s, k - 1, b)
      BY <1>0, <1>2, CountIs DEF o
    <3>3. \A b \in Visibly : Len(u.wm[b]) = Len(mem[b]) + Count(s, k, b)
      BY <2>1, <3>1, <3>2 DEF AllRead
    <3>4. \A j \in 1 .. k : s[j].block \in Visibly => ReadAs(s[j], Place(s, j, mem), u)
      BY <1>0, <1>2, <2>1, <3>1 DEF AllRead, ReadAs, o
    <3>. QED
      BY <3>3, <3>4 DEF AllRead
  <2>. QED
    BY <2>1, <2>2, <2>3, <2>4 DEF ReadSound
<1>3. CASE o.block \in Visibly
  <2>. DEFINE e == Made(t, o)
              p == Len(t.wm[o.block]) + 1
  <2>1. /\ u.wm = [t.wm EXCEPT ![o.block] = Append(@, e)]
        /\ u.trans = Twice(t, o) /\ u.next = NextTwice(t, o) /\ u.status = t.status
    <3>1. o \in Filed
      BY <1>0
    <3>2. Makes(t, o, u)
      BY <3>1, <1>1, MakeWmoIs
    <3>. QED
      BY <3>2, <1>3 DEF Makes
  <2>2. /\ u.trans \in Trans /\ u.next \in Id
        /\ DOMAIN t.trans \subseteq DOMAIN u.trans /\ t.next <= u.next
        /\ \A i \in DOMAIN t.trans : u.trans[i] = t.trans[i]
        /\ o.id \in DOMAIN u.trans
        /\ o.ref \in DOMAIN u.trans
        /\ o.id \notin DOMAIN t.trans => u.trans[o.id] = t.next
        /\ e \in Obj
    BY <1>0, <2>1, TwiceTyped
  <2>3. /\ t.wm \in Memory /\ t.trans \in Trans /\ t.next \in Id
        /\ Fresh(t.trans, n0, t.next) /\ IdsApart(t.wm) /\ IdsBelow(t.wm, t.next)
        /\ OldOrRead(s, k - 1, mem, n0, t) /\ NumbersRead(s, k - 1, mem, t)
        /\ AllRead(s, k - 1, mem, t)
    BY DEF Reading, ReadSound
  <2>4. Appends(t.wm, o.block, e, u.wm)
    BY <1>0, <2>1, <2>2, <2>3, Appended
  <2>5. Translates(u.trans, o, e)
    BY <2>1, <2>2 DEF Made, Translates
  <2>. HIDE DEF e
  <2>6. Fresh(u.trans, n0, u.next)
    <3>1. o.id \in Nat /\ o.ref \in Nat
      BY <1>0 DEF Filed, Id
    <3>2. Fresh(Longer(t.trans, t.next, o.id), n0, After(t.trans, t.next, o.id))
      BY <2>3, <3>1, StaysFresh
    <3>3. Fresh(Twice(t, o), n0, NextTwice(t, o))
      BY <3>1, <3>2, StaysFresh DEF Twice, NextTwice
    <3>. QED
      BY <2>1, <3>3
  <2>7. e.id \in Nat /\ e.id < u.next /\ n0 <= e.id /\ n0 \in Nat
    <3>1. u.trans \in [DOMAIN u.trans -> Id]
      BY <2>2, TransIs
    <3>. QED
      BY <2>2, <2>5, <2>6, <3>1 DEF Translates, Fresh, Id
  <2>8. \A b \in Block : \A i \in DOMAIN t.wm[b] :
          t.wm[b][i].id \in Nat /\ t.wm[b][i].gen \in Nat
    BY <2>3, MemoryIs
  <2>9. \A b \in Block : \A i \in DOMAIN t.wm[b] : t.wm[b][i].id # e.id
    <3>. SUFFICES ASSUME NEW b \in Block, NEW i \in DOMAIN t.wm[b], t.wm[b][i].id = e.id
                  PROVE  FALSE
      OBVIOUS
    <3>1. ~(t.wm[b][i].id < n0)
      BY <2>7, <2>8
    <3>2. PICK j \in 1 .. (k - 1) :
            s[j].id \in DOMAIN t.trans /\ t.wm[b][i].id = t.trans[s[j].id]
      BY <2>3, <3>1 DEF OldOrRead
    <3>3. u.trans[s[j].id] = u.trans[o.id] /\ s[j].id \in DOMAIN u.trans
      BY <2>2, <2>5, <3>2 DEF Translates
    <3>4. s[j].id = o.id
      BY <2>2, <2>6, <3>3 DEF Fresh
    <3>5. j = k /\ j # k
      BY <1>0, <3>4 DEF o
    <3>. QED
      BY <3>5
  <2>10. IdsApart(u.wm)
    BY <1>0, <2>3, <2>4, <2>9, AppendKeepsApart
  <2>11. \A b \in Block : \A i \in DOMAIN u.wm[b] :
           \/ i \in DOMAIN t.wm[b] /\ u.wm[b][i] = t.wm[b][i]
           \/ b = o.block /\ i = p /\ u.wm[b][i] = e
    BY <2>4 DEF Appends
  <2>. HIDE DEF p
  <2>12. IdsBelow(u.wm, u.next)
    <3>. SUFFICES ASSUME NEW b \in Block, NEW i \in DOMAIN u.wm[b]
                  PROVE  u.wm[b][i].id < u.next
      BY DEF IdsBelow
    <3>1. CASE i \in DOMAIN t.wm[b] /\ u.wm[b][i] = t.wm[b][i]
      <4>1. t.wm[b][i].id < t.next /\ t.wm[b][i].id \in Nat
        BY <2>3, <2>8, <3>1 DEF IdsBelow
      <4>. QED
        BY <2>2, <2>3, <3>1, <4>1 DEF Id
    <3>2. CASE u.wm[b][i] = e
      BY <2>7, <3>2
    <3>. QED
      BY <2>11, <3>1, <3>2
  <2>13. OldOrRead(s, k, mem, n0, u)
    <3>. SUFFICES ASSUME NEW b \in Block, NEW i \in DOMAIN u.wm[b],
                         ~(i <= Len(mem[b]) /\ u.wm[b][i].id < n0)
                  PROVE  \E j \in 1 .. k : /\ s[j].id \in DOMAIN u.trans
                                           /\ u.wm[b][i].id = u.trans[s[j].id]
      BY DEF OldOrRead
    <3>1. CASE i \in DOMAIN t.wm[b] /\ u.wm[b][i] = t.wm[b][i]
      <4>1. PICK j \in 1 .. (k - 1) :
              s[j].id \in DOMAIN t.trans /\ t.wm[b][i].id = t.trans[s[j].id]
        BY <2>3, <3>1 DEF OldOrRead
      <4>2. j \in 1 .. k /\ s[j].id \in DOMAIN u.trans /\ u.wm[b][i].id = u.trans[s[j].id]
        BY <1>0, <2>2, <3>1, <4>1
      <4>. QED
        BY <4>2
    <3>2. CASE u.wm[b][i] = e
      <4>1. k \in 1 .. k
        BY <1>0
      <4>2. s[k].id \in DOMAIN u.trans /\ u.wm[b][i].id = u.trans[s[k].id]
        BY <2>5, <3>2 DEF Translates, o
      <4>. QED
        BY <4>1, <4>2
    <3>. QED
      BY <2>11, <3>1, <3>2
  <2>14. NumbersRead(s, k, mem, u)
    <3>. SUFFICES ASSUME NEW b \in Block, NEW i \in DOMAIN u.wm[b], ~(i <= Len(mem[b]))
                  PROVE  \E j \in 1 .. k : u.wm[b][i].gen = s[j].gen
      BY DEF NumbersRead
    <3>1. CASE i \in DOMAIN t.wm[b] /\ u.wm[b][i] = t.wm[b][i]
      <4>1. PICK j \in 1 .. (k - 1) : t.wm[b][i].gen = s[j].gen
        BY <2>3, <3>1 DEF NumbersRead
      <4>. QED
        BY <1>0, <3>1, <4>1
    <3>2. CASE u.wm[b][i] = e
      <4>1. k \in 1 .. k /\ u.wm[b][i].gen = s[k].gen
        BY <1>0, <2>5, <3>2 DEF Translates, o
      <4>. QED
        BY <4>1
    <3>. QED
      BY <2>11, <3>1, <3>2
  <2>15. AllRead(s, k, mem, u)
    <3>1. /\ \A b \in Visibly : Len(t.wm[b]) = Len(mem[b]) + Count(s, k - 1, b)
          /\ \A j \in 1 .. (k - 1) :
               s[j].block \in Visibly => ReadAs(s[j], Place(s, j, mem), t)
      BY <2>3 DEF AllRead
    <3>2. \A b \in Block : Len(mem[b]) \in Nat
      BY MemoryIs
    <3>3. ASSUME NEW b \in Visibly PROVE Len(u.wm[b]) = Len(mem[b]) + Count(s, k, b)
      <4>1. Count(s, k - 1, b) \in Nat
        BY <1>0, CountIs
      <4>2. Count(s, k, b) = IF o.block = b THEN Count(s, k - 1, b) + 1 ELSE Count(s, k - 1, b)
        BY <1>0, CountIs DEF o
      <4>3. Len(u.wm[b]) = IF b = o.block THEN Len(t.wm[b]) + 1 ELSE Len(t.wm[b])
        BY <2>4 DEF Appends
      <4>4. Len(t.wm[b]) = Len(mem[b]) + Count(s, k - 1, b) /\ Len(mem[b]) \in Nat
        BY <3>1, <3>2
      <4>5. CASE b = o.block
        <5>1. Len(u.wm[b]) = (Len(mem[b]) + Count(s, k - 1, b)) + 1
          BY <4>3, <4>4, <4>5
        <5>2. Count(s, k, b) = Count(s, k - 1, b) + 1
          BY <4>2, <4>5
        <5>. QED
          BY <4>1, <4>4, <5>1, <5>2, OneMore
      <4>6. CASE b # o.block
        BY <4>1, <4>2, <4>3, <4>4, <4>6
      <4>. QED
        BY <4>5, <4>6
    <3>4. ASSUME NEW j \in 1 .. (k - 1), s[j].block \in Visibly
          PROVE  ReadAs(s[j], Place(s, j, mem), u)
      <4>. DEFINE q == Place(s, j, mem)
                  b == s[j].block
      <4>0. s[j] \in Filed
        BY <1>0
      <4>1. s[j] \in Filed /\ b \in Block
        BY <4>0 DEF Filed
      <4>2. q \in DOMAIN t.wm[b] /\ Translates(t.trans, s[j], t.wm[b][q])
        BY <3>1, <3>4 DEF ReadAs
      <4>. HIDE DEF q
      <4>3. q \in DOMAIN u.wm[b] /\ u.wm[b][q] = t.wm[b][q]
        BY <2>4, <4>1, <4>2 DEF Appends
      <4>4. Translates(u.trans, s[j], u.wm[b][q])
        BY <2>2, <4>2, <4>3 DEF Translates
      <4>. QED
        BY <4>2, <4>3, <4>4 DEF ReadAs, q
    <3>5. ReadAs(s[k], Place(s, k, mem), u)
      <4>1. Count(s, k, o.block) = Count(s, k - 1, o.block) + 1
        BY <1>0, CountIs DEF o
      <4>2. Count(s, k - 1, o.block) \in Nat
        BY <1>0, CountIs
      <4>3. Place(s, k, mem) = Len(mem[o.block]) + Count(s, k, o.block)
        BY DEF Place, o
      <4>6. /\ Len(t.wm[o.block]) = Len(mem[o.block]) + Count(s, k - 1, o.block)
            /\ Len(mem[o.block]) \in Nat
        BY <1>0, <1>3, <3>1, <3>2
      <4>4. Place(s, k, mem) = Len(t.wm[o.block]) + 1
        BY <4>1, <4>2, <4>3, <4>6, OneMore
      <4>5. Place(s, k, mem) \in DOMAIN u.wm[o.block] /\ u.wm[o.block][Place(s, k, mem)] = e
        BY <2>4, <4>4 DEF Appends
      <4>. QED
        BY <2>5, <4>5 DEF ReadAs, o
    <3>6. \A j \in 1 .. k : s[j].block \in Visibly => ReadAs(s[j], Place(s, j, mem), u)
      BY <1>0, <3>4, <3>5
    <3>. QED
      BY <3>3, <3>6 DEF AllRead
  <2>. QED
    BY <2>6, <2>10, <2>12, <2>13, <2>14, <2>15 DEF ReadSound
<1>. QED
  BY <1>2, <1>3

Begun(mem) == [wm |-> mem, trans |-> << >>, next |-> nextId, clock |-> clock, status |-> TRUE]

LEMMA BegunSound ==
  ASSUME nextId \in Id, clock \in Nat, NEW s \in Seq(Filed),
         NEW mem \in Memory, IdsApart(mem), IdsBelow(mem, nextId), Visibly \subseteq Block
  PROVE  Begun(mem) \in Reading /\ ReadSound(s, 0, mem, nextId, Begun(mem))
<1>. DEFINE t == Begun(mem)
<1>1. DOMAIN << >> = {} /\ << >> \in [{} -> Id]
  OBVIOUS
<1>2. << >> \in Trans
  BY <1>1, TransIs
<1>3. /\ t.wm = mem /\ t.trans = << >> /\ t.next = nextId /\ t.status = TRUE
      /\ t \in Reading
  BY <1>2 DEF Begun, Reading
<1>. HIDE DEF t
<1>4. Fresh(t.trans, nextId, t.next)
  BY <1>1, <1>2, <1>3 DEF Fresh, Id
<1>5. OldOrRead(s, 0, mem, nextId, t)
  BY <1>3, MemoryIs DEF OldOrRead, IdsBelow
<1>6. NumbersRead(s, 0, mem, t)
  BY <1>3, MemoryIs DEF NumbersRead
<1>7. AllRead(s, 0, mem, t)
  <2>1. \A b \in Block : Count(s, 0, b) = 0 /\ Len(mem[b]) \in Nat
    BY MemoryIs, CountIs
  <2>2. 1 .. 0 = {}
    OBVIOUS
  <2>. QED
    BY <1>3, <2>1, <2>2 DEF AllRead
<1>8. ReadSound(s, 0, mem, nextId, t)
  BY <1>3, <1>4, <1>5, <1>6, <1>7 DEF ReadSound
<1>. QED
  BY <1>3, <1>8 DEF t

\* What RESTORESTATE and ADDSTATE have read when they come to the entries.
LEMMA ReadObjectsSound ==
  ASSUME nextId \in Id, clock \in Nat, file.objs \in Seq(Filed),
         \A i, j \in DOMAIN file.objs : file.objs[i].id = file.objs[j].id => i = j,
         NEW mem \in Memory, IdsApart(mem), IdsBelow(mem, nextId), Visibly \subseteq Block
  PROVE  /\ State!ReadObjects(mem) \in Reading
         /\ ReadSound(file.objs, Len(file.objs), mem, nextId, State!ReadObjects(mem))
<1>1. PICK s : s = file.objs
  OBVIOUS
<1>2. /\ s \in Seq(Filed) /\ \A i, j \in DOMAIN s : s[i].id = s[j].id => i = j
  BY <1>1
<1>3. PICK n0 \in Id : n0 = nextId
  OBVIOUS
<1>4. Begun(mem) \in Reading /\ ReadSound(s, 0, mem, n0, Begun(mem))
  BY <1>2, <1>3, BegunSound
<1>5. PICK h \in [0 .. Len(s) -> Reading] :
        /\ h[0] = Begun(mem)
        /\ \A k \in 1 .. Len(s) : h[k] = State!MakeWmo(h[k - 1], s[k])
        /\ h[Len(s)] = State!FoldLeft(State!MakeWmo, Begun(mem), s)
  BY <1>2, <1>4, ObjectsOneByOne
<1>. DEFINE G == {k \in 0 .. Len(s) : ReadSound(s, k, mem, n0, h[k])}
<1>6. Len(s) \in Nat
  BY <1>2
<1>7. 0 \in G
  BY <1>4, <1>5, <1>6
<1>8. ASSUME NEW k \in 1 .. Len(s), k - 1 \in G PROVE k \in G
  <2>1. ReadSound(s, k - 1, mem, n0, h[k - 1]) /\ h[k - 1] \in Reading /\ k \in 0 .. Len(s)
    BY <1>5, <1>6, <1>8
  <2>2. ReadSound(s, k, mem, n0, h[k])
    BY <1>2, <1>5, <2>1, MakeWmoSound
  <2>. QED
    BY <2>1, <2>2
<1>. HIDE DEF G
<1>9. Len(s) \in G
  <2>1. \A k \in 0 .. Len(s) : k \in G
    BY <1>6, <1>7, <1>8, Induct
  <2>. QED
    BY <1>6, <2>1
<1>10. State!ReadObjects(mem) = h[Len(s)]
  BY <1>1, <1>5 DEF State!ReadObjects, Begun
<1>. QED
  BY <1>1, <1>3, <1>5, <1>6, <1>9, <1>10 DEF G

-----------------------------------------------------------------------------
(* One entry of the file.                                                  *)

Tag(w, id) == State!TagOf([wm |-> w], id)

LEMMA TagIs ==
  ASSUME NEW w \in Memory, NEW id
  PROVE  /\ Tag(w, id) \in Nat
         /\ IdsApart(w) => \A b \in Block : \A i \in DOMAIN w[b] :
                             w[b][i].id = id => Tag(w, id) = w[b][i].tag
<1>. DEFINE all == UNION {Range(w[b]) : b \in Block}
            named == {o \in all : o.id = id}
<1>1. Tag(w, id) = IF named = {} THEN 0 ELSE (CHOOSE o \in named : TRUE).tag
  BY DEF Tag, State!TagOf, State!Range, Range
<1>2. \A o : o \in all <=> \E b \in Block : \E i \in DOMAIN w[b] : o = w[b][i]
  BY DEF Range
<1>. HIDE DEF all
<1>3. \A o \in named : o.tag \in Nat
  BY <1>2, MemoryIs
<1>4. Tag(w, id) \in Nat
  BY <1>1, <1>3
<1>5. ASSUME IdsApart(w), NEW b \in Block, NEW i \in DOMAIN w[b], w[b][i].id = id
      PROVE  Tag(w, id) = w[b][i].tag
  <2>1. named = {w[b][i]}
    BY <1>2, <1>5 DEF IdsApart
  <2>. HIDE DEF named
  <2>. QED
    BY <1>1, <2>1
<1>. QED
  BY <1>4, <1>5

Marked(x, f, w) == [rule |-> x.rule, id |-> f[x.id], tag |-> Tag(w, f[x.id])]
ReadsOn(t, x, u) ==
  /\ u \in ReadingOn /\ u.wm = t.wm
  /\ (~t.status \/ x.rule \notin Rules[eb]) =>
       u.trans = t.trans /\ u.next = t.next /\ u.refset = t.refset /\ u.status = FALSE
  /\ (t.status /\ x.rule \in Rules[eb]) =>
       /\ u.trans = Longer(t.trans, t.next, x.id) /\ u.next = After(t.trans, t.next, x.id)
       /\ u.status = TRUE
       /\ u.refset = t.refset \cup {Marked(x, u.trans, t.wm)}

LEMMA ReadEntryIs ==
  ASSUME NEW t \in ReadingOn, NEW x \in Listed
  PROVE  ReadsOn(t, x, State!ReadEntry(t, x))
<1>. DEFINE u == State!ReadEntry(t, x)
<1>0. u = State!ReadEntry(t, x)
  OBVIOUS
<1>. HIDE DEF u
<1>. SUFFICES ReadsOn(t, x, u)
  BY <1>0
<1>1. t.status \in BOOLEAN
  BY DEF ReadingOn
<1>2. CASE ~t.status
  <2>1. u = t
    BY <1>0, <1>2 DEF State!ReadEntry
  <2>. QED
    BY <1>1, <1>2, <2>1 DEF ReadsOn
<1>3. CASE t.status /\ x.rule \notin Rules[eb]
  <2>1. u = [t EXCEPT !.status = FALSE]
    BY <1>0, <1>3 DEF State!ReadEntry
  <2>. QED
    BY <1>3, <2>1 DEF ReadsOn, ReadingOn
<1>4. CASE t.status /\ x.rule \in Rules[eb]
  <2>. DEFINE p == State!Translate(t, x.id)
  <2>1. /\ p.trans = Longer(t.trans, t.next, x.id)
        /\ p.next = After(t.trans, t.next, x.id)
        /\ p.wm = t.wm /\ p.status = t.status /\ p.refset = t.refset
    BY TranslateIs
  <2>2. /\ t.trans \in Trans /\ t.next \in Id /\ t.wm \in Memory
        /\ t.refset \subseteq Refraction
    BY DEF ReadingOn
  <2>3. x.id \in Id /\ x.id \in Nat /\ x.id # 0 /\ x.rule \in Rule
    BY DEF Listed, Id
  <2>4. Lengthens(t.trans, t.next, x.id, p.trans, p.next)
    BY <2>1, <2>2, <2>3, TransTyped
  <2>5. p \in ReadingOn
    <3>1. p = t \/ p = [t EXCEPT !.trans = [i \in DOMAIN t.trans \cup {x.id} |->
                              IF i = x.id THEN t.next ELSE t.trans[i]],
                                 !.next = @ + 1]
      BY DEF State!Translate
    <3>. HIDE DEF p
    <3>2. p = t \/ p = [t EXCEPT !.trans = p.trans, !.next = p.next]
      BY <3>1 DEF ReadingOn
    <3>. QED
      BY <2>4, <3>2 DEF ReadingOn, Lengthens
  <2>6. x.id \in DOMAIN p.trans /\ p.trans[x.id] \in Id
    <3>1. x.id \in DOMAIN p.trans /\ p.trans \in Trans
      BY <2>3, <2>4 DEF Lengthens
    <3>2. p.trans \in [DOMAIN p.trans -> Id]
      BY <3>1, TransIs
    <3>. QED
      BY <3>1, <3>2
  <2>7. State!TagOf(p, p.trans[x.id]) = Tag(p.wm, p.trans[x.id])
    BY DEF Tag, State!TagOf
  <2>8. u = [p EXCEPT !.refset = @ \cup {[rule |-> x.rule, id |-> p.trans[x.id],
                                          tag |-> State!TagOf(p, p.trans[x.id])]}]
    BY <1>0, <1>4 DEF State!ReadEntry
  <2>. HIDE DEF p
  <2>9. u = [p EXCEPT !.refset = @ \cup {Marked(x, p.trans, t.wm)}]
    BY <2>1, <2>7, <2>8 DEF Marked
  <2>10. Marked(x, p.trans, t.wm) \in Refraction
    BY <2>2, <2>3, <2>6, TagIs DEF Marked, Refraction
  <2>. QED
    BY <1>4, <2>1, <2>5, <2>9, <2>10 DEF ReadsOn, ReadingOn
<1>. QED
  BY <1>1, <1>2, <1>3, <1>4

-----------------------------------------------------------------------------
(* The entries of the file, one after the other.                           *)

LEMMA EntriesOneByOne ==
  ASSUME NEW s \in Seq(Listed), NEW b \in ReadingOn
  PROVE  \E h \in [0 .. Len(s) -> ReadingOn] :
           /\ h[0] = b
           /\ \A k \in 1 .. Len(s) : h[k] = State!ReadEntry(h[k - 1], s[k])
           /\ h[Len(s)] = State!FoldLeft(State!ReadEntry, b, s)
<1>. DEFINE n == Len(s)
            F == [x \in ReadingOn \X (1 .. n) |-> State!ReadEntry(x[1], s[x[2]])]
            Loop(f) == f = [t \in SUBSET (1 .. n) |->
                              IF t = {} THEN b ELSE State!ReadEntry(f[t \ {Max(t)}], s[Max(t)])]
            it == CHOOSE f : Loop(f)
            h == [k \in 0 .. n |-> it[1 .. k]]
<1>1. n \in Nat /\ DOMAIN s = 1 .. n /\ \A k \in 1 .. n : s[k] \in Listed
  OBVIOUS
<1>2. State!FoldLeft(State!ReadEntry, b, s) = it[1 .. n]
  <2>1. \A t : State!Max(t) = Max(t)
    BY DEF State!Max, Max
  <2>. QED
    BY <1>1, <2>1 DEF State!FoldLeft, State!MapThenFoldSet
<1>. HIDE DEF n
<1>3. F \in [ReadingOn \X (1 .. n) -> ReadingOn]
  BY <1>1, ReadEntryIs DEF ReadsOn
<1>. HIDE DEF F, it
<1>4. \E f : Loop(f)
  <2>1. PICK f \in [SUBSET (1 .. n) -> ReadingOn] : FoldsBy(f, n, F, b)
    BY <1>1, <1>3, FoldExists
  <2>2. ASSUME NEW t \in SUBSET (1 .. n)
        PROVE  f[t] = IF t = {} THEN b ELSE State!ReadEntry(f[t \ {Max(t)}], s[Max(t)])
    <3>1. CASE t = {}
      BY <3>1, <2>1 DEF FoldsBy
    <3>2. CASE t # {}
      <4>1. f[t] = F[<<f[t \ {Max(t)}], Max(t)>>]
        BY <3>2, <2>1 DEF FoldsBy
      <4>2. Max(t) \in 1 .. n
        BY <1>1, <3>2, LastOfSet
      <4>3. <<f[t \ {Max(t)}], Max(t)>> \in ReadingOn \X (1 .. n)
        BY <2>1, <4>2
      <4>. QED
        BY <3>2, <4>1, <4>3 DEF F
    <3>. QED
      BY <3>1, <3>2
  <2>3. Loop(f)
    BY <2>2
  <2>. QED
    BY <2>3
<1>5. Loop(it)
  BY <1>4 DEF it
<1>6. h[0] = b
  <2>1. 1 .. 0 = {} /\ {} \in SUBSET (1 .. n) /\ 0 \in 0 .. n
    BY <1>1
  <2>. QED
    BY <1>5, <2>1
<1>7. ASSUME NEW k \in 1 .. n PROVE h[k] = State!ReadEntry(h[k - 1], s[k])
  <2>1. /\ Max(1 .. k) = k /\ (1 .. k) \ {k} = 1 .. (k - 1)
        /\ 1 .. k # {} /\ 1 .. k \in SUBSET (1 .. n)
    BY <1>1, LastOfInterval
  <2>2. k \in 0 .. n /\ k - 1 \in 0 .. n
    BY <1>1
  <2>3. it[1 .. k] = State!ReadEntry(it[1 .. (k - 1)], s[k])
    BY <1>5, <2>1
  <2>. QED
    BY <2>2, <2>3
<1>8. h[n] = it[1 .. n]
  BY <1>1
<1>9. h \in [0 .. n -> ReadingOn]
  <2>. HIDE DEF h
  <2>. DEFINE G == {k \in 0 .. n : h[k] \in ReadingOn}
  <2>1. 0 \in G
    BY <1>1, <1>6
  <2>2. ASSUME NEW k \in 1 .. n, k - 1 \in G PROVE k \in G
    <3>1. h[k - 1] \in ReadingOn /\ s[k] \in Listed /\ k \in 0 .. n
      BY <1>1, <2>2
    <3>2. State!ReadEntry(h[k - 1], s[k]) \in ReadingOn
      BY <3>1, ReadEntryIs DEF ReadsOn
    <3>. QED
      BY <1>7, <3>1, <3>2
  <2>. HIDE DEF G
  <2>3. \A k \in 0 .. n : k \in G
    BY <1>1, <2>1, <2>2, Induct
  <2>. QED
    BY <2>3 DEF G, h
<1>. HIDE DEF h
<1>. QED
  BY <1>2, <1>6, <1>7, <1>8, <1>9 DEF n

\* What is so when the first k entries of s were read after the objects, r.
Known(s, k) == {i \in 1 .. k : \A j \in 1 .. i : s[j].rule \in Rules[eb]}
EntrySound(s, k, n0, r, u) ==
  /\ u.wm = r.wm
  /\ Fresh(u.trans, n0, u.next) /\ r.next <= u.next
  /\ \A i \in DOMAIN r.trans : i \in DOMAIN u.trans /\ u.trans[i] = r.trans[i]
  /\ IsFiniteSet(u.refset) /\ \A x \in u.refset : x.id < u.next
  /\ u.status <=> \A i \in 1 .. k : s[i].rule \in Rules[eb]
  /\ \A i \in Known(s, k) : /\ s[i].id \in DOMAIN u.trans
                            /\ Marked(s[i], u.trans, u.wm) \in u.refset
  /\ \A x \in u.refset : \E i \in Known(s, k) : x = Marked(s[i], u.trans, u.wm)

LEMMA KnownIs ==
  ASSUME NEW s, NEW k \in Nat \ {0}
  PROVE  Known(s, k) = IF \A i \in 1 .. k : s[i].rule \in Rules[eb] THEN Known(s, k - 1) \cup {k}
                       ELSE Known(s, k - 1)
<1>1. \A i : i \in 1 .. k <=> i \in 1 .. (k - 1) \/ i = k
  OBVIOUS
<1>. QED
  BY <1>1 DEF Known

LEMMA ReadEntrySound ==
  ASSUME NEW s \in Seq(Listed), NEW n0 \in Id, NEW r \in Reading, NEW k \in 1 .. Len(s),
         NEW t \in ReadingOn, EntrySound(s, k - 1, n0, r, t),
         NEW u, u = State!ReadEntry(t, s[k])
  PROVE  EntrySound(s, k, n0, r, u)
<1>1. s[k] \in Listed /\ k \in Nat \ {0} /\ \A i \in 1 .. k : i \in 1 .. (k - 1) \/ i = k
  <2>1. s[k] \in Listed /\ Len(s) \in Nat
    OBVIOUS
  <2>. QED
    BY <2>1
<1>. DEFINE x == s[k]
<1>2. ReadsOn(t, x, u)
  BY <1>1, ReadEntryIs
<1>3. CASE ~t.status \/ x.rule \notin Rules[eb]
  <2>1. /\ u.wm = t.wm /\ u.trans = t.trans /\ u.next = t.next /\ u.refset = t.refset
        /\ u.status = FALSE
    BY <1>2, <1>3 DEF ReadsOn
  <2>2. ~(\A i \in 1 .. k : s[i].rule \in Rules[eb])
    <3>1. k \in 1 .. k /\ \A i \in 1 .. (k - 1) : i \in 1 .. k
      BY <1>1
    <3>. QED
      BY <1>3, <3>1 DEF EntrySound
  <2>3. Known(s, k) = Known(s, k - 1)
    BY <1>1, <2>2, KnownIs
  <2>. QED
    BY <2>1, <2>2, <2>3 DEF EntrySound
<1>4. CASE t.status /\ x.rule \in Rules[eb]
  <2>1. x.id \in Nat /\ x.id # 0 /\ x.id \in Id
    BY <1>1 DEF Listed, Id
  <2>. HIDE DEF x
  <2>2. /\ u.wm = t.wm /\ u.trans = Longer(t.trans, t.next, x.id)
        /\ u.next = After(t.trans, t.next, x.id) /\ u.status = TRUE
        /\ u.refset = t.refset \cup {Marked(x, u.trans, t.wm)}
    BY <1>2, <1>4 DEF ReadsOn
  <2>3. Fresh(t.trans, n0, t.next) /\ t.trans \in Trans /\ t.next \in Id
    BY DEF EntrySound, ReadingOn
  <2>4. Fresh(u.trans, n0, u.next)
    BY <2>1, <2>2, <2>3, StaysFresh
  <2>5. Lengthens(t.trans, t.next, x.id, u.trans, u.next)
    BY <2>1, <2>2, <2>3, TransTyped
  <2>6. /\ x.id \in DOMAIN u.trans /\ t.next <= u.next /\ u.next \in Id
        /\ \A i \in DOMAIN t.trans : i \in DOMAIN u.trans /\ u.trans[i] = t.trans[i]
    BY <2>1, <2>5 DEF Lengthens
  <2>7. r.next <= u.next
    BY <2>3, <2>6 DEF EntrySound, Reading, Id
  <2>8. \A i \in DOMAIN r.trans : i \in DOMAIN u.trans /\ u.trans[i] = r.trans[i]
    BY <2>6 DEF EntrySound
  <2>9. IsFiniteSet(u.refset)
    <3>1. IsFiniteSet(t.refset)
      BY DEF EntrySound
    <3>2. IsFiniteSet(t.refset \cup {Marked(x, u.trans, t.wm)})
      BY <3>1, FS_AddElement
    <3>. QED
      BY <2>2, <3>2
  <2>10. \A y \in u.refset : y.id < u.next
    <3>1. Marked(x, u.trans, t.wm).id = u.trans[x.id]
      BY DEF Marked
    <3>2. u.trans[x.id] < u.next
      BY <2>4, <2>6 DEF Fresh
    <3>3. \A y \in t.refset : y.id \in Nat /\ y.id < t.next
      BY DEF EntrySound, ReadingOn, Refraction, Id
    <3>4. \A y \in t.refset : y.id < u.next
      BY <2>3, <2>6, <3>3 DEF Id
    <3>. QED
      BY <2>2, <3>1, <3>2, <3>4
  <2>11. \A i \in 1 .. k : s[i].rule \in Rules[eb]
    BY <1>1, <1>4 DEF EntrySound, x
  <2>12. Known(s, k) = Known(s, k - 1) \cup {k}
    BY <1>1, <2>11, KnownIs
  <2>13. \A i \in Known(s, k - 1) : /\ s[i].id \in DOMAIN t.trans
                                   /\ Marked(s[i], t.trans, t.wm) \in t.refset
                                   /\ Marked(s[i], u.trans, u.wm) = Marked(s[i], t.trans, t.wm)
    BY <2>2, <2>6 DEF EntrySound, Marked
  <2>14. \A i \in Known(s, k) : /\ s[i].id \in DOMAIN u.trans
                                /\ Marked(s[i], u.trans, u.wm) \in u.refset
    BY <2>2, <2>6, <2>12, <2>13 DEF x
  <2>15. ASSUME NEW y \in u.refset PROVE \E i \in Known(s, k) : y = Marked(s[i], u.trans, u.wm)
    <3>1. CASE y \in t.refset
      <4>1. PICK i \in Known(s, k - 1) : y = Marked(s[i], t.trans, t.wm)
        BY <3>1 DEF EntrySound
      <4>. QED
        BY <2>12, <2>13, <4>1
    <3>2. CASE y = Marked(x, u.trans, t.wm)
      BY <2>2, <2>12, <3>2 DEF x
    <3>. QED
      BY <2>2, <3>1, <3>2
  <2>16. u.status <=> \A i \in 1 .. k : s[i].rule \in Rules[eb]
    BY <2>2, <2>11
  <2>17. u.wm = r.wm
    BY <2>2 DEF EntrySound
  <2>. QED
    BY <2>4, <2>7, <2>8, <2>9, <2>10, <2>14, <2>15, <2>16, <2>17 DEF EntrySound
<1>. QED
  BY <1>3, <1>4

\* What RESTORESTATE has read when it is done.
LEMMA ReadEntriesSound ==
  ASSUME file.refs \in Seq(Listed), NEW n0 \in Id, NEW r \in Reading, Fresh(r.trans, n0, r.next)
  PROVE  /\ State!ReadEntries(r) \in ReadingOn
         /\ EntrySound(file.refs, Len(file.refs), n0, r, State!ReadEntries(r))
<1>1. PICK s : s = file.refs
  OBVIOUS
<1>. DEFINE t0 == [wm |-> r.wm, trans |-> r.trans, next |-> r.next, refset |-> {}, status |-> TRUE]
<1>2. s \in Seq(Listed) /\ Len(s) \in Nat
  BY <1>1
<1>3. t0 \in ReadingOn
  BY DEF Reading, ReadingOn
<1>4. EntrySound(s, 0, n0, r, t0)
  <2>1. /\ t0.wm = r.wm /\ t0.trans = r.trans /\ t0.next = r.next /\ t0.refset = {}
        /\ t0.status = TRUE /\ r.next \in Nat /\ 1 .. 0 = {}
    BY DEF Reading, Id
  <2>. HIDE DEF t0
  <2>. QED
    BY <2>1, FS_EmptySet DEF EntrySound, Known
<1>. HIDE DEF t0
<1>5. PICK h \in [0 .. Len(s) -> ReadingOn] :
        /\ h[0] = t0
        /\ \A k \in 1 .. Len(s) : h[k] = State!ReadEntry(h[k - 1], s[k])
        /\ h[Len(s)] = State!FoldLeft(State!ReadEntry, t0, s)
  BY <1>2, <1>3, EntriesOneByOne
<1>. DEFINE G == {k \in 0 .. Len(s) : EntrySound(s, k, n0, r, h[k])}
<1>7. 0 \in G
  BY <1>2, <1>4, <1>5
<1>8. ASSUME NEW k \in 1 .. Len(s), k - 1 \in G PROVE k \in G
  <2>1. EntrySound(s, k - 1, n0, r, h[k - 1]) /\ h[k - 1] \in ReadingOn /\ k \in 0 .. Len(s)
    BY <1>2, <1>5, <1>8
  <2>2. EntrySound(s, k, n0, r, h[k])
    BY <1>2, <1>5, <2>1, ReadEntrySound
  <2>. QED
    BY <2>1, <2>2
<1>. HIDE DEF G
<1>9. Len(s) \in G
  <2>1. \A k \in 0 .. Len(s) : k \in G
    BY <1>2, <1>7, <1>8, Induct
  <2>. QED
    BY <1>2, <2>1
<1>10. State!ReadEntries(r) = h[Len(s)]
  BY <1>1, <1>5 DEF State!ReadEntries, t0
<1>. QED
  BY <1>1, <1>2, <1>5, <1>9, <1>10 DEF G

-----------------------------------------------------------------------------
(* The inductive invariant.                                                *)

StateType ==
  /\ eb \in EntryBlock /\ wm \in Memory
  /\ refset \in SUBSET Refraction /\ IsFiniteSet(refset)
  /\ nextId \in Id /\ clock \in Nat /\ gen \in Nat
  /\ file.objs \in Seq(Filed) /\ file.refs \in Seq(Listed) /\ file.gen \in Nat
  /\ file.end \in BOOLEAN

IdsSound ==
  IdsApart(wm) /\ IdsBelow(wm, nextId) /\ \A x \in refset : x.id < nextId

\* The file has an object once, and an entry for all that could not fire.
FileSound ==
  /\ \A i, j \in DOMAIN file.objs : file.objs[i].id = file.objs[j].id => i = j
  /\ \A x \in atSave : \E i \in DOMAIN file.refs : x = file.refs[i]

\* After a file was read: its objects are behind those that were there.
ReadBack ==
  /\ \A i, j \in DOMAIN last.trans : last.trans[i] = last.trans[j] => i = j
  /\ \A b \in Visibly : Len(wm[b]) = last.before[b] + Count(file.objs, Len(file.objs), b)
  /\ \A j \in DOMAIN file.objs : file.objs[j].block \in Visibly =>
       LET o == file.objs[j]  p == last.before[o.block] + Count(file.objs, j, o.block)
       IN  p \in DOMAIN wm[o.block] /\ Translates(last.trans, o, wm[o.block][p])
  /\ 0 \in DOMAIN last.trans =>
       \A b \in Block : \A i \in DOMAIN wm[b] : wm[b][i].id # last.trans[0]

\* After RESTORESTATE: the entries that were read, and no others, are about objects that
\* can be seen.
Refracts ==
  \A r \in Rule : \A b \in Visibly : \A i \in DOMAIN wm[b] :
    [rule |-> r, id |-> wm[b][i].id, tag |-> wm[b][i].tag] \in refset <=>
      /\ last.accepted
      /\ \E n \in Known(file.refs, Len(file.refs)) :
           file.refs[n].rule = r /\ wm[b][i].id = last.trans[file.refs[n].id]

\* After a whole file was read: its entries are the set, its counter is the counter.
Restored ==
  /\ \A b \in Visibly : \A i \in DOMAIN wm[b] :
       \E j \in DOMAIN file.objs : wm[b][i].gen = file.objs[j].gen
  /\ \A x \in atSave : x.id \in DOMAIN last.trans /\ Marked(x, last.trans, wm) \in refset
  /\ gen = file.gen

SaveInv ==
  /\ StateType /\ IdsSound /\ FileSound
  /\ last.read => ReadBack
  /\ last.cleared => Refracts
  /\ last.whole => Restored

LEMMA ObjectsAre ==
  /\ \A o : o \in State!Objects <=> \E b \in Block : \E i \in DOMAIN wm[b] : o = wm[b][i]
  /\ \A o : o \in State!Visible <=> \E b \in Visibly : \E i \in DOMAIN wm[b] : o = wm[b][i]
<1>1. \A o : o \in State!Objects <=> \E b \in Block : \E i \in DOMAIN wm[b] : o = wm[b][i]
  BY DEF State!Objects, State!Range
<1>2. \A o : o \in State!Visible <=> \E b \in Visibly : \E i \in DOMAIN wm[b] : o = wm[b][i]
  BY DEF State!Visible, State!Range, Visibly, Range
<1>. QED
  BY <1>1, <1>2

LEMMA Seen == ASSUME eb \in EntryBlock PROVE Visibly \subseteq Block
<1>1. Sees[eb] \in Seq(Block)
  BY StorageAssumption DEF State!SeesAssumption
<1>. QED
  BY <1>1 DEF Visibly, Range

LEMMA NothingRestored == ~State!Nothing.whole /\ ~State!Nothing.cleared /\ ~State!Nothing.read
BY DEF State!Nothing

LEMMA SaveInit == State!Init => SaveInv
<1>. SUFFICES ASSUME State!Init PROVE SaveInv
  OBVIOUS
<1>1. /\ wm = [b \in Block |-> << >>] /\ nextId = 1 /\ clock = 0 /\ gen = 0 /\ refset = {}
      /\ eb \in EntryBlock /\ atSave = {}
      /\ file.objs = << >> /\ file.refs = << >> /\ file.gen = 0 /\ file.end = FALSE
      /\ last = State!Nothing
  BY DEF State!Init, State!NoFile
<1>2. wm \in Memory /\ \A b \in Block : DOMAIN wm[b] = {}
  BY <1>1 DEF Memory
<1>3. StateType
  <2>1. IsFiniteSet(refset) /\ refset \in SUBSET Refraction
    BY <1>1, FS_EmptySet
  <2>2. << >> \in Seq(Filed) /\ << >> \in Seq(Listed)
    OBVIOUS
  <2>3. file.objs \in Seq(Filed) /\ file.refs \in Seq(Listed)
    BY <1>1, <2>2
  <2>4. nextId \in Id /\ clock \in Nat /\ gen \in Nat /\ file.gen \in Nat
    BY <1>1 DEF Id
  <2>5. file.end \in BOOLEAN
    BY <1>1
  <2>. QED
    BY <1>1, <1>2, <2>1, <2>3, <2>4, <2>5 DEF StateType
<1>4. IdsSound
  BY <1>1, <1>2 DEF IdsSound, IdsApart, IdsBelow
<1>5. FileSound
  BY <1>1 DEF FileSound
<1>. QED
  BY <1>1, <1>3, <1>4, <1>5, NothingRestored DEF SaveInv

\* What leaves the file alone leaves it sound.
LEMMA SameFile ==
  ASSUME SaveInv, UNCHANGED <<file, atSave>>, last' = State!Nothing, StateType', IdsSound'
  PROVE  SaveInv'
<1>1. FileSound'
  BY DEF SaveInv, FileSound
<1>. QED
  BY <1>1, NothingRestored DEF SaveInv

LEMMA MakeKeeps ==
  ASSUME SaveInv, NEW b \in Block, NEW ref \in State!Ids \cup {State!NoId},
         NEW g \in BOOLEAN, State!Make(b, ref, g)
  PROVE  SaveInv'
<1>1. /\ gen' = (IF g THEN gen + 1 ELSE gen) /\ clock' = clock + 1 /\ nextId' = nextId + 1
      /\ last' = State!Nothing /\ UNCHANGED <<eb, refset, file, saves, atSave>>
      /\ wm' = [wm EXCEPT ![b] = Append(@, [id |-> nextId, tag |-> clock', ref |-> ref,
                                          gen |-> IF g THEN gen' ELSE State!NoId])]
  BY DEF State!Make
<1>2. /\ wm \in Memory /\ nextId \in Id /\ nextId \in Nat /\ clock \in Nat /\ gen \in Nat
      /\ IdsApart(wm) /\ IdsBelow(wm, nextId) /\ \A x \in refset : x.id < nextId /\ x.id \in Nat
  BY DEF SaveInv, StateType, IdsSound, Id, Refraction
<1>3. ref \in Nat
  BY <1>2, ObjectsAre, MemoryIs DEF State!Ids, State!NoId
<1>4. gen' \in Nat /\ clock' \in Nat /\ nextId' \in Id /\ nextId < nextId'
  BY <1>1, <1>2 DEF Id
<1>. DEFINE e == [id |-> nextId, tag |-> clock', ref |-> ref,
                  gen |-> IF g THEN gen' ELSE State!NoId]
<1>5. e \in Obj /\ e.id = nextId
  BY <1>2, <1>3, <1>4 DEF Obj, State!NoId
<1>. HIDE DEF e
<1>6. wm' = [wm EXCEPT ![b] = Append(@, e)]
  BY <1>1 DEF e
<1>7. PICK v : v = wm'
  OBVIOUS
<1>8. Appends(wm, b, e, v)
  BY <1>2, <1>5, <1>6, <1>7, Appended
<1>9. \A c \in Block : \A i \in DOMAIN wm[c] : wm[c][i].id # e.id /\ wm[c][i].id \in Nat
  BY <1>2, <1>5, MemoryIs DEF IdsBelow
<1>10. IdsApart(v)
  BY <1>2, <1>8, <1>9, AppendKeepsApart
<1>11. IdsBelow(v, nextId')
  <2>. SUFFICES ASSUME NEW c \in Block, NEW i \in DOMAIN v[c] PROVE v[c][i].id < nextId'
    BY DEF IdsBelow
  <2>1. (i \in DOMAIN wm[c] /\ v[c][i] = wm[c][i]) \/ v[c][i] = e
    BY <1>8 DEF Appends
  <2>. QED
    BY <2>1, <1>2, <1>4, <1>5, <1>9 DEF IdsBelow, Id
<1>12. StateType'
  BY <1>1, <1>4, <1>7, <1>8 DEF SaveInv, StateType, Appends
<1>13. \A x \in refset' : x.id < nextId'
  BY <1>1, <1>2, <1>4 DEF Id
<1>14. IdsSound'
  BY <1>7, <1>10, <1>11, <1>13 DEF IdsSound, IdsApart, IdsBelow
<1>. QED
  BY <1>1, <1>12, <1>14, SameFile

LEMMA ModifyKeeps ==
  ASSUME SaveInv, NEW b \in Block, NEW i \in 1 .. MaxObjects, State!Modify(b, i)
  PROVE  SaveInv'
<1>1. /\ i \in DOMAIN wm[b] /\ clock' = clock + 1 /\ wm' = [wm EXCEPT ![b][i].tag = clock']
      /\ last' = State!Nothing /\ UNCHANGED <<eb, refset, nextId, gen, file, saves, atSave>>
  BY DEF State!Modify
<1>2. wm \in Memory /\ clock' \in Nat
  BY <1>1 DEF SaveInv, StateType
<1>. DEFINE e == [wm[b][i] EXCEPT !.tag = clock']
            s == [wm[b] EXCEPT ![i] = e]
<1>3. e \in Obj /\ e.id = wm[b][i].id
  <2>1. wm[b][i] \in Obj
    BY <1>1, <1>2, MemoryIs
  <2>. QED
    BY <1>2, <2>1 DEF Obj
<1>. HIDE DEF e
<1>4. /\ s \in Seq(Obj) /\ DOMAIN s = DOMAIN wm[b]
      /\ \A n \in DOMAIN wm[b] : s[n] = IF n = i THEN e ELSE wm[b][n]
  <2>1. wm[b] \in Seq(Obj) /\ i \in DOMAIN wm[b]
    BY <1>1, <1>2, MemoryIs
  <2>. QED
    BY <2>1, <1>3, PlaceReplaced
<1>5. wm' = [wm EXCEPT ![b] = s]
  BY <1>1, <1>2 DEF e, Memory
<1>. HIDE DEF s
<1>6. wm' \in Memory
  BY <1>2, <1>4, <1>5 DEF Memory
<1>7. PICK v : v = wm'
  OBVIOUS
<1>8. \A c \in Block : DOMAIN v[c] = DOMAIN wm[c] /\ \A n \in DOMAIN wm[c] : v[c][n].id = wm[c][n].id
  <2>1. v[b] = s /\ \A c \in Block : c # b => v[c] = wm[c]
    BY <1>2, <1>5, <1>7 DEF Memory
  <2>2. DOMAIN s = DOMAIN wm[b] /\ \A n \in DOMAIN wm[b] : s[n].id = wm[b][n].id
    BY <1>3, <1>4
  <2>. QED
    BY <2>1, <2>2
<1>9. StateType'
  BY <1>1, <1>2, <1>6 DEF SaveInv, StateType
<1>10. IdsApart(v) /\ IdsBelow(v, nextId)
  BY <1>8 DEF SaveInv, IdsSound, IdsApart, IdsBelow
<1>11. IdsSound'
  BY <1>1, <1>7, <1>10 DEF SaveInv, IdsSound, IdsApart, IdsBelow
<1>. QED
  BY <1>1, <1>9, <1>11, SameFile

LEMMA DestroyKeeps ==
  ASSUME SaveInv, NEW b \in Block, NEW i \in 1 .. MaxObjects, State!Destroy(b, i)
  PROVE  SaveInv'
<1>1. /\ i \in DOMAIN wm[b] /\ wm' = [wm EXCEPT ![b] = State!RemoveAt(@, i)]
      /\ last' = State!Nothing
      /\ UNCHANGED <<eb, refset, nextId, clock, gen, file, saves, atSave>>
  BY DEF State!Destroy
<1>2. wm \in Memory /\ wm[b] \in Seq(Obj) /\ i \in DOMAIN wm[b] /\ DOMAIN wm[b] = 1 .. Len(wm[b])
      /\ Len(wm[b]) \in Nat
  BY <1>1, MemoryIs DEF SaveInv, StateType
<1>. DEFINE s == RemoveAt(wm[b], i)
<1>3. /\ s \in Seq(Obj) /\ DOMAIN s = 1 .. Len(wm[b]) - 1
      /\ \A n \in DOMAIN s : s[n] = IF n < i THEN wm[b][n] ELSE wm[b][n + 1]
  BY <1>2, TakenOut
<1>4. wm' = [wm EXCEPT ![b] = s]
  BY <1>1, SameOperators
<1>. HIDE DEF s
<1>. DEFINE from(n) == IF n < i THEN n ELSE n + 1
<1>5. /\ \A n \in DOMAIN s : from(n) \in DOMAIN wm[b] /\ s[n] = wm[b][from(n)]
      /\ \A m, n \in DOMAIN s : from(m) = from(n) => m = n
  BY <1>2, <1>3
<1>. HIDE DEF from
<1>6. PICK v : v = wm'
  OBVIOUS
<1>7. v \in Memory /\ v[b] = s /\ \A c \in Block : c # b => v[c] = wm[c]
  BY <1>2, <1>3, <1>4, <1>6 DEF Memory
<1>8. IdsApart(wm) /\ IdsBelow(wm, nextId)
  BY DEF SaveInv, IdsSound
<1>9. IdsApart(v)
  <2>. SUFFICES ASSUME NEW c \in Block, NEW d \in Block, NEW m \in DOMAIN v[c], NEW n \in DOMAIN v[d],
                       v[c][m].id = v[d][n].id
                PROVE  c = d /\ m = n
    BY DEF IdsApart
  <2>1. CASE c = b /\ d = b
    BY <2>1, <1>5, <1>7, <1>8 DEF IdsApart
  <2>2. CASE c = b /\ d # b
    BY <2>2, <1>5, <1>7, <1>8 DEF IdsApart
  <2>3. CASE c # b /\ d = b
    BY <2>3, <1>5, <1>7, <1>8 DEF IdsApart
  <2>4. CASE c # b /\ d # b
    BY <2>4, <1>7, <1>8 DEF IdsApart
  <2>. QED
    BY <2>1, <2>2, <2>3, <2>4
<1>10. IdsBelow(v, nextId)
  <2>. SUFFICES ASSUME NEW c \in Block, NEW m \in DOMAIN v[c] PROVE v[c][m].id < nextId
    BY DEF IdsBelow
  <2>1. CASE c = b
    BY <2>1, <1>5, <1>7, <1>8 DEF IdsBelow
  <2>2. CASE c # b
    BY <2>2, <1>7, <1>8 DEF IdsBelow
  <2>. QED
    BY <2>1, <2>2
<1>11. StateType'
  BY <1>1, <1>6, <1>7 DEF SaveInv, StateType
<1>12. IdsSound'
  BY <1>1, <1>6, <1>9, <1>10 DEF SaveInv, IdsSound, IdsApart, IdsBelow
<1>. QED
  BY <1>1, <1>11, <1>12, SameFile

LEMMA FireKeeps ==
  ASSUME SaveInv, NEW r \in Rule, NEW o \in State!Objects, State!Fire(r, o)
  PROVE  SaveInv'
<1>1. /\ refset' = refset \cup {[rule |-> r, id |-> o.id, tag |-> o.tag]}
      /\ last' = State!Nothing
      /\ UNCHANGED <<eb, wm, nextId, clock, gen, file, saves, atSave>>
  BY DEF State!Fire
<1>2. wm \in Memory
  BY DEF SaveInv, StateType
<1>3. o.id \in Id /\ o.tag \in Nat /\ o.id < nextId
  BY <1>2, ObjectsAre, MemoryIs DEF SaveInv, IdsSound, IdsBelow, Id
<1>4. [rule |-> r, id |-> o.id, tag |-> o.tag] \in Refraction
  BY <1>3 DEF Refraction
<1>5. IsFiniteSet(refset')
  BY <1>1, FS_AddElement DEF SaveInv, StateType
<1>6. StateType'
  BY <1>1, <1>4, <1>5 DEF SaveInv, StateType
<1>7. IdsSound'
  BY <1>1, <1>3 DEF SaveInv, IdsSound, IdsApart, IdsBelow
<1>. QED
  BY <1>1, <1>6, <1>7, SameFile

LEMMA CallKeeps ==
  ASSUME SaveInv, NEW e \in EntryBlock, State!Call(e)
  PROVE  SaveInv'
<1>1. /\ eb' = e /\ refset' = {} /\ last' = State!Nothing
      /\ UNCHANGED <<wm, nextId, clock, gen, file, saves, atSave>>
  BY DEF State!Call
<1>2. StateType'
  BY <1>1, FS_EmptySet DEF SaveInv, StateType
<1>3. IdsSound'
  BY <1>1 DEF SaveInv, IdsSound, IdsApart, IdsBelow
<1>. QED
  BY <1>1, <1>2, <1>3, SameFile

\* The program starts with nothing.
LEMMA Afresh ==
  ASSUME wm' = [b \in Block |-> << >>], nextId' = 1, clock' = 0, gen' = 0, refset' = {},
         NEW e \in EntryBlock, eb' = e,
         file'.objs \in Seq(Filed), file'.refs \in Seq(Listed), file'.gen \in Nat,
         file'.end \in BOOLEAN
  PROVE  StateType' /\ IdsSound'
<1>2. wm' \in Memory /\ \A b \in Block : DOMAIN wm'[b] = {}
  BY DEF Memory
<1>3. StateType'
  BY <1>2, FS_EmptySet DEF StateType, Id
<1>4. IdsSound'
  BY <1>2 DEF IdsSound, IdsApart, IdsBelow
<1>. QED
  BY <1>3, <1>4

LEMMA RestartKeeps ==
  ASSUME SaveInv, NEW e \in EntryBlock, State!Restart(e)
  PROVE  SaveInv'
<1>1. StateType' /\ IdsSound'
  BY Afresh DEF State!Restart, SaveInv, StateType
<1>. QED
  BY <1>1, SameFile DEF State!Restart

-----------------------------------------------------------------------------
(* SAVESTATE.                                                              *)

\* The saved objects are those of the visible blocks, each once.
LEMMA SavedObjectsSound ==
  ASSUME StateType, IdsApart(wm)
  PROVE  /\ State!SavedObjects \in Seq(Filed)
         /\ \A i, j \in DOMAIN State!SavedObjects :
              State!SavedObjects[i].id = State!SavedObjects[j].id => i = j
<1>. DEFINE sees == Sees[eb]
            Saved(b, o) == [block |-> b, id |-> o.id, ref |-> o.ref, gen |-> o.gen]
            seqs == [k \in DOMAIN sees |->
                      [i \in DOMAIN wm[sees[k]] |-> Saved(sees[k], wm[sees[k]][i])]]
<1>1. /\ sees \in Seq(Block) /\ DOMAIN sees = 1 .. Len(sees) /\ Len(sees) \in Nat
      /\ \A k \in DOMAIN sees : sees[k] \in Block
      /\ \A k, m \in DOMAIN sees : sees[k] = sees[m] => k = m
  <2>1. sees \in Seq(Block) /\ State!IsInjective(sees)
    BY StorageAssumption DEF State!SeesAssumption, StateType
  <2>2. \A k, m \in DOMAIN sees : sees[k] = sees[m] => k = m
    BY <2>1 DEF State!IsInjective
  <2>. QED
    BY <2>1, <2>2
<1>2. State!SavedObjects = FlattenSeq(seqs)
  BY SameOperators DEF State!SavedObjects
<1>. HIDE DEF sees
<1>3. ASSUME NEW k \in DOMAIN sees
      PROVE  /\ seqs[k] \in Seq(Filed) /\ DOMAIN seqs[k] = DOMAIN wm[sees[k]]
             /\ \A i \in DOMAIN seqs[k] : seqs[k][i].id = wm[sees[k]][i].id
  <2>1. sees[k] \in Block /\ wm \in Memory
    BY <1>1 DEF StateType
  <2>2. \A i \in DOMAIN wm[sees[k]] : Saved(sees[k], wm[sees[k]][i]) \in Filed
    BY <2>1, MemoryIs DEF Filed, Id
  <2>3. DOMAIN wm[sees[k]] = 1 .. Len(wm[sees[k]]) /\ Len(wm[sees[k]]) \in Nat
    BY <2>1, MemoryIs
  <2>4. seqs[k] = [i \in 1 .. Len(wm[sees[k]]) |-> Saved(sees[k], wm[sees[k]][i])]
    BY <2>3
  <2>5. seqs[k] \in [1 .. Len(wm[sees[k]]) -> Filed]
    BY <2>2, <2>3, <2>4
  <2>6. seqs[k] \in Seq(Filed)
    BY <2>3, <2>5, IntervalSeq
  <2>. QED
    BY <2>3, <2>4, <2>6
<1>4. seqs \in Seq(Seq(Filed)) /\ DOMAIN seqs = DOMAIN sees /\ Len(seqs) = Len(sees)
  <2>1. seqs \in [1 .. Len(sees) -> Seq(Filed)]
    BY <1>1, <1>3
  <2>. HIDE DEF seqs
  <2>2. seqs \in Seq(Seq(Filed)) /\ Len(seqs) = Len(sees) /\ DOMAIN seqs = 1 .. Len(sees)
    BY <1>1, <2>1, IntervalSeq
  <2>. QED
    BY <1>1, <2>2
<1>. HIDE DEF seqs
<1>. DEFINE flat == FlattenSeq(seqs)
<1>5. /\ flat \in Seq(Filed)
      /\ \E p \in [1 .. Len(flat) -> (1 .. Len(seqs)) \X Nat] :
           /\ IsInjective(p)
           /\ \A i \in 1 .. Len(flat) :
                p[i][2] \in DOMAIN seqs[p[i][1]] /\ flat[i] = seqs[p[i][1]][p[i][2]]
  BY <1>4, FlattenPlaces
<1>. HIDE DEF flat
<1>6. PICK p \in [1 .. Len(flat) -> (1 .. Len(seqs)) \X Nat] :
        /\ IsInjective(p)
        /\ \A i \in 1 .. Len(flat) :
             p[i][2] \in DOMAIN seqs[p[i][1]] /\ flat[i] = seqs[p[i][1]][p[i][2]]
  BY <1>5
<1>7. ASSUME NEW i \in DOMAIN flat
      PROVE  /\ i \in 1 .. Len(flat) /\ p[i] = <<p[i][1], p[i][2]>>
             /\ p[i][1] \in DOMAIN sees /\ sees[p[i][1]] \in Block
             /\ p[i][2] \in DOMAIN wm[sees[p[i][1]]]
             /\ flat[i].id = wm[sees[p[i][1]]][p[i][2]].id
  <2>1. i \in 1 .. Len(flat) /\ p[i] \in (1 .. Len(seqs)) \X Nat
    BY <1>5, <1>6
  <2>2. p[i] = <<p[i][1], p[i][2]>> /\ p[i][1] \in DOMAIN sees
    BY <2>1, <1>1, <1>4
  <2>. QED
    BY <2>1, <2>2, <1>1, <1>3, <1>6
<1>8. ASSUME NEW i \in DOMAIN flat, NEW j \in DOMAIN flat, flat[i].id = flat[j].id
      PROVE  i = j
  <2>0. /\ sees[p[i][1]] \in Block /\ sees[p[j][1]] \in Block
        /\ p[i][2] \in DOMAIN wm[sees[p[i][1]]] /\ p[j][2] \in DOMAIN wm[sees[p[j][1]]]
        /\ wm[sees[p[i][1]]][p[i][2]].id = wm[sees[p[j][1]]][p[j][2]].id
    BY <1>7, <1>8
  <2>1. sees[p[i][1]] = sees[p[j][1]] /\ p[i][2] = p[j][2]
    BY <2>0 DEF IdsApart
  <2>2. p[i][1] = p[j][1]
    BY <2>1, <1>1, <1>7
  <2>3. p[i] = p[j]
    BY <2>1, <2>2, <1>7
  <2>. QED
    BY <2>3, <1>6, <1>7 DEF IsInjective
<1>9. State!SavedObjects = flat
  BY <1>2 DEF flat
<1>. QED
  BY <1>5, <1>8, <1>9

\* An order of a finite set has each of its elements.
LEMMA OrderHasAll ==
  ASSUME NEW X, IsFiniteSet(X), NEW s \in State!SetToSeqs(X)
  PROVE  /\ s \in [1 .. Cardinality(X) -> X] /\ Cardinality(X) \in Nat
         /\ \A x \in X : \E i \in 1 .. Cardinality(X) : s[i] = x
<1>1. Cardinality(X) \in Nat /\ \A S : State!Cardinality(S) = Cardinality(S)
  BY FS_CardinalityType DEF State!Cardinality, Cardinality
<1>. DEFINE n == Cardinality(X)
<1>2. s \in [1 .. n -> X] /\ \A i, j \in 1 .. n : s[i] = s[j] => i = j
  BY <1>1 DEF State!SetToSeqs
<1>3. Cardinality(1 .. n) = n
  BY <1>1, FS_Interval
<1>4. s \in Injection(1 .. n, X)
  BY <1>2 DEF Injection, IsInjective
<1>5. s \in Surjection(1 .. n, X)
  BY <1>3, <1>4, FS_Injection
<1>. QED
  BY <1>1, <1>2, <1>5 DEF Surjection

\* What SAVESTATE would write now.
Fired == {[rule |-> x[1], id |-> x[2].id] :
            x \in {y \in Rules[eb] \X State!Visible : State!Refracted(y[1], y[2])}}

LEMMA SavedFilesSound ==
  ASSUME SaveInv, NEW f \in State!SavedFiles
  PROVE  /\ f.objs \in Seq(Filed) /\ f.refs \in Seq(Listed) /\ f.gen \in Nat /\ f.end = TRUE
         /\ \A i, j \in DOMAIN f.objs : f.objs[i].id = f.objs[j].id => i = j
         /\ \A x \in Fired : \E i \in DOMAIN f.refs : x = f.refs[i]
         /\ \E os, rs, n :
              f = [header |-> TRUE, objs |-> os, refs |-> rs, gen |-> n, end |-> TRUE]
<1>1. PICK refs \in State!SavedEntries :
        f = [header |-> TRUE, objs |-> State!SavedObjects, refs |-> State!Unnumbered(refs),
             gen |-> gen, end |-> TRUE]
  BY DEF State!SavedFiles
<1>. DEFINE Num(x) == [rule |-> x.rule, id |-> x.id, n |-> x.tag]
            X == {Num(x) : x \in refset}
<1>3. IsFiniteSet(X)
  <2>. DEFINE num == [x \in refset |-> Num(x)]
  <2>1. num \in Surjection(refset, X)
    BY DEF Surjection
  <2>. HIDE DEF num, X
  <2>2. IsFiniteSet(refset)
    BY DEF SaveInv, StateType
  <2>. QED
    BY <2>1, <2>2, FS_Surjection
<1>4. refs \in State!SetToSeqs(X)
  BY DEF State!SavedEntries
<1>5. \A x \in X : x.rule \in Rule /\ x.id \in Id
  BY DEF SaveInv, StateType, Refraction
<1>6. \A y \in refset : \E x \in X : x.rule = y.rule /\ x.id = y.id
  <2>1. \A y \in refset : Num(y) \in X /\ Num(y).rule = y.rule /\ Num(y).id = y.id
    OBVIOUS
  <2>. QED
    BY <2>1
<1>. HIDE DEF X
<1>. DEFINE n == Cardinality(X)
<1>7. /\ refs \in [1 .. n -> X] /\ n \in Nat
      /\ \A x \in X : \E i \in 1 .. n : refs[i] = x
  BY <1>3, <1>4, OrderHasAll
<1>. HIDE DEF n
<1>8. State!Unnumbered(refs) = [i \in 1 .. n |-> [rule |-> refs[i].rule, id |-> refs[i].id]]
  BY <1>7 DEF State!Unnumbered
<1>. DEFINE list == [i \in 1 .. n |-> [rule |-> refs[i].rule, id |-> refs[i].id]]
<1>9. list \in [1 .. n -> Listed]
  BY <1>5, <1>7 DEF Listed
<1>10. list \in Seq(Listed) /\ DOMAIN list = 1 .. n
  <2>. HIDE DEF list
  <2>. QED
    BY <1>7, <1>9, IntervalSeq
<1>11. /\ State!SavedObjects \in Seq(Filed)
       /\ \A i, j \in DOMAIN State!SavedObjects :
            State!SavedObjects[i].id = State!SavedObjects[j].id => i = j
  BY SavedObjectsSound DEF SaveInv, IdsSound
<1>12. /\ f.objs = State!SavedObjects /\ f.refs = list /\ f.gen = gen /\ f.end = TRUE
       /\ \E os, rs, k :
            f = [header |-> TRUE, objs |-> os, refs |-> rs, gen |-> k, end |-> TRUE]
  BY <1>1, <1>8
<1>13. ASSUME NEW x \in Fired PROVE \E i \in DOMAIN list : x = list[i]
  <2>1. PICK r \in Rules[eb], o \in State!Visible :
          State!Refracted(r, o) /\ x = [rule |-> r, id |-> o.id]
    BY DEF Fired
  <2>2. [rule |-> r, id |-> o.id, tag |-> o.tag] \in refset
    BY <2>1 DEF State!Refracted
  <2>3. PICK y \in X : y.rule = r /\ y.id = o.id
    BY <1>6, <2>2
  <2>4. PICK i \in 1 .. n : refs[i] = y
    BY <1>7
  <2>5. list[i] = x /\ i \in DOMAIN list
    BY <2>1, <2>3, <2>4
  <2>. QED
    BY <2>5
<1>. HIDE DEF list
<1>14. gen \in Nat
  BY DEF SaveInv, StateType
<1>. QED
  BY <1>10, <1>11, <1>12, <1>13, <1>14

LEMMA SaveKeeps == ASSUME SaveInv, State!Save PROVE SaveInv'
<1>1. /\ file' \in State!SavedFiles /\ atSave' = Fired
      /\ last' = State!Nothing /\ UNCHANGED <<eb, wm, refset, nextId, clock, gen>>
  BY DEF State!Save, Fired
<1>2. PICK f \in State!SavedFiles : f = file'
  BY <1>1
<1>3. /\ f.objs \in Seq(Filed) /\ f.refs \in Seq(Listed) /\ f.gen \in Nat /\ f.end = TRUE
      /\ \A i, j \in DOMAIN f.objs : f.objs[i].id = f.objs[j].id => i = j
      /\ \A x \in Fired : \E i \in DOMAIN f.refs : x = f.refs[i]
  BY SavedFilesSound
<1>4. StateType'
  BY <1>1, <1>2, <1>3 DEF SaveInv, StateType
<1>5. IdsSound'
  BY <1>1 DEF SaveInv, IdsSound, IdsApart, IdsBelow
<1>6. FileSound'
  BY <1>1, <1>2, <1>3 DEF FileSound
<1>. QED
  BY <1>1, <1>4, <1>5, <1>6, NothingRestored DEF SaveInv

\* What a crash leaves of a file is as sound as the file.
LEMMA CutsSound ==
  ASSUME SaveInv, NEW f \in State!SavedFiles, NEW g \in State!Cuts(f)
  PROVE  /\ g.objs \in Seq(Filed) /\ g.refs \in Seq(Listed) /\ g.gen \in Nat /\ g.end \in BOOLEAN
         /\ \A i, j \in DOMAIN g.objs : g.objs[i].id = g.objs[j].id => i = j
<1>1. PICK os, rs, k :
        f = [header |-> TRUE, objs |-> os, refs |-> rs, gen |-> k, end |-> TRUE]
  BY SavedFilesSound
<1>2. f.objs = os /\ f.refs = rs
  BY <1>1
<1>3. os \in Seq(Filed) /\ rs \in Seq(Listed)
  BY <1>2, SavedFilesSound
<1>4. \A i, j \in DOMAIN os : os[i].id = os[j].id => i = j
  BY <1>2, SavedFilesSound
<1>. DEFINE Part(os0, rs0) == [header |-> TRUE, objs |-> os0, refs |-> rs0,
                              gen |-> 0, end |-> FALSE]
<1>5. \/ g = State!NoFile
      \/ \E n \in 0 .. Len(os) : g = Part(SubSeq(os, 1, n), << >>)
      \/ \E n \in 0 .. Len(rs) : g = Part(os, SubSeq(rs, 1, n))
  BY <1>2 DEF State!Cuts
<1>6. << >> \in Seq(Filed) /\ << >> \in Seq(Listed) /\ DOMAIN << >> = {}
  OBVIOUS
<1>7. CASE g = State!NoFile
  BY <1>6, <1>7 DEF State!NoFile
<1>8. ASSUME NEW n \in 0 .. Len(os), g = Part(SubSeq(os, 1, n), << >>)
      PROVE  /\ g.objs \in Seq(Filed) /\ g.refs \in Seq(Listed) /\ g.gen \in Nat /\ g.end \in BOOLEAN
             /\ \A i, j \in DOMAIN g.objs : g.objs[i].id = g.objs[j].id => i = j
  <2>1. PICK some : some = SubSeq(os, 1, n)
    OBVIOUS
  <2>2. /\ some \in Seq(Filed) /\ DOMAIN some = 1 .. n
        /\ \A i \in 1 .. n : some[i] = os[i]
    BY <1>3, <2>1, Prefix
  <2>3. \A i \in DOMAIN some : i \in DOMAIN os
    BY <1>3, <2>2
  <2>4. \A i, j \in DOMAIN some : some[i].id = some[j].id => i = j
    BY <1>4, <2>2, <2>3
  <2>5. g = Part(some, << >>)
    BY <1>8, <2>1
  <2>6. g.objs = some /\ g.refs = << >> /\ g.gen = 0
    BY <2>5
  <2>7. g.end = FALSE
    BY <2>5
  <2>. HIDE DEF Part
  <2>8. g.objs \in Seq(Filed) /\ g.refs \in Seq(Listed) /\ g.gen \in Nat
    BY <1>6, <2>2, <2>6
  <2>9. \A i, j \in DOMAIN g.objs : g.objs[i].id = g.objs[j].id => i = j
    BY <2>4, <2>6
  <2>. QED
    BY <2>7, <2>8, <2>9
<1>9. ASSUME NEW n \in 0 .. Len(rs), g = Part(os, SubSeq(rs, 1, n))
      PROVE  /\ g.objs \in Seq(Filed) /\ g.refs \in Seq(Listed) /\ g.gen \in Nat /\ g.end \in BOOLEAN
             /\ \A i, j \in DOMAIN g.objs : g.objs[i].id = g.objs[j].id => i = j
  <2>1. SubSeq(rs, 1, n) \in Seq(Listed)
    BY <1>3, Prefix
  <2>2. g.objs = os /\ g.refs = SubSeq(rs, 1, n) /\ g.gen = 0
    BY <1>9
  <2>3. g.end = FALSE
    BY <1>9
  <2>. HIDE DEF Part
  <2>4. g.objs \in Seq(Filed) /\ g.refs \in Seq(Listed) /\ g.gen \in Nat
    BY <1>3, <2>1, <2>2
  <2>5. \A i, j \in DOMAIN g.objs : g.objs[i].id = g.objs[j].id => i = j
    BY <1>4, <2>2
  <2>. QED
    BY <2>3, <2>4, <2>5
<1>. QED
  BY <1>5, <1>7, <1>8, <1>9

LEMMA SaveCrashesKeeps ==
  ASSUME SaveInv, NEW e \in EntryBlock, State!SaveCrashes(e)
  PROVE  SaveInv'
<1>1. PICK f \in State!SavedFiles : file' \in State!Cuts(f)
  BY DEF State!SaveCrashes
<1>2. /\ atSave' = {} /\ last' = State!Nothing
      /\ wm' = [b \in Block |-> << >>] /\ nextId' = 1 /\ clock' = 0 /\ gen' = 0 /\ refset' = {}
      /\ eb' = e
  BY DEF State!SaveCrashes
<1>3. PICK g \in State!Cuts(f) : g = file'
  BY <1>1
<1>4. /\ g.objs \in Seq(Filed) /\ g.refs \in Seq(Listed) /\ g.gen \in Nat /\ g.end \in BOOLEAN
      /\ \A i, j \in DOMAIN g.objs : g.objs[i].id = g.objs[j].id => i = j
  BY CutsSound
<1>5. StateType' /\ IdsSound'
  BY <1>2, <1>3, <1>4, Afresh
<1>6. FileSound'
  BY <1>2, <1>3, <1>4 DEF FileSound
<1>. QED
  BY <1>2, <1>5, <1>6, NothingRestored DEF SaveInv

-----------------------------------------------------------------------------
(* ADDSTATE and RESTORESTATE.                                              *)

\* The objects of the file are behind those of mem, under ids that were not given before.
LEMMA ReadIsBack ==
  ASSUME NEW s \in Seq(Filed), NEW mem \in Memory, NEW n0 \in Id, NEW t \in Reading,
         ReadSound(s, Len(s), mem, n0, t), Visibly \subseteq Block,
         NEW f, NEW n, Fresh(f, n0, n),
         \A i \in DOMAIN t.trans : i \in DOMAIN f /\ f[i] = t.trans[i],
         file.objs = s, file' = file, eb' = eb, wm' = t.wm,
         last'.trans = f, last'.before = [b \in Block |-> Len(mem[b])]
  PROVE  ReadBack'
<1>1. /\ Len(s) \in Nat /\ DOMAIN s = 1 .. Len(s)
      /\ \A j \in DOMAIN s : s[j].block \in Block /\ s[j].id # 0
  <2>1. Len(s) \in Nat /\ DOMAIN s = 1 .. Len(s) /\ \A j \in DOMAIN s : s[j] \in Filed
    OBVIOUS
  <2>. QED
    BY <2>1 DEF Filed, Id
<1>2. Visibly' = Visibly /\ \A b \in Block : last'.before[b] = Len(mem[b])
  BY DEF Visibly
<1>3. \A i, j \in DOMAIN f : f[i] = f[j] => i = j
  BY DEF Fresh
<1>4. \A b \in Visibly : Len(t.wm[b]) = Len(mem[b]) + Count(s, Len(s), b)
  BY DEF ReadSound, AllRead
<1>5. ASSUME NEW j \in DOMAIN s, s[j].block \in Visibly
      PROVE  LET o == s[j]  p == last'.before[o.block] + Count(s, j, o.block)
             IN  p \in DOMAIN t.wm[o.block] /\ Translates(f, o, t.wm[o.block][p])
  <2>1. ReadAs(s[j], Place(s, j, mem), t)
    BY <1>1, <1>5 DEF ReadSound, AllRead
  <2>2. Place(s, j, mem) = last'.before[s[j].block] + Count(s, j, s[j].block)
    BY <1>1, <1>2 DEF Place
  <2>. QED
    BY <2>1, <2>2 DEF ReadAs, Translates
<1>6. ASSUME 0 \in DOMAIN f, NEW b \in Block, NEW i \in DOMAIN t.wm[b], t.wm[b][i].id = f[0]
      PROVE  FALSE
  <2>1. f[0] \in Nat /\ n0 \in Nat /\ n0 <= f[0]
    BY <1>6, TransIs DEF Fresh, Id
  <2>2. PICK j \in 1 .. Len(s) :
          s[j].id \in DOMAIN t.trans /\ t.wm[b][i].id = t.trans[s[j].id]
    BY <1>6, <2>1 DEF ReadSound, OldOrRead
  <2>. QED
    BY <1>1, <1>3, <1>6, <2>2
<1>7. /\ \A b \in Visibly' : Len(wm'[b]) = last'.before[b] + Count(file'.objs, Len(file'.objs), b)
      /\ 0 \in DOMAIN last'.trans =>
           \A b \in Block : \A i \in DOMAIN wm'[b] : wm'[b][i].id # last'.trans[0]
  BY <1>2, <1>4, <1>6
<1>8. \A j \in DOMAIN file'.objs : file'.objs[j].block \in Visibly' =>
        LET o == file'.objs[j]  p == last'.before[o.block] + Count(file'.objs, j, o.block)
        IN  p \in DOMAIN wm'[o.block] /\ Translates(last'.trans, o, wm'[o.block][p])
  BY <1>2, <1>5
<1>. QED
  BY <1>3, <1>7, <1>8 DEF ReadBack, Count, Translates

LEMMA AddKeeps == ASSUME SaveInv, State!AddState PROVE SaveInv'
<1>1. PICK t : t = State!ReadObjects(wm)
  OBVIOUS
<1>2. /\ wm' = t.wm /\ nextId' = t.next /\ clock' = t.clock
      /\ last' = [read |-> TRUE, cleared |-> FALSE, accepted |-> t.status, whole |-> FALSE,
                  trans |-> t.trans, before |-> [b \in Block |-> Len(wm[b])]]
      /\ UNCHANGED <<eb, refset, gen, file, saves, atSave>>
  BY <1>1 DEF State!AddState
<1>3. /\ StateType /\ IdsSound /\ FileSound
      /\ nextId \in Id /\ clock \in Nat /\ wm \in Memory
      /\ file.objs \in Seq(Filed) /\ IdsApart(wm) /\ IdsBelow(wm, nextId)
      /\ \A i, j \in DOMAIN file.objs : file.objs[i].id = file.objs[j].id => i = j
      /\ Visibly \subseteq Block
  BY Seen DEF SaveInv, StateType, IdsSound, FileSound
<1>4. t \in Reading /\ ReadSound(file.objs, Len(file.objs), wm, nextId, t)
  BY <1>1, <1>3, ReadObjectsSound
<1>5. /\ t.wm \in Memory /\ t.next \in Id /\ t.clock \in Nat /\ nextId <= t.next
      /\ IdsApart(t.wm) /\ IdsBelow(t.wm, t.next)
  BY <1>4 DEF Reading, ReadSound, Fresh
<1>6. StateType'
  BY <1>2, <1>3, <1>5 DEF StateType
<1>7. \A x \in refset : x.id < t.next
  <2>1. \A x \in refset : x.id < nextId /\ x.id \in Nat
    BY <1>3 DEF StateType, IdsSound, Refraction, Id
  <2>. QED
    BY <1>3, <1>5, <2>1 DEF Id
<1>8. IdsSound'
  BY <1>2, <1>5, <1>7 DEF IdsSound, IdsApart, IdsBelow
<1>9. FileSound'
  BY <1>2, <1>3 DEF FileSound
<1>10. ReadBack'
  <2>1. PICK s : s = file.objs
    OBVIOUS
  <2>2. s \in Seq(Filed) /\ ReadSound(s, Len(s), wm, nextId, t) /\ Fresh(t.trans, nextId, t.next)
    BY <1>3, <1>4, <2>1 DEF ReadSound
  <2>. QED
    BY <1>2, <1>3, <1>4, <2>1, <2>2, ReadIsBack
<1>. QED
  BY <1>2, <1>6, <1>8, <1>9, <1>10 DEF SaveInv

LEMMA RestoreKeeps == ASSUME SaveInv, State!RestoreState PROVE SaveInv'
<1>1. PICK clear : clear = [b \in Block |-> IF b \in Visibly THEN << >> ELSE wm[b]]
  OBVIOUS
<1>2. PICK t : t = State!ReadObjects(clear)
  OBVIOUS
<1>3. PICK u : u = State!ReadEntries(t)
  OBVIOUS
<1>. DEFINE whole == t.status /\ u.status /\ file.end
<1>4. /\ wm' = t.wm /\ nextId' = (IF t.status THEN u.next ELSE t.next) /\ clock' = t.clock
      /\ refset' = (IF t.status THEN u.refset ELSE refset)
      /\ gen' = (IF whole THEN file.gen ELSE gen)
      /\ last' = [read |-> TRUE, cleared |-> TRUE, accepted |-> t.status, whole |-> whole,
                  trans |-> IF t.status THEN u.trans ELSE t.trans,
                  before |-> [b \in Block |-> Len(clear[b])]]
      /\ UNCHANGED <<eb, file, saves, atSave>>
  <2>1. clear = [b \in Block |-> IF b \in State!Range(Sees[eb]) THEN << >> ELSE wm[b]]
    BY <1>1, SameOperators DEF Visibly
  <2>. QED
    BY <1>2, <1>3, <2>1 DEF State!RestoreState, State!Counter
<1>5. /\ StateType /\ IdsSound /\ FileSound
      /\ nextId \in Id /\ clock \in Nat /\ wm \in Memory /\ gen \in Nat /\ file.gen \in Nat
      /\ file.objs \in Seq(Filed) /\ file.refs \in Seq(Listed)
      /\ IdsApart(wm) /\ IdsBelow(wm, nextId)
      /\ \A i, j \in DOMAIN file.objs : file.objs[i].id = file.objs[j].id => i = j
      /\ Visibly \subseteq Block /\ \A x \in refset : x.id < nextId /\ x.id \in Nat
  BY Seen DEF SaveInv, StateType, IdsSound, FileSound, Refraction, Id
<1>6. /\ \A b \in Block : b \in Visibly => clear[b] = << >>
      /\ \A b \in Block : b \notin Visibly => clear[b] = wm[b]
  BY <1>1
<1>7. clear \in Memory
  <2>1. << >> \in Seq(Obj)
    OBVIOUS
  <2>2. \A b \in Block : wm[b] \in Seq(Obj)
    BY <1>5, MemoryIs
  <2>. QED
    BY <1>1, <2>1, <2>2 DEF Memory
<1>8. \A b \in Block : \A i \in DOMAIN clear[b] : i \in DOMAIN wm[b] /\ clear[b] = wm[b]
  <2>1. DOMAIN << >> = {}
    OBVIOUS
  <2>. QED
    BY <1>6, <2>1
<1>9. IdsApart(clear) /\ IdsBelow(clear, nextId)
  BY <1>5, <1>8 DEF IdsApart, IdsBelow
<1>10. t \in Reading /\ ReadSound(file.objs, Len(file.objs), clear, nextId, t)
  BY <1>2, <1>5, <1>7, <1>9, ReadObjectsSound
<1>11. /\ t.wm \in Memory /\ t.next \in Id /\ t.clock \in Nat /\ nextId <= t.next
       /\ Fresh(t.trans, nextId, t.next) /\ IdsApart(t.wm) /\ IdsBelow(t.wm, t.next)
  BY <1>10 DEF Reading, ReadSound, Fresh
<1>12. u \in ReadingOn /\ EntrySound(file.refs, Len(file.refs), nextId, t, u)
  BY <1>3, <1>5, <1>10, <1>11, ReadEntriesSound
<1>13. /\ u.wm = t.wm /\ u.next \in Id /\ t.next <= u.next /\ IsFiniteSet(u.refset)
       /\ u.refset \in SUBSET Refraction /\ \A x \in u.refset : x.id < u.next
       /\ Fresh(u.trans, nextId, u.next)
       /\ \A i \in DOMAIN t.trans : i \in DOMAIN u.trans /\ u.trans[i] = t.trans[i]
  BY <1>12 DEF EntrySound, ReadingOn
<1>. HIDE DEF whole
<1>14. nextId' \in Id /\ t.next <= nextId'
  BY <1>4, <1>11, <1>13 DEF Id
<1>15. StateType'
  <2>1. refset' \in SUBSET Refraction /\ IsFiniteSet(refset')
    BY <1>4, <1>5, <1>13 DEF StateType
  <2>2. gen' \in Nat /\ wm' \in Memory /\ clock' \in Nat
    BY <1>4, <1>5, <1>11
  <2>. QED
    BY <1>4, <1>5, <1>14, <2>1, <2>2 DEF StateType
<1>16. IdsSound'
  <2>1. \A b \in Block : \A i \in DOMAIN t.wm[b] : t.wm[b][i].id < nextId'
    BY <1>11, <1>14, MemoryIs DEF IdsBelow, Id
  <2>2. \A x \in refset : x.id < nextId'
    <3>1. \A x \in refset : x.id < nextId /\ x.id \in Nat
      BY <1>5 DEF StateType, IdsSound, Refraction, Id
    <3>. QED
      BY <1>5, <1>11, <1>14, <3>1 DEF Id
  <2>3. \A x \in refset' : x.id < nextId'
    BY <1>4, <1>13, <2>2
  <2>. QED
    BY <1>4, <1>11, <2>1, <2>3 DEF IdsSound, IdsApart, IdsBelow
<1>17. FileSound'
  BY <1>4, <1>5 DEF FileSound
<1>18. ReadBack'
  <2>1. PICK s : s = file.objs
    OBVIOUS
  <2>2. s \in Seq(Filed) /\ ReadSound(s, Len(s), clear, nextId, t)
    BY <1>5, <1>10, <2>1
  <2>3. PICK f, n : /\ f = last'.trans /\ Fresh(f, nextId, n)
                    /\ \A i \in DOMAIN t.trans : i \in DOMAIN f /\ f[i] = t.trans[i]
    <3>1. last'.trans = u.trans \/ last'.trans = t.trans
      BY <1>4
    <3>. QED
      BY <1>11, <1>13, <3>1
  <2>4. last'.before = [b \in Block |-> Len(clear[b])]
    BY <1>4
  <2>. QED
    BY <1>4, <1>5, <1>7, <1>10, <2>1, <2>2, <2>3, <2>4, ReadIsBack
<1>19. Visibly' = Visibly /\ \A b \in Visibly : b \in Block /\ Len(clear[b]) = 0
  BY <1>4, <1>5, <1>6 DEF Visibly
<1>20. ASSUME NEW b \in Visibly, NEW i \in DOMAIN t.wm[b]
       PROVE  /\ nextId <= t.wm[b][i].id /\ t.wm[b][i].id \in Nat /\ nextId \in Nat
              /\ \E j \in 1 .. Len(file.objs) : t.wm[b][i].gen = file.objs[j].gen
  <2>1. i \in Nat \ {0} /\ Len(clear[b]) = 0 /\ t.wm[b][i].id \in Nat /\ nextId \in Nat
    BY <1>5, <1>11, <1>19, MemoryIs DEF Id
  <2>2. ~(i <= Len(clear[b]))
    BY <2>1
  <2>3. \E j \in 1 .. Len(file.objs) : t.wm[b][i].gen = file.objs[j].gen
    BY <1>10, <1>19, <2>2 DEF ReadSound, NumbersRead
  <2>4. PICK j \in 1 .. Len(file.objs) :
          file.objs[j].id \in DOMAIN t.trans /\ t.wm[b][i].id = t.trans[file.objs[j].id]
    BY <1>10, <1>19, <2>2 DEF ReadSound, OldOrRead
  <2>5. nextId <= t.wm[b][i].id
    BY <1>11, <2>4 DEF Fresh
  <2>. QED
    BY <2>1, <2>3, <2>5
<1>21. Refracts'
  <2>1. file' = file /\ wm' = t.wm /\ Rules[eb'] = Rules[eb] /\ last'.accepted = t.status
    BY <1>4
  <2>2. Known(file.refs, Len(file.refs))' = Known(file.refs, Len(file.refs))
    BY <1>4 DEF Known
  <2>. SUFFICES ASSUME NEW r \in Rule, NEW b \in Visibly, NEW i \in DOMAIN t.wm[b]
                PROVE  [rule |-> r, id |-> t.wm[b][i].id, tag |-> t.wm[b][i].tag] \in refset' <=>
                         /\ t.status
                         /\ \E n \in Known(file.refs, Len(file.refs)) :
                              /\ file.refs[n].rule = r
                              /\ t.wm[b][i].id = last'.trans[file.refs[n].id]
    BY <1>19, <2>1, <2>2 DEF Refracts
  <2>. DEFINE o == t.wm[b][i]
              it == [rule |-> r, id |-> o.id, tag |-> o.tag]
  <2>3. CASE ~t.status
    <3>1. refset' = refset /\ it.id = o.id
      BY <1>4, <2>3
    <3>2. it \notin refset
      BY <1>5, <1>20, <3>1
    <3>. QED
      BY <2>3, <3>1, <3>2
  <2>4. CASE t.status
    <3>1. refset' = u.refset /\ last'.trans = u.trans
      BY <1>4, <2>4
    <3>2. \A n \in Known(file.refs, Len(file.refs)) : Marked(file.refs[n], u.trans, t.wm) \in u.refset
      BY <1>12, <1>13 DEF EntrySound
    <3>3. \A x \in u.refset : \E n \in Known(file.refs, Len(file.refs)) :
            x = Marked(file.refs[n], u.trans, t.wm)
      BY <1>12, <1>13 DEF EntrySound
    <3>4. Tag(t.wm, o.id) = o.tag
      BY <1>11, <1>19, TagIs
    <3>5. ASSUME it \in u.refset
          PROVE  \E n \in Known(file.refs, Len(file.refs)) :
                   file.refs[n].rule = r /\ o.id = u.trans[file.refs[n].id]
      <4>1. PICK n \in Known(file.refs, Len(file.refs)) : it = Marked(file.refs[n], u.trans, t.wm)
        BY <3>3, <3>5
      <4>. QED
        BY <4>1 DEF Marked
    <3>6. ASSUME NEW n \in Known(file.refs, Len(file.refs)),
                 file.refs[n].rule = r, o.id = u.trans[file.refs[n].id]
          PROVE  it \in u.refset
      <4>1. Marked(file.refs[n], u.trans, t.wm) = it
        BY <3>4, <3>6 DEF Marked
      <4>. QED
        BY <3>2, <4>1
    <3>. QED
      BY <2>4, <3>1, <3>5, <3>6
  <2>. QED
    BY <2>3, <2>4
<1>22. ASSUME whole PROVE Restored'
  <2>1. /\ t.status /\ u.status /\ last'.trans = u.trans /\ refset' = u.refset
        /\ gen' = file.gen /\ wm' = t.wm /\ eb' = eb /\ file' = file /\ atSave' = atSave
    BY <1>4, <1>22 DEF whole
  <2>2. \A b \in Visibly' : \A i \in DOMAIN wm'[b] :
          \E j \in DOMAIN file'.objs : wm'[b][i].gen = file'.objs[j].gen
    BY <1>5, <1>19, <1>20, <2>1
  <2>3. ASSUME NEW x \in atSave
        PROVE  x.id \in DOMAIN u.trans /\ Marked(x, u.trans, t.wm) \in u.refset
    <3>1. PICK i \in DOMAIN file.refs : x = file.refs[i]
      BY <1>5 DEF FileSound
    <3>2. /\ DOMAIN file.refs = 1 .. Len(file.refs) /\ Len(file.refs) \in Nat
          /\ \A j \in 1 .. Len(file.refs) : file.refs[j].rule \in Rules[eb]
      BY <1>5, <1>12, <2>1 DEF EntrySound
    <3>3. i \in Known(file.refs, Len(file.refs))
      BY <3>1, <3>2 DEF Known
    <3>. QED
      BY <1>12, <1>13, <3>1, <3>3 DEF EntrySound
  <2>4. \A x \in atSave' : x.id \in DOMAIN last'.trans /\ Marked(x, last'.trans, wm') \in refset'
    BY <2>1, <2>3
  <2>. QED
    BY <2>1, <2>2, <2>4 DEF Restored, Marked, Tag, State!TagOf
<1>23. last'.whole = whole
  BY <1>4
<1>. QED
  BY <1>15, <1>16, <1>17, <1>18, <1>21, <1>22, <1>23 DEF SaveInv

LEMMA SaveInductive == SaveInv /\ [State!Next]_(State!vars) => SaveInv'
<1>. SUFFICES ASSUME SaveInv, [State!Next]_(State!vars) PROVE SaveInv'
  OBVIOUS
<1>1. CASE \E b \in Block, ref \in State!Ids \cup {State!NoId}, g \in BOOLEAN : State!Make(b, ref, g)
  BY <1>1, MakeKeeps
<1>2. CASE \E b \in Block, i \in 1 .. MaxObjects : State!Modify(b, i) \/ State!Destroy(b, i)
  BY <1>2, ModifyKeeps, DestroyKeeps
<1>3. CASE \E r \in Rule, o \in State!Objects : State!Fire(r, o)
  BY <1>3, FireKeeps
<1>4. CASE \E e \in EntryBlock : State!Call(e) \/ State!Restart(e) \/ State!SaveCrashes(e)
  BY <1>4, CallKeeps, RestartKeeps, SaveCrashesKeeps
<1>6. CASE State!Save
  BY <1>6, SaveKeeps
<1>7. CASE State!AddState
  BY <1>7, AddKeeps
<1>8. CASE State!RestoreState
  BY <1>8, RestoreKeeps
<1>9. CASE UNCHANGED State!vars
  <2>1. UNCHANGED <<eb, wm, refset, nextId, clock, gen, file, saves, atSave, last>>
    BY <1>9 DEF State!vars
  <2>2. StateType' /\ IdsSound' /\ FileSound'
    BY <2>1 DEF SaveInv, StateType, IdsSound, IdsApart, IdsBelow, FileSound
  <2>3. Visibly' = Visibly
    BY <2>1 DEF Visibly
  <2>4. /\ ReadBack => ReadBack'
        /\ Refracts => Refracts'
        /\ Restored => Restored'
    <3>1. Known(file.refs, Len(file.refs))' = Known(file.refs, Len(file.refs))
      BY <2>1 DEF Known
    <3>2. ReadBack => ReadBack'
      BY <2>1, <2>3 DEF ReadBack
    <3>3. Refracts => Refracts'
      BY <2>1, <2>3, <3>1 DEF Refracts
    <3>4. Restored => Restored'
      BY <2>1, <2>3 DEF Restored
    <3>. QED
      BY <3>2, <3>3, <3>4
  <2>. QED
    BY <2>1, <2>2, <2>4 DEF SaveInv
<1>. QED
  BY <1>1, <1>2, <1>3, <1>4, <1>6, <1>7, <1>8, <1>9 DEF State!Next

LEMMA RestoresMemory == SaveInv => MemoryRestored
<1>. SUFFICES ASSUME SaveInv PROVE State!MemoryRestored /\ State!IdsDistinct
  BY DEF MemoryRestored
<1>1. /\ wm \in Memory /\ IdsApart(wm) /\ IdsBelow(wm, nextId)
      /\ \A x \in refset : x.id < nextId
  BY DEF SaveInv, StateType, IdsSound
<1>2. State!IdsDistinct
  BY <1>1, ObjectsAre DEF State!IdsDistinct, IdsApart, IdsBelow
<1>3. \A k, b : State!CountInFile(k, b) = Count(file.objs, k, b)
  BY DEF State!CountInFile, Count, State!Cardinality, Cardinality
<1>4. State!MemoryRestored
  <2>. DEFINE Back(i) == LET o == file.objs[i]
                             now == wm[o.block][last.before[o.block] + State!CountInFile(i, o.block)]
                         IN  /\ now.id = last.trans[o.id]
                             /\ now.ref = last.trans[o.ref]
                             /\ now.gen = o.gen
                             /\ o.ref = State!NoId => now.ref \notin State!Ids
  <2>. SUFFICES ASSUME last.read
                PROVE  /\ State!IsInjective(last.trans)
                       /\ \A b \in State!Range(Sees[eb]) :
                            Len(wm[b]) = last.before[b] + State!CountInFile(Len(file.objs), b)
                       /\ \A i \in DOMAIN file.objs :
                            file.objs[i].block \in State!Range(Sees[eb]) => Back(i)
    BY DEF State!MemoryRestored
  <2>1. ReadBack
    BY DEF SaveInv
  <2>2. State!IsInjective(last.trans)
    BY <2>1 DEF ReadBack, State!IsInjective
  <2>3. \A b \in State!Range(Sees[eb]) :
          Len(wm[b]) = last.before[b] + State!CountInFile(Len(file.objs), b)
    BY <1>3, <2>1, SameOperators DEF ReadBack, Visibly
  <2>4. ASSUME NEW i \in DOMAIN file.objs, file.objs[i].block \in State!Range(Sees[eb])
        PROVE  Back(i)
    <3>. DEFINE o == file.objs[i]
                now == wm[o.block][last.before[o.block] + State!CountInFile(i, o.block)]
    <3>1. o.block \in Visibly
      BY <2>4, SameOperators DEF Visibly
    <3>2. Translates(last.trans, o, now)
      BY <1>3, <2>1, <3>1 DEF ReadBack
    <3>3. ASSUME o.ref = 0 PROVE now.ref \notin State!Ids
      <4>1. 0 \in DOMAIN last.trans /\ now.ref = last.trans[0]
        BY <3>2, <3>3 DEF Translates
      <4>2. \A b \in Block : \A k \in DOMAIN wm[b] : wm[b][k].id # last.trans[0]
        BY <2>1, <4>1 DEF ReadBack
      <4>3. \A x \in State!Objects : x.id # last.trans[0]
        <5>1. SUFFICES ASSUME NEW x \in State!Objects PROVE x.id # last.trans[0]
          OBVIOUS
        <5>2. \E b \in Block : \E k \in DOMAIN wm[b] : x = wm[b][k]
          BY ObjectsAre
        <5>. QED
          BY <4>2, <5>2
      <4>. QED
        BY <4>1, <4>3 DEF State!Ids
    <3>. QED
      BY <3>2, <3>3 DEF Translates, State!NoId
  <2>. QED
    BY <2>2, <2>3, <2>4
<1>. QED
  BY <1>2, <1>4

LEMMA RestoresFired == SaveInv => FiredStaysFired
<1>. SUFFICES ASSUME SaveInv PROVE State!FiredStaysFired
  BY DEF FiredStaysFired
<1>1. wm \in Memory /\ IdsApart(wm) /\ Visibly \subseteq Block
  BY Seen DEF SaveInv, StateType, IdsSound
<1>2. ASSUME last.whole, NEW x \in atSave, NEW o \in State!Visible, o.id = last.trans[x.id]
      PROVE  State!Refracted(x.rule, o)
  <2>1. Marked(x, last.trans, wm) \in refset
    BY <1>2 DEF SaveInv, Restored
  <2>2. PICK b \in Block : \E i \in DOMAIN wm[b] : o = wm[b][i]
    BY <1>1, <1>2, ObjectsAre
  <2>3. Tag(wm, last.trans[x.id]) = o.tag
    BY <1>1, <1>2, <2>2, TagIs
  <2>. QED
    BY <1>2, <2>1, <2>3 DEF Marked, State!Refracted
<1>3. State!EntriesRead = Known(file.refs, Len(file.refs))
  <2>1. DOMAIN file.refs = 1 .. Len(file.refs)
    BY DEF SaveInv, StateType
  <2>. QED
    BY <2>1 DEF State!EntriesRead, Known
<1>4. ASSUME last.cleared, NEW r \in Rule, NEW o \in State!Visible
      PROVE  State!Refracted(r, o) <=>
               /\ last.accepted
               /\ \E i \in State!EntriesRead :
                    file.refs[i].rule = r /\ o.id = last.trans[file.refs[i].id]
  <2>1. PICK b \in Visibly : \E i \in DOMAIN wm[b] : o = wm[b][i]
    BY <1>4, ObjectsAre
  <2>2. Refracts
    BY <1>4 DEF SaveInv
  <2>. QED
    BY <1>3, <2>1, <2>2 DEF Refracts, State!Refracted
<1>. QED
  BY <1>2, <1>4 DEF State!FiredStaysFired

LEMMA RestoresNumbers == SaveInv => GeneratedFreshUnlessAdded
<1>. SUFFICES ASSUME SaveInv, last.whole,
                     \A i \in DOMAIN file.objs : file.objs[i].gen <= file.gen,
                     NEW o \in State!Visible
              PROVE  o.gen <= gen
  BY DEF GeneratedFreshUnlessAdded, State!GeneratedFreshUnlessAdded
<1>1. Restored
  BY DEF SaveInv
<1>2. PICK b \in Visibly : \E i \in DOMAIN wm[b] : o = wm[b][i]
  BY ObjectsAre
<1>3. PICK j \in DOMAIN file.objs : o.gen = file.objs[j].gen
  BY <1>1, <1>2 DEF Restored
<1>. QED
  BY <1>1, <1>3 DEF Restored

-----------------------------------------------------------------------------
LEMMA SavingThroughout == MCSpec => []SaveInv
<1>. DEFINE MCNext == Saves \/ Looks \/ Stores
<1>1. MCInit => SaveInv
  BY SaveInit DEF MCInit
<1>2. [MCNext]_mcVars => [State!Next]_(State!vars)
  BY DEF Saves, Looks, Stores, mcVars, saveVars, State!vars
<1>. HIDE DEF MCNext
<1>3. SaveInv /\ [MCNext]_mcVars => SaveInv'
  BY <1>2, SaveInductive
<1>4. MCSpec => MCInit /\ [][MCNext]_mcVars
  BY DEF MCSpec, MCNext
<1>. QED
  BY <1>1, <1>3, <1>4, PTL

\* After ADDSTATE or RESTORESTATE, of a whole file or of one that a crash cut, each visible
\* block has the objects of the file behind those it had, in their order, and they refer to
\* the objects they referred to, whatever ids the file names before it has their objects;
\* what referred to nothing refers to no object, and no id is given twice (cb_com.c,
\* states.c).
THEOREM RestoresMemoryThroughout == MCSpec => []MemoryRestored
BY SavingThroughout, RestoresMemory, PTL

\* What had fired when the state was saved does not fire again after the file was read,
\* though the objects have other ids and other time tags by then; of a file that is cut, or
\* has an unknown rule, just the entries before that do not; and if an object was refused,
\* everything can fire, though the old refraction set is kept (ref.c, states.c).
THEOREM RestoresFiredThroughout == MCSpec => []FiredStaysFired
BY SavingThroughout, RestoresFired, PTL

\* No restored object holds a number that is still to be generated, if none of the file
\* was above the file's own counter (states.c).
THEOREM RestoresNumbersThroughout == MCSpec => []GeneratedFreshUnlessAdded
BY SavingThroughout, RestoresNumbers, PTL
=============================================================================
