-------------------------- MODULE RecognizeActProofs --------------------------
(***************************************************************************)
(* Proofs about RecognizeAct, for any rules, ruling blocks, entry blocks,  *)
(* objects and bounds.  First of every program: a cache never outlives its *)
(* refraction set and every flag is initialized when it is read.  Then of  *)
(* programs whose runs are disjoint: flags match the cache, a winner stays *)
(* in its conflict set, and no instantiation fires twice in a run.         *)
(***************************************************************************)
EXTENDS MCRecognizeAct, FiniteSetTheorems, SequenceTheorems,
        WellFoundedInduction, TLAPS

CacheType == RefSets \cup {NoRefSet, InvalidCache}
ConflictSet ==
  [uses : Int, cached : CacheType,
   refracted : UNION {[D -> BOOLEAN \cup {Garbage}] : D \in SUBSET Cse}]
Run ==
  [eb : EntryBlocks, rs : RefSets, pc : RunsCode \cup {"recognize", "undefined"},
   win : Cse \cup {NoWinner}, winFreed : BOOLEAN, fired : SUBSET Cse,
   count : Nat, after : Nat]

\* The constants that stand for addresses and for no value are no values.
Distinct ==
  /\ NoRefSet \notin RefSets /\ InvalidCache \notin RefSets /\ NoRefSet # InvalidCache
  /\ Free \notin SUBSET Cse /\ NoWinner \notin Cse
  /\ Absent \notin Object /\ Unregistered \notin ConflictSet

EntriesOf(rb) == {e \in Cse : Block[e.rule] = rb}
Users(rb) == {k \in DOMAIN runs : rb \in Blocks(runs[k])}

Types ==
  /\ clock \in 0 .. MaxTag
  /\ wm \in [Ids -> Object \cup {Absent}]
  /\ css \in [RulingBlocks -> ConflictSet \cup {Unregistered}]
  /\ refsets \in [RefSets -> (SUBSET Cse) \cup {Free}]
  /\ runs \in Seq(Run)

\* A conflict set holds instantiations of its own rules.
OwnEntries ==
  \A rb \in RulingBlocks : Registered(rb) => DOMAIN css[rb].refracted \subseteq EntriesOf(rb)

\* Each run has a refraction set of its own.
RunsOwn ==
  \A j, k \in DOMAIN runs :
    refsets[runs[k].rs] # Free /\ (runs[j].rs = runs[k].rs => j = k)

\* The use count of a ruling block is the number of runs that activate it.
UsesExact ==
  \A rb \in RulingBlocks :
    /\ Registered(rb) => css[rb].uses = Cardinality(Users(rb))
    /\ Users(rb) # {} => Registered(rb)

\* A run between resolution and refraction fires an entry of one of its blocks.
WinnersOwn ==
  \A k \in DOMAIN runs :
    runs[k].pc = "rhs" =>
      /\ runs[k].win \in Cse
      /\ Block[runs[k].win.rule] \in Blocks(runs[k])

Inv ==
  Types /\ OwnEntries /\ RunsOwn /\ UsesExact /\ WinnersOwn /\ CacheLive /\ FlagsInitialized

-----------------------------------------------------------------------------
(* Conflict sets.                                                          *)

LEMMA ConflictSetFields ==
  ASSUME NEW c \in ConflictSet
  PROVE  /\ c = [uses |-> c.uses, cached |-> c.cached, refracted |-> c.refracted]
         /\ c.uses \in Int /\ c.cached \in CacheType
         /\ DOMAIN c.refracted \in SUBSET Cse
         /\ c.refracted \in [DOMAIN c.refracted -> BOOLEAN \cup {Garbage}]
<1>1. /\ c = [uses |-> c.uses, cached |-> c.cached, refracted |-> c.refracted]
      /\ c.uses \in Int /\ c.cached \in CacheType
      /\ c.refracted \in UNION {[D -> BOOLEAN \cup {Garbage}] : D \in SUBSET Cse}
  BY DEF ConflictSet
<1>2. PICK D \in SUBSET Cse : c.refracted \in [D -> BOOLEAN \cup {Garbage}]
  BY <1>1
<1>3. DOMAIN c.refracted = D
  BY <1>2
<1>. QED
  BY <1>1, <1>2, <1>3

LEMMA ConflictSetMade ==
  ASSUME NEW u \in Int, NEW a \in CacheType, NEW D \in SUBSET Cse,
         NEW f \in [D -> BOOLEAN \cup {Garbage}]
  PROVE  [uses |-> u, cached |-> a, refracted |-> f] \in ConflictSet
BY DEF ConflictSet

\* Working memory gives a conflict set instantiations of its own rules.
LEMMA InstantiationsType ==
  ASSUME Types, NEW rb \in RulingBlocks
  PROVE  Instantiations(rb) \subseteq EntriesOf(rb)
<1>. SUFFICES ASSUME NEW r \in Rules, Block[r] = rb, NEW ids \in Tuples(r), Satisfied(r, ids)
              PROVE  [rule |-> r, ids |-> ids, tags |-> [k \in DOMAIN ids |-> wm[ids[k]].tag]]
                       \in EntriesOf(rb)
  BY DEF Instantiations
<1>1. ids \in [1 .. Len(Wants[r]) -> Ids] /\ DOMAIN ids = 1 .. Len(Wants[r])
  BY DEF Tuples
<1>2. \A k \in DOMAIN ids : wm[ids[k]] \in Object
  BY <1>1 DEF Satisfied, Types
<1>3. [k \in DOMAIN ids |-> wm[ids[k]].tag] \in [1 .. Len(Wants[r]) -> 1 .. MaxTag]
  BY <1>1, <1>2 DEF Object
<1>. QED
  BY <1>1, <1>3 DEF EntriesOf, Cse, Tuples

\* Propagation replaces the entries and leaves uses and cache alone.
LEMMA UpdateProperties ==
  ASSUME Distinct, Types, OwnEntries, CacheLive, NEW rb \in RulingBlocks, Registered(rb)
  PROVE  LET c == UpdateMatchNetwork(rb)
         IN  /\ c \in ConflictSet
             /\ c.uses = css[rb].uses /\ c.cached = css[rb].cached
             /\ DOMAIN c.refracted = Instantiations(rb)
             /\ \A e \in Instantiations(rb) :
                  c.refracted[e] = IF e \in DOMAIN css[rb].refracted
                                   THEN css[rb].refracted[e]
                                   ELSE MadeFlag(css[rb].cached, e)
<1>. DEFINE b == css[rb]
            f == [e \in Instantiations(rb) |->
                    IF e \in DOMAIN b.refracted THEN b.refracted[e]
                    ELSE MadeFlag(b.cached, e)]
<1>1. b \in ConflictSet
  BY DEF Types, Registered
<1>2. /\ b = [uses |-> b.uses, cached |-> b.cached, refracted |-> b.refracted]
      /\ b.uses \in Int /\ b.cached \in CacheType
      /\ b.refracted \in [DOMAIN b.refracted -> BOOLEAN \cup {Garbage}]
  BY <1>1, ConflictSetFields
<1>3. UpdateMatchNetwork(rb) = [uses |-> b.uses, cached |-> b.cached, refracted |-> f]
  BY <1>2 DEF UpdateMatchNetwork
<1>4. \A e : MadeFlag(b.cached, e) \in BOOLEAN \cup {Garbage}
  BY DEF MadeFlag
<1>5. f \in [Instantiations(rb) -> BOOLEAN \cup {Garbage}]
  BY <1>2, <1>4
<1>6. Instantiations(rb) \in SUBSET Cse
  BY InstantiationsType DEF EntriesOf
<1>. HIDE DEF b, f
<1>7. [uses |-> b.uses, cached |-> b.cached, refracted |-> f] \in ConflictSet
  BY <1>2, <1>5, <1>6, ConflictSetMade
<1>8. \A e \in Instantiations(rb) :
        f[e] = IF e \in DOMAIN b.refracted THEN b.refracted[e] ELSE MadeFlag(b.cached, e)
  BY DEF f
<1>9. DOMAIN f = Instantiations(rb)
  BY DEF f
<1>. QED
  BY <1>3, <1>7, <1>8, <1>9 DEF b

\* Recomputing the flags.
LEMMA ResetProperties ==
  ASSUME NEW c \in ConflictSet, NEW rs \in RefSets
  PROVE  LET d == ResetCseRefractions(c, rs)
         IN  /\ d \in ConflictSet
             /\ d.uses = c.uses /\ d.cached = c.cached
             /\ DOMAIN d.refracted = DOMAIN c.refracted
             /\ \A e \in DOMAIN c.refracted : d.refracted[e] = (e \in refsets[rs])
<1>. DEFINE f == [e \in DOMAIN c.refracted |-> e \in refsets[rs]]
<1>1. /\ c = [uses |-> c.uses, cached |-> c.cached, refracted |-> c.refracted]
      /\ c.uses \in Int /\ c.cached \in CacheType /\ DOMAIN c.refracted \in SUBSET Cse
  BY ConflictSetFields
<1>2. ResetCseRefractions(c, rs) = [uses |-> c.uses, cached |-> c.cached, refracted |-> f]
  BY <1>1 DEF ResetCseRefractions
<1>3. f \in [DOMAIN c.refracted -> BOOLEAN \cup {Garbage}]
  OBVIOUS
<1>4. DOMAIN f = DOMAIN c.refracted
      /\ \A e \in DOMAIN c.refracted : f[e] = (e \in refsets[rs])
  OBVIOUS
<1>. HIDE DEF f
<1>5. [uses |-> c.uses, cached |-> c.cached, refracted |-> f] \in ConflictSet
  BY <1>1, <1>3, ConflictSetMade
<1>. QED
  BY <1>2, <1>4, <1>5

LEMMA CachedProperties ==
  ASSUME NEW c \in ConflictSet, NEW rs \in RefSets
  PROVE  LET d == [c EXCEPT !.cached = rs]
         IN  /\ d \in ConflictSet
             /\ d.uses = c.uses /\ d.cached = rs /\ d.refracted = c.refracted
<1>1. /\ c = [uses |-> c.uses, cached |-> c.cached, refracted |-> c.refracted]
      /\ c.uses \in Int /\ DOMAIN c.refracted \in SUBSET Cse
      /\ c.refracted \in [DOMAIN c.refracted -> BOOLEAN \cup {Garbage}]
  BY ConflictSetFields
<1>2. [c EXCEPT !.cached = rs] = [uses |-> c.uses, cached |-> rs, refracted |-> c.refracted]
  BY <1>1
<1>3. rs \in CacheType
  BY DEF CacheType
<1>. QED
  BY <1>1, <1>2, <1>3, ConflictSetMade

\* What the search for a winner does to the cache: an empty one is claimed, and
\* the flags are recomputed if it is another's, whose name stays.
LEMMA CheckCacheProperties ==
  ASSUME NEW c \in ConflictSet, NEW rs \in RefSets
  PROVE  LET d == CheckCache(c, rs)
         IN  /\ d \in ConflictSet /\ d.uses = c.uses
             /\ DOMAIN d.refracted = DOMAIN c.refracted
             /\ d.cached = IF c.cached = NoRefSet THEN rs ELSE c.cached
             /\ c.cached \in {NoRefSet, rs} => d.refracted = c.refracted
             /\ c.cached \notin {NoRefSet, rs} =>
                  \A e \in DOMAIN c.refracted : d.refracted[e] = (e \in refsets[rs])
<1>1. CASE c.cached = NoRefSet
  BY <1>1, CachedProperties DEF CheckCache
<1>2. CASE c.cached # NoRefSet /\ c.cached # rs
  BY <1>2, ResetProperties DEF CheckCache
<1>3. CASE c.cached = rs /\ rs # NoRefSet
  BY <1>3 DEF CheckCache
<1>. QED
  BY <1>1, <1>2, <1>3

\* Refracting a winner claims the cache, with the flags of the run.
Refracts(d, c, w, rs) ==
  /\ d \in ConflictSet /\ d.uses = c.uses
  /\ DOMAIN d.refracted = DOMAIN c.refracted
  /\ d.cached = rs
  /\ \A e \in DOMAIN c.refracted :
       d.refracted[e] = IF e = w THEN TRUE
                        ELSE IF c.cached \in {rs, NoRefSet} THEN c.refracted[e]
                        ELSE e \in refsets[rs]

LEMMA RefractProperties ==
  ASSUME NEW c \in ConflictSet, NEW rs \in RefSets, NEW w \in Cse
  PROVE  Refracts(Refract(c, w, rs), c, w, rs)
<1>. DEFINE reset == IF c.cached # NoRefSet THEN ResetCseRefractions(c, rs) ELSE c
            b == IF c.cached = rs THEN c ELSE [reset EXCEPT !.cached = rs]
<1>1. /\ reset \in ConflictSet /\ reset.uses = c.uses
      /\ DOMAIN reset.refracted = DOMAIN c.refracted
      /\ \A e \in DOMAIN c.refracted :
           reset.refracted[e] = IF c.cached = NoRefSet THEN c.refracted[e] ELSE e \in refsets[rs]
  BY ResetProperties
<1>. HIDE DEF reset
<1>2. /\ b \in ConflictSet /\ b.uses = c.uses /\ b.cached = rs
      /\ DOMAIN b.refracted = DOMAIN c.refracted
      /\ \A e \in DOMAIN c.refracted :
           b.refracted[e] = IF c.cached \in {rs, NoRefSet} THEN c.refracted[e]
                            ELSE e \in refsets[rs]
  <2>1. CASE c.cached = rs
    BY <2>1
  <2>2. CASE c.cached # rs
    BY <2>2, <1>1, CachedProperties
  <2>. QED
    BY <2>1, <2>2
<1>3. Refract(c, w, rs) = [b EXCEPT !.refracted[w] = TRUE]
  BY DEF Refract, reset
<1>. HIDE DEF b
<1>4. /\ b = [uses |-> b.uses, cached |-> b.cached, refracted |-> b.refracted]
      /\ b.uses \in Int /\ b.cached \in CacheType /\ DOMAIN b.refracted \in SUBSET Cse
      /\ b.refracted \in [DOMAIN b.refracted -> BOOLEAN \cup {Garbage}]
  BY <1>2, ConflictSetFields
<1>. DEFINE f == [b.refracted EXCEPT ![w] = TRUE]
<1>5. Refract(c, w, rs) = [uses |-> b.uses, cached |-> b.cached, refracted |-> f]
  BY <1>3, <1>4
<1>6. /\ f \in [DOMAIN b.refracted -> BOOLEAN \cup {Garbage}]
      /\ DOMAIN f = DOMAIN b.refracted
      /\ \A e \in DOMAIN b.refracted : f[e] = IF e = w THEN TRUE ELSE b.refracted[e]
  BY <1>4
<1>. HIDE DEF f
<1>7. [uses |-> b.uses, cached |-> b.cached, refracted |-> f] \in ConflictSet
  BY <1>4, <1>6, ConflictSetMade
<1>8. \A e \in DOMAIN c.refracted :
        f[e] = IF e = w THEN TRUE
               ELSE IF c.cached \in {rs, NoRefSet} THEN c.refracted[e]
               ELSE e \in refsets[rs]
  BY <1>2, <1>6
<1>. DEFINE d == Refract(c, w, rs)
<1>9. d \in ConflictSet /\ d.uses = b.uses /\ d.cached = b.cached /\ d.refracted = f
  BY <1>5, <1>7
<1>. HIDE DEF d
<1>. QED
  BY <1>2, <1>6, <1>8, <1>9 DEF d, Refracts

\* After a run has looked for its winner in a conflict set, its entries are the
\* instantiations of working memory, and every flag is initialized.
LEMMA AfterUpdateProperties ==
  ASSUME Distinct, Inv, NEW rb \in RulingBlocks, Registered(rb), NEW rs \in RefSets
  PROVE  LET d == CheckCache(UpdateMatchNetwork(rb), rs)
         IN  /\ d \in ConflictSet
             /\ d.uses = css[rb].uses
             /\ d.cached = IF css[rb].cached = NoRefSet THEN rs ELSE css[rb].cached
             /\ DOMAIN d.refracted = Instantiations(rb)
             /\ \A e \in Instantiations(rb) :
                  d.refracted[e] = IF css[rb].cached \in {NoRefSet, rs}
                                   THEN IF e \in DOMAIN css[rb].refracted
                                        THEN css[rb].refracted[e]
                                        ELSE css[rb].cached = rs /\ e \in refsets[rs]
                                   ELSE e \in refsets[rs]
             /\ \A e \in DOMAIN d.refracted : d.refracted[e] \in BOOLEAN
<1>. DEFINE b == css[rb]
            c == UpdateMatchNetwork(rb)
            d == CheckCache(c, rs)
<1>1. /\ c \in ConflictSet /\ c.uses = b.uses /\ c.cached = b.cached
      /\ DOMAIN c.refracted = Instantiations(rb)
      /\ \A e \in Instantiations(rb) :
           c.refracted[e] = IF e \in DOMAIN b.refracted THEN b.refracted[e]
                            ELSE MadeFlag(b.cached, e)
  BY UpdateProperties DEF Inv
<1>. HIDE DEF c
<1>2. /\ d \in ConflictSet /\ d.uses = c.uses /\ DOMAIN d.refracted = DOMAIN c.refracted
      /\ d.cached = IF c.cached = NoRefSet THEN rs ELSE c.cached
      /\ c.cached \in {NoRefSet, rs} => d.refracted = c.refracted
      /\ c.cached \notin {NoRefSet, rs} =>
           \A e \in DOMAIN c.refracted : d.refracted[e] = (e \in refsets[rs])
  BY <1>1, CheckCacheProperties
<1>. HIDE DEF d
<1>3. ASSUME b.cached \in {NoRefSet, rs}, NEW e
      PROVE  MadeFlag(b.cached, e) = (b.cached = rs /\ e \in refsets[rs])
  <2>1. CASE b.cached = NoRefSet
    <3>1. b.cached # InvalidCache /\ ~(b.cached = rs /\ e \in refsets[rs])
      BY <2>1 DEF Distinct
    <3>2. MadeFlag(b.cached, e) = FALSE
      BY <2>1, <3>1 DEF MadeFlag
    <3>. QED
      BY <3>1, <3>2
  <2>2. CASE b.cached = rs
    <3>1. b.cached # InvalidCache /\ b.cached # NoRefSet
      BY <2>2 DEF Distinct
    <3>2. MadeFlag(b.cached, e) = (e \in refsets[rs])
      BY <2>2, <3>1 DEF MadeFlag
    <3>. QED
      BY <2>2, <3>2
  <2>. QED
    BY <1>3, <2>1, <2>2
<1>4. \A e \in DOMAIN b.refracted : b.refracted[e] \in BOOLEAN
  BY DEF Inv, FlagsInitialized
<1>5. ASSUME NEW e \in Instantiations(rb)
      PROVE  /\ d.refracted[e] = IF b.cached \in {NoRefSet, rs}
                                 THEN IF e \in DOMAIN b.refracted THEN b.refracted[e]
                                      ELSE b.cached = rs /\ e \in refsets[rs]
                                 ELSE e \in refsets[rs]
             /\ d.refracted[e] \in BOOLEAN
  <2>1. CASE b.cached \in {NoRefSet, rs}
    <3>1. d.refracted[e] = IF e \in DOMAIN b.refracted THEN b.refracted[e]
                           ELSE MadeFlag(b.cached, e)
      BY <2>1, <1>1, <1>2
    <3>2. MadeFlag(b.cached, e) = (b.cached = rs /\ e \in refsets[rs])
      BY <2>1, <1>3
    <3>3. CASE e \in DOMAIN b.refracted
      BY <3>1, <3>3, <2>1, <1>4
    <3>4. CASE e \notin DOMAIN b.refracted
      BY <3>1, <3>2, <3>4, <2>1
    <3>. QED
      BY <3>3, <3>4
  <2>2. CASE b.cached \notin {NoRefSet, rs}
    <3>1. e \in DOMAIN c.refracted /\ c.cached \notin {NoRefSet, rs}
      BY <2>2, <1>1
    <3>2. d.refracted[e] = (e \in refsets[rs])
      BY <3>1, <1>2
    <3>3. (e \in refsets[rs]) \in BOOLEAN
      OBVIOUS
    <3>. QED
      BY <2>2, <3>2, <3>3
  <2>. QED
    BY <2>1, <2>2
<1>. QED
  BY <1>1, <1>2, <1>5 DEF c, d

-----------------------------------------------------------------------------
(* Runs.                                                                   *)

LEMMA RunningType ==
  ASSUME Types, runs # << >>
  PROVE  /\ Len(runs) \in DOMAIN runs /\ Running \in Run
         /\ DOMAIN runs = 1 .. Len(runs) /\ Len(runs) \in Nat \ {0}
         /\ \A k \in DOMAIN runs : runs[k] \in Run
BY DEF Types, Running

LEMMA BlocksType ==
  ASSUME NEW r \in Run
  PROVE  Blocks(r) \subseteq RulingBlocks
BY BlocksAssumption DEF Run, Blocks

\* A step that keeps the runs, with their entry blocks and refraction sets.
LEMMA SameRuns ==
  ASSUME Inv, DOMAIN runs' = DOMAIN runs,
         \A k \in DOMAIN runs : runs'[k].eb = runs[k].eb /\ runs'[k].rs = runs[k].rs,
         \A k \in DOMAIN runs : refsets'[runs[k].rs] # Free
  PROVE  RunsOwn' /\ \A rb \in RulingBlocks : Users(rb)' = Users(rb)
<1>1. RunsOwn'
  BY DEF Inv, RunsOwn
<1>2. \A rb \in RulingBlocks : Users(rb)' = Users(rb)
  BY DEF Users, Blocks
<1>. QED
  BY <1>1, <1>2

LEMMA UsersFinite ==
  ASSUME Types
  PROVE  /\ IsFiniteSet(DOMAIN runs)
         /\ \A rb : IsFiniteSet(Users(rb)) /\ Cardinality(Users(rb)) \in Nat
<1>1. Len(runs) \in Nat /\ DOMAIN runs = 1 .. Len(runs)
  BY DEF Types
<1>2. IsFiniteSet(DOMAIN runs)
  BY <1>1, FS_Interval
<1>3. ASSUME NEW rb PROVE IsFiniteSet(Users(rb)) /\ Cardinality(Users(rb)) \in Nat
  <2>1. Users(rb) \subseteq DOMAIN runs
    BY DEF Users
  <2>. QED
    BY <2>1, <1>2, FS_Subset, FS_CardinalityType
<1>. QED
  BY <1>2, <1>3

\* A step of the innermost run that changes neither its refraction set nor any
\* conflict set.
LEMMA ControlStep ==
  ASSUME Inv, runs # << >>, UNCHANGED <<clock, wm, css, refsets>>, NEW r \in Run,
         r.eb = Running.eb, r.rs = Running.rs,
         r.pc = "rhs" => Running.pc = "rhs" /\ r.win = Running.win,
         runs' = [runs EXCEPT ![Len(runs)] = r]
  PROVE  Inv'
<1>1. /\ Len(runs) \in DOMAIN runs /\ DOMAIN runs = 1 .. Len(runs) /\ Len(runs) \in Nat \ {0}
      /\ Types
  BY RunningType DEF Inv
<1>2. /\ runs' \in Seq(Run) /\ DOMAIN runs' = DOMAIN runs /\ runs'[Len(runs)] = r
      /\ \A k \in DOMAIN runs : k # Len(runs) => runs'[k] = runs[k]
  BY <1>1 DEF Types
<1>3. \A k \in DOMAIN runs : runs'[k].eb = runs[k].eb /\ runs'[k].rs = runs[k].rs
  BY <1>2 DEF Running
<1>4. \A k \in DOMAIN runs : refsets'[runs[k].rs] # Free
  BY DEF Inv, RunsOwn
<1>5. RunsOwn' /\ \A rb \in RulingBlocks : Users(rb)' = Users(rb)
  BY <1>2, <1>3, <1>4, SameRuns
<1>6. Types'
  BY <1>1, <1>2 DEF Types
<1>7. OwnEntries' /\ CacheLive' /\ FlagsInitialized'
  BY DEF Inv, OwnEntries, CacheLive, FlagsInitialized, Registered
<1>8. UsesExact'
  BY <1>5 DEF Inv, UsesExact, Registered
<1>9. WinnersOwn'
  <2>. SUFFICES ASSUME NEW k \in DOMAIN runs, runs'[k].pc = "rhs"
                PROVE  /\ runs'[k].win \in Cse
                       /\ Block[runs'[k].win.rule] \in Blocks(runs'[k])
    BY <1>2 DEF WinnersOwn, Blocks
  <2>1. runs[k].pc = "rhs" /\ runs'[k].win = runs[k].win /\ runs'[k].eb = runs[k].eb
    BY <1>2, <1>3 DEF Running
  <2>. QED
    BY <2>1 DEF Inv, WinnersOwn, Blocks
<1>. QED
  BY <1>5, <1>6, <1>7, <1>8, <1>9 DEF Inv

LEMMA GotoInv ==
  ASSUME Inv, runs # << >>, UNCHANGED <<clock, wm, css, refsets>>,
         NEW p \in RunsCode \cup {"recognize", "undefined"}, p # "rhs", Goto(p)
  PROVE  Inv'
<1>. DEFINE r == [Running EXCEPT !.pc = p]
<1>1. Running \in Run
  BY RunningType DEF Inv
<1>2. r \in Run /\ r.eb = Running.eb /\ r.rs = Running.rs /\ r.pc = p
  BY <1>1 DEF Run
<1>3. runs' = [runs EXCEPT ![Len(runs)] = r]
  BY DEF Goto, Running
<1>. HIDE DEF r
<1>. QED
  BY <1>2, <1>3, ControlStep

LEMMA AfterInv ==
  ASSUME Inv, NEW n \in 1 .. MaxAfter, After(n)
  PROVE  Inv'
<1>. DEFINE r == [Running EXCEPT !.after = n]
<1>1. Running \in Run /\ runs # << >> /\ n \in Nat
  BY RunningType, BoundsAssumption DEF Inv, After
<1>2. r \in Run /\ r.eb = Running.eb /\ r.rs = Running.rs /\ r.pc = Running.pc
      /\ r.win = Running.win
  BY <1>1 DEF Run
<1>3. runs' = [runs EXCEPT ![Len(runs)] = r] /\ UNCHANGED <<clock, wm, css, refsets>>
  BY DEF After, Running
<1>. HIDE DEF r
<1>. QED
  BY <1>1, <1>2, <1>3, ControlStep

LEMMA ReturnedInv ==
  ASSUME Inv, NEW p, NEW n \in {"recognize", "catcher", "exit"}, Returned(p, n)
  PROVE  Inv'
<1>1. runs # << >> /\ UNCHANGED <<clock, wm, css, refsets>>
      /\ \E q \in {"recognize", "catcher", "exit"} : Goto(q)
  BY DEF Returned
<1>. QED
  BY <1>1, GotoInv DEF RunsCode

LEMMA InitInv == Distinct /\ Init => Inv
<1>. SUFFICES ASSUME Distinct, Init PROVE Inv
  OBVIOUS
<1>1. Types
  <2>1. clock \in 0 .. MaxTag /\ wm \in [Ids -> Object \cup {Absent}]
    BY BoundsAssumption DEF Init
  <2>2. css \in [RulingBlocks -> ConflictSet \cup {Unregistered}]
    BY DEF Init
  <2>3. refsets \in [RefSets -> (SUBSET Cse) \cup {Free}]
    BY DEF Init
  <2>4. runs \in Seq(Run)
    <3>. HIDE DEF Run
    <3>. QED
      BY DEF Init
  <2>. QED
    BY <2>1, <2>2, <2>3, <2>4 DEF Types
<1>2. \A rb \in RulingBlocks : ~Registered(rb)
  BY DEF Init, Registered
<1>3. DOMAIN runs = {}
  BY DEF Init
<1>. QED
  BY <1>1, <1>2, <1>3 DEF Inv, OwnEntries, RunsOwn, UsesExact, Users, WinnersOwn,
     CacheLive, FlagsInitialized

LEMMA ChangeInv ==
  ASSUME Inv, ChangeWM
  PROVE  Inv'
<1>1. UNCHANGED <<css, refsets, runs>>
  BY DEF ChangeWM
<1>2. clock' \in 0 .. MaxTag /\ wm' \in [Ids -> Object \cup {Absent}]
  <2>0. clock \in 0 .. MaxTag /\ wm \in [Ids -> Object \cup {Absent}] /\ MaxTag \in Nat
    BY BoundsAssumption DEF Inv, Types
  <2>1. ASSUME NEW i \in Ids, Remove(i) PROVE clock' = clock /\ wm' \in [Ids -> Object \cup {Absent}]
    BY <2>0, <2>1 DEF Remove
  <2>2. ASSUME NEW i \in Ids, NEW v \in Vals, Write(i, v)
        PROVE  clock' \in 0 .. MaxTag /\ wm' \in [Ids -> Object \cup {Absent}]
    <3>1. clock + 1 \in 1 .. MaxTag /\ clock' = clock + 1
      BY <2>0, <2>2 DEF Write, Tick
    <3>2. [tag |-> clock + 1, val |-> v] \in Object
      BY <3>1 DEF Object
    <3>. QED
      BY <2>0, <2>2, <3>1, <3>2 DEF Write, SetObject
  <2>. QED
    BY <2>0, <2>1, <2>2 DEF ChangeWM
<1>3. Types'
  BY <1>1, <1>2 DEF Inv, Types
<1>4. OwnEntries' /\ RunsOwn' /\ CacheLive' /\ FlagsInitialized'
  BY <1>1 DEF Inv, OwnEntries, RunsOwn, CacheLive, FlagsInitialized, Registered
<1>5. UsesExact' /\ WinnersOwn'
  BY <1>1 DEF Inv, UsesExact, Users, WinnersOwn, Registered, Blocks
<1>. QED
  BY <1>3, <1>4, <1>5 DEF Inv

\* The ruling blocks of a run gain a use, with the conflict set made if there
\* is none.
LEMMA RegisterProperties ==
  ASSUME Distinct, Inv, NEW rb \in RulingBlocks
  PROVE  LET d == AfterRegister(rb)
         IN  /\ d \in ConflictSet
             /\ d.uses = Cardinality(Users(rb)) + 1
             /\ DOMAIN d.refracted \subseteq EntriesOf(rb)
             /\ d.cached # NoRefSet => Registered(rb) /\ d.cached = css[rb].cached
             /\ \A e \in DOMAIN d.refracted : d.refracted[e] \in BOOLEAN
<1>. DEFINE d == AfterRegister(rb)
<1>0. Cardinality(Users(rb)) \in Nat
  BY UsersFinite DEF Inv
<1>1. CASE Registered(rb)
  <2>. DEFINE b == css[rb]
  <2>1. b \in ConflictSet /\ b.uses = Cardinality(Users(rb))
    BY <1>1 DEF Inv, Types, UsesExact, Registered
  <2>2. /\ b = [uses |-> b.uses, cached |-> b.cached, refracted |-> b.refracted]
        /\ b.uses \in Int /\ b.cached \in CacheType
        /\ DOMAIN b.refracted \in SUBSET Cse
        /\ b.refracted \in [DOMAIN b.refracted -> BOOLEAN \cup {Garbage}]
    BY <2>1, ConflictSetFields
  <2>3. d = [uses |-> b.uses + 1, cached |-> b.cached, refracted |-> b.refracted]
    BY <1>1, <2>2 DEF AfterRegister
  <2>. HIDE DEF b, d
  <2>4. d \in ConflictSet
    BY <2>2, <2>3, b.uses + 1 \in Int, ConflictSetMade
  <2>5. /\ DOMAIN b.refracted \subseteq EntriesOf(rb)
        /\ \A e \in DOMAIN b.refracted : b.refracted[e] \in BOOLEAN
    BY <1>1 DEF Inv, OwnEntries, FlagsInitialized, b
  <2>6. /\ d.uses = b.uses + 1 /\ d.cached = b.cached /\ d.refracted = b.refracted
    BY <2>3
  <2>. QED
    BY <1>1, <2>1, <2>4, <2>5, <2>6 DEF d, b
<1>2. CASE ~Registered(rb)
  <2>. DEFINE f == [e \in Instantiations(rb) |-> FALSE]
  <2>1. Users(rb) = {}
    BY <1>2 DEF Inv, UsesExact
  <2>2. Cardinality(Users(rb)) = 0
    BY <2>1, FS_EmptySet
  <2>3. d = [uses |-> 1, cached |-> NoRefSet, refracted |-> f]
    BY <1>2 DEF AfterRegister
  <2>4. Instantiations(rb) \subseteq EntriesOf(rb)
    BY InstantiationsType DEF Inv
  <2>5. Instantiations(rb) \in SUBSET Cse /\ NoRefSet \in CacheType
    BY <2>4 DEF EntriesOf, CacheType
  <2>6. /\ f \in [Instantiations(rb) -> BOOLEAN \cup {Garbage}]
        /\ DOMAIN f = Instantiations(rb)
        /\ \A e \in Instantiations(rb) : f[e] \in BOOLEAN
    OBVIOUS
  <2>. HIDE DEF f, d
  <2>7. d \in ConflictSet
    BY <2>3, <2>5, <2>6, ConflictSetMade
  <2>8. /\ d.uses = 1 /\ d.cached = NoRefSet /\ d.refracted = f
    BY <2>3
  <2>. QED
    BY <2>2, <2>4, <2>6, <2>7, <2>8 DEF d
<1>. QED
  BY <1>1, <1>2

LEMMA EnterInv ==
  ASSUME Distinct, Inv, NEW eb \in EntryBlocks, NEW a \in RefSets, EnterEntryBlock(eb, a)
  PROVE  Inv'
<1>. DEFINE r == [eb |-> eb, rs |-> a, pc |-> "entry", win |-> NoWinner, winFreed |-> FALSE,
                  fired |-> {}, count |-> 0, after |-> 0]
            n == Len(runs) + 1
<1>1. /\ refsets[a] = Free /\ refsets' = [refsets EXCEPT ![a] = {}]
      /\ css' = [rb \in RulingBlocks |->
                   IF rb \in Activates[eb] THEN AfterRegister(rb) ELSE css[rb]]
      /\ runs' = Append(runs, r) /\ UNCHANGED <<clock, wm>>
  BY DEF EnterEntryBlock
<1>2. r \in Run /\ r.eb = eb /\ r.rs = a /\ r.pc = "entry"
  BY DEF Run, RunsCode
<1>3. runs \in Seq(Run) /\ Len(runs) \in Nat /\ DOMAIN runs = 1 .. Len(runs) /\ n \notin DOMAIN runs
      /\ \A k \in DOMAIN runs : runs[k] \in Run
  BY DEF Inv, Types
<1>. HIDE DEF r
<1>4. /\ runs' \in Seq(Run) /\ DOMAIN runs' = DOMAIN runs \cup {n} /\ runs'[n] = r
      /\ \A k \in DOMAIN runs : runs'[k] = runs[k]
  BY <1>1, <1>2, <1>3
<1>. HIDE DEF n
<1>5. ASSUME NEW rb \in RulingBlocks
      PROVE  Users(rb)' = IF rb \in Activates[eb] THEN Users(rb) \cup {n} ELSE Users(rb)
  BY <1>2, <1>3, <1>4 DEF Users, Blocks
<1>6. ASSUME NEW rb \in RulingBlocks
      PROVE  Cardinality(Users(rb))' = IF rb \in Activates[eb] THEN Cardinality(Users(rb)) + 1
                                       ELSE Cardinality(Users(rb))
  <2>1. n \notin Users(rb) /\ IsFiniteSet(Users(rb))
    BY <1>3, UsersFinite DEF Users, Inv
  <2>2. Cardinality(Users(rb) \cup {n}) = Cardinality(Users(rb)) + 1
    BY <2>1, FS_AddElement
  <2>. QED
    BY <1>5, <2>2
<1>7. ASSUME NEW rb \in RulingBlocks, rb \in Activates[eb]
      PROVE  /\ css'[rb] \in ConflictSet /\ css'[rb] # Unregistered
             /\ css'[rb].uses = Cardinality(Users(rb)) + 1
             /\ DOMAIN css'[rb].refracted \subseteq EntriesOf(rb)
             /\ css'[rb].cached # NoRefSet =>
                  Registered(rb) /\ css'[rb].cached = css[rb].cached
             /\ \A e \in DOMAIN css'[rb].refracted : css'[rb].refracted[e] \in BOOLEAN
  <2>1. css'[rb] = AfterRegister(rb)
    BY <1>1, <1>7
  <2>. QED
    BY <2>1, RegisterProperties DEF Distinct
<1>8. ASSUME NEW rb \in RulingBlocks, rb \notin Activates[eb]
      PROVE  css'[rb] = css[rb]
  BY <1>1, <1>8
<1>9. refsets \in [RefSets -> (SUBSET Cse) \cup {Free}]
      /\ css \in [RulingBlocks -> ConflictSet \cup {Unregistered}]
  BY DEF Inv, Types
<1>10. /\ refsets' \in [RefSets -> (SUBSET Cse) \cup {Free}]
       /\ refsets'[a] # Free
       /\ \A b \in RefSets : refsets[b] # Free => refsets'[b] = refsets[b]
  BY <1>1, <1>9 DEF Distinct
<1>11. Types'
  <2>1. \A rb \in RulingBlocks : css'[rb] \in ConflictSet \cup {Unregistered}
    BY <1>7, <1>8, <1>9
  <2>2. css' \in [RulingBlocks -> ConflictSet \cup {Unregistered}]
    BY <2>1, <1>1
  <2>. QED
    BY <1>1, <1>4, <1>10, <2>2 DEF Inv, Types
<1>12. OwnEntries'
  BY <1>7, <1>8 DEF OwnEntries, Registered, Inv, EntriesOf
<1>13. RunsOwn'
  <2>1. \A k \in DOMAIN runs : runs[k].rs \in RefSets /\ refsets[runs[k].rs] # Free
    BY <1>3 DEF Inv, RunsOwn, Run
  <2>2. \A k \in DOMAIN runs : runs[k].rs # a
    BY <2>1, <1>1
  <2>3. \A j, k \in DOMAIN runs : runs[k].rs = runs[j].rs => j = k
    BY DEF Inv, RunsOwn
  <2>. QED
    BY <1>2, <1>4, <1>10, <2>1, <2>2, <2>3 DEF RunsOwn
<1>14. UsesExact'
  <2>. SUFFICES ASSUME NEW rb \in RulingBlocks
                PROVE  /\ Registered(rb)' => css'[rb].uses = Cardinality(Users(rb))'
                       /\ Users(rb)' # {} => Registered(rb)'
    BY DEF UsesExact
  <2>1. CASE rb \in Activates[eb]
    BY <2>1, <1>6, <1>7 DEF Registered
  <2>2. CASE rb \notin Activates[eb]
    BY <2>2, <1>5, <1>6, <1>8 DEF Registered, Inv, UsesExact
  <2>. QED
    BY <2>1, <2>2
<1>15. WinnersOwn'
  BY <1>2, <1>4 DEF WinnersOwn, Inv, Blocks
<1>16. CacheLive'
  <2>. SUFFICES ASSUME NEW rb \in RulingBlocks, Registered(rb)', css'[rb].cached \in RefSets
                PROVE  refsets'[css'[rb].cached] # Free
    BY DEF CacheLive
  <2>1. Registered(rb) /\ css'[rb].cached = css[rb].cached
    BY <1>7, <1>8 DEF Distinct, Registered
  <2>2. refsets[css[rb].cached] # Free
    BY <2>1 DEF Inv, CacheLive
  <2>. QED
    BY <2>1, <2>2, <1>10
<1>17. FlagsInitialized'
  BY <1>7, <1>8 DEF FlagsInitialized, Registered, Inv
<1>. QED
  BY <1>11, <1>12, <1>13, <1>14, <1>15, <1>16, <1>17 DEF Inv

\* What the search for a winner makes of the conflict sets.
LEMMA SearchProperties ==
  ASSUME Distinct, Inv, runs # << >>, css' = AfterUpdate(Running),
         NEW rb \in RulingBlocks, rb \in Blocks(Running)
  PROVE  /\ Registered(rb)
         /\ css'[rb] \in ConflictSet /\ css'[rb] # Unregistered
         /\ css'[rb].uses = css[rb].uses
         /\ css'[rb].cached = IF css[rb].cached = NoRefSet THEN Running.rs ELSE css[rb].cached
         /\ DOMAIN css'[rb].refracted = Instantiations(rb)
         /\ \A e \in Instantiations(rb) :
              css'[rb].refracted[e] = IF css[rb].cached \in {NoRefSet, Running.rs}
                                      THEN IF e \in DOMAIN css[rb].refracted
                                           THEN css[rb].refracted[e]
                                           ELSE css[rb].cached = Running.rs
                                                /\ e \in refsets[Running.rs]
                                      ELSE e \in refsets[Running.rs]
         /\ \A e \in DOMAIN css'[rb].refracted : css'[rb].refracted[e] \in BOOLEAN
<1>. DEFINE rs == Running.rs
            d == CheckCache(UpdateMatchNetwork(rb), rs)
<1>1. Running \in Run /\ Len(runs) \in DOMAIN runs /\ rs \in RefSets
  BY RunningType DEF Inv, Run
<1>2. Registered(rb)
  <2>1. Len(runs) \in Users(rb)
    BY <1>1 DEF Users, Running
  <2>. QED
    BY <2>1 DEF Inv, UsesExact
<1>3. css'[rb] = d
  BY DEF AfterUpdate
<1>4. /\ d \in ConflictSet
      /\ d.uses = css[rb].uses
      /\ d.cached = IF css[rb].cached = NoRefSet THEN rs ELSE css[rb].cached
      /\ DOMAIN d.refracted = Instantiations(rb)
      /\ \A e \in Instantiations(rb) :
           d.refracted[e] = IF css[rb].cached \in {NoRefSet, rs}
                            THEN IF e \in DOMAIN css[rb].refracted
                                 THEN css[rb].refracted[e]
                                 ELSE css[rb].cached = rs /\ e \in refsets[rs]
                            ELSE e \in refsets[rs]
      /\ \A e \in DOMAIN d.refracted : d.refracted[e] \in BOOLEAN
  BY <1>1, <1>2, AfterUpdateProperties
<1>. HIDE DEF d
<1>. QED
  BY <1>2, <1>3, <1>4 DEF Distinct, rs

\* What a search does to the runs.
LEMMA MarkedRuns ==
  ASSUME Distinct, Inv, Recognize
  PROVE  /\ runs # << >> /\ css' = AfterUpdate(Running)
         /\ UNCHANGED <<clock, wm, refsets>>
         /\ runs' \in Seq(Run) /\ DOMAIN runs' = DOMAIN runs
         /\ \A k \in DOMAIN runs :
              /\ runs'[k].eb = runs[k].eb /\ runs'[k].rs = runs[k].rs
              /\ runs'[k].fired = runs[k].fired
              /\ k # Len(runs) => runs'[k].pc = runs[k].pc /\ runs'[k].win = runs[k].win
              /\ runs'[k].winFreed = (runs[k].winFreed \/ runs[k].win \in Freed(css'))
              /\ k = Len(runs) => runs'[k].pc \in {"empty", "rhs"}
              /\ k = Len(runs) /\ runs'[k].pc = "empty" =>
                   Winners(css', Blocks(Running)) = {} /\ runs'[k].win = runs[k].win
              /\ k = Len(runs) /\ runs'[k].pc = "rhs" =>
                   runs'[k].win \in Winners(css', Blocks(Running))
<1>. DEFINE u == AfterUpdate(Running)
            m == [k \in DOMAIN runs |->
                    [runs[k] EXCEPT !.winFreed = @ \/ runs[k].win \in Freed(u)]]
            best == Winners(u, Blocks(Running))
<1>1. /\ runs # << >> /\ Running.pc = "recognize" /\ css' = u /\ UNCHANGED <<clock, wm, refsets>>
      /\ \/ best = {} /\ runs' = [m EXCEPT ![Len(runs)].pc = "empty"]
         \/ \E w \in best :
              runs' = [m EXCEPT ![Len(runs)].pc = "rhs",
                                ![Len(runs)].win = w,
                                ![Len(runs)].count = Capped(@)]
  BY DEF Recognize
<1>2. /\ Len(runs) \in DOMAIN runs /\ DOMAIN runs = 1 .. Len(runs) /\ Len(runs) \in Nat
      /\ runs \in Seq(Run) /\ \A k \in DOMAIN runs : runs[k] \in Run
  BY <1>1, RunningType DEF Inv, Types
<1>. HIDE DEF u, best
<1>3. ASSUME NEW k \in DOMAIN runs
      PROVE  /\ m[k] \in Run
             /\ m[k].eb = runs[k].eb /\ m[k].rs = runs[k].rs
             /\ m[k].fired = runs[k].fired
             /\ m[k].pc = runs[k].pc /\ m[k].win = runs[k].win
             /\ m[k].winFreed = (runs[k].winFreed \/ runs[k].win \in Freed(u))
  <2>1. runs[k] \in Run
    BY <1>2
  <2>2. m[k] = [runs[k] EXCEPT !.winFreed = @ \/ runs[k].win \in Freed(u)]
    OBVIOUS
  <2>3. (runs[k].winFreed \/ runs[k].win \in Freed(u)) \in BOOLEAN
    OBVIOUS
  <2>. QED
    BY <2>1, <2>2, <2>3 DEF Run
<1>4. DOMAIN m = 1 .. Len(runs) /\ m = [k \in 1 .. Len(runs) |-> m[k]]
  BY <1>2
<1>. HIDE DEF m
<1>5. m \in Seq(Run)
  <2>1. m \in [1 .. Len(runs) -> Run]
    BY <1>2, <1>3, <1>4
  <2>. QED
    BY <2>1, <1>2
<1>6. best \subseteq Cse
  <2>. SUFFICES ASSUME NEW w \in best PROVE w \in Cse
    OBVIOUS
  <2>1. PICK rb \in Blocks(Running) : w \in DOMAIN u[rb].refracted
    BY DEF best, Winners
  <2>2. rb \in RulingBlocks
    BY <1>1, RunningType, BlocksType DEF Inv
  <2>3. u[rb] \in ConflictSet
    BY <1>1, <2>1, <2>2, SearchProperties DEF u
  <2>. QED
    BY <2>1, <2>3, ConflictSetFields
<1>7. CASE best = {} /\ runs' = [m EXCEPT ![Len(runs)].pc = "empty"]
  <2>. DEFINE r == [m[Len(runs)] EXCEPT !.pc = "empty"]
  <2>1. /\ r \in Run /\ r.eb = Running.eb /\ r.rs = Running.rs /\ r.fired = Running.fired
        /\ r.pc = "empty" /\ r.win = Running.win
        /\ r.winFreed = (Running.winFreed \/ Running.win \in Freed(u))
    BY <1>2, <1>3 DEF Run, RunsCode, Running
  <2>2. runs' = [m EXCEPT ![Len(runs)] = r]
    BY <1>7
  <2>. HIDE DEF r
  <2>3. /\ runs' \in Seq(Run) /\ DOMAIN runs' = DOMAIN runs /\ runs'[Len(runs)] = r
        /\ \A k \in DOMAIN runs : k # Len(runs) => runs'[k] = m[k]
    BY <1>2, <1>4, <1>5, <2>1, <2>2
  <2>4. Winners(css', Blocks(Running)) = {}
    BY <1>1, <1>7 DEF best
  <2>5. ASSUME NEW k \in DOMAIN runs, k # Len(runs)
        PROVE  /\ runs'[k].eb = runs[k].eb /\ runs'[k].rs = runs[k].rs
               /\ runs'[k].fired = runs[k].fired
               /\ runs'[k].pc = runs[k].pc /\ runs'[k].win = runs[k].win
               /\ runs'[k].winFreed = (runs[k].winFreed \/ runs[k].win \in Freed(css'))
    BY <1>1, <1>3, <2>3, <2>5
  <2>6. /\ runs'[Len(runs)].eb = Running.eb /\ runs'[Len(runs)].rs = Running.rs
        /\ runs'[Len(runs)].fired = Running.fired
        /\ runs'[Len(runs)].pc = "empty" /\ runs'[Len(runs)].win = Running.win
        /\ runs'[Len(runs)].winFreed = (Running.winFreed \/ Running.win \in Freed(css'))
    BY <1>1, <2>1, <2>3
  <2>. QED
    BY <1>1, <2>3, <2>4, <2>5, <2>6 DEF Running, u
<1>8. CASE \E w \in best :
             runs' = [m EXCEPT ![Len(runs)].pc = "rhs",
                               ![Len(runs)].win = w,
                               ![Len(runs)].count = Capped(@)]
  <2>1. PICK w \in best :
             runs' = [m EXCEPT ![Len(runs)].pc = "rhs",
                               ![Len(runs)].win = w,
                               ![Len(runs)].count = Capped(@)]
    BY <1>8
  <2>. DEFINE q == m[Len(runs)]
              r == [q EXCEPT !.pc = "rhs", !.win = w, !.count = Capped(@)]
  <2>2. /\ q \in Run /\ q.eb = Running.eb /\ q.rs = Running.rs /\ q.fired = Running.fired
        /\ q.winFreed = (Running.winFreed \/ Running.win \in Freed(u))
        /\ w \in Cse
    BY <1>2, <1>3, <1>6 DEF Running
  <2>3. Capped(q.count) \in Nat
    BY <2>2, BoundsAssumption DEF Run, Capped
  <2>4. runs' = [m EXCEPT ![Len(runs)] = r]
    BY <2>1, <1>2, <1>4
  <2>. HIDE DEF q
  <2>5. /\ r \in Run /\ r.eb = q.eb /\ r.rs = q.rs /\ r.fired = q.fired
        /\ r.pc = "rhs" /\ r.win = w /\ r.winFreed = q.winFreed
    BY <2>2, <2>3 DEF Run, RunsCode
  <2>. HIDE DEF r
  <2>6. /\ runs' \in Seq(Run) /\ DOMAIN runs' = DOMAIN runs /\ runs'[Len(runs)] = r
        /\ \A k \in DOMAIN runs : k # Len(runs) => runs'[k] = m[k]
    BY <1>2, <1>4, <1>5, <2>5, <2>4
  <2>7. w \in Winners(css', Blocks(Running))
    BY <1>1 DEF best
  <2>8. ASSUME NEW k \in DOMAIN runs, k # Len(runs)
        PROVE  /\ runs'[k].eb = runs[k].eb /\ runs'[k].rs = runs[k].rs
               /\ runs'[k].fired = runs[k].fired
               /\ runs'[k].pc = runs[k].pc /\ runs'[k].win = runs[k].win
               /\ runs'[k].winFreed = (runs[k].winFreed \/ runs[k].win \in Freed(css'))
    BY <1>1, <1>3, <2>6, <2>8
  <2>9. /\ runs'[Len(runs)].eb = Running.eb /\ runs'[Len(runs)].rs = Running.rs
        /\ runs'[Len(runs)].fired = Running.fired
        /\ runs'[Len(runs)].pc = "rhs" /\ runs'[Len(runs)].win = w
        /\ runs'[Len(runs)].winFreed = (Running.winFreed \/ Running.win \in Freed(css'))
    BY <1>1, <2>2, <2>5, <2>6
  <2>. QED
    BY <1>1, <2>6, <2>7, <2>8, <2>9 DEF Running, u
<1>. QED
  BY <1>1, <1>7, <1>8

LEMMA RecognizeInv ==
  ASSUME Distinct, Inv, Recognize
  PROVE  Inv'
<1>1. /\ runs # << >> /\ css' = AfterUpdate(Running)
      /\ UNCHANGED <<clock, wm, refsets>>
      /\ runs' \in Seq(Run) /\ DOMAIN runs' = DOMAIN runs
      /\ \A k \in DOMAIN runs :
           /\ runs'[k].eb = runs[k].eb /\ runs'[k].rs = runs[k].rs
           /\ k # Len(runs) => runs'[k].pc = runs[k].pc /\ runs'[k].win = runs[k].win
           /\ k = Len(runs) /\ runs'[k].pc = "rhs" =>
                runs'[k].win \in Winners(css', Blocks(Running))
  BY MarkedRuns
<1>2. /\ Len(runs) \in DOMAIN runs /\ Running \in Run /\ Running.rs \in RefSets
      /\ Blocks(Running) \subseteq RulingBlocks
  BY <1>1, RunningType, BlocksType DEF Inv, Run
<1>3. ASSUME NEW rb \in Blocks(Running)
      PROVE  /\ Registered(rb)
             /\ css'[rb] \in ConflictSet /\ css'[rb] # Unregistered
             /\ css'[rb].uses = css[rb].uses
             /\ css'[rb].cached =
                  IF css[rb].cached = NoRefSet THEN Running.rs ELSE css[rb].cached
             /\ DOMAIN css'[rb].refracted = Instantiations(rb)
             /\ \A e \in DOMAIN css'[rb].refracted : css'[rb].refracted[e] \in BOOLEAN
  BY <1>1, <1>2, SearchProperties
<1>4. ASSUME NEW rb \in RulingBlocks, rb \notin Blocks(Running)
      PROVE  css'[rb] = css[rb]
  BY <1>1, <1>4 DEF AfterUpdate
<1>5. /\ css \in [RulingBlocks -> ConflictSet \cup {Unregistered}]
      /\ \A k \in DOMAIN runs : refsets[runs[k].rs] # Free
  BY DEF Inv, Types, RunsOwn
<1>6. RunsOwn' /\ \A rb \in RulingBlocks : Users(rb)' = Users(rb)
  BY <1>1, <1>5, SameRuns
<1>7. Types'
  <2>1. \A rb \in RulingBlocks : css'[rb] \in ConflictSet \cup {Unregistered}
    BY <1>3, <1>4, <1>5
  <2>2. css' \in [RulingBlocks -> ConflictSet \cup {Unregistered}]
    BY <2>1, <1>1 DEF AfterUpdate
  <2>. QED
    BY <1>1, <2>2 DEF Inv, Types
<1>8. OwnEntries'
  <2>. SUFFICES ASSUME NEW rb \in RulingBlocks, Registered(rb)'
                PROVE  DOMAIN css'[rb].refracted \subseteq EntriesOf(rb)
    BY DEF OwnEntries, EntriesOf
  <2>1. CASE rb \in Blocks(Running)
    BY <2>1, <1>3, InstantiationsType DEF Inv
  <2>2. CASE rb \notin Blocks(Running)
    BY <2>2, <1>4 DEF Inv, OwnEntries, Registered
  <2>. QED
    BY <2>1, <2>2
<1>9. UsesExact'
  <2>. SUFFICES ASSUME NEW rb \in RulingBlocks
                PROVE  /\ Registered(rb)' => css'[rb].uses = Cardinality(Users(rb))'
                       /\ Users(rb)' # {} => Registered(rb)'
    BY DEF UsesExact
  <2>1. Registered(rb)' <=> Registered(rb)
    BY <1>3, <1>4 DEF Registered
  <2>2. Registered(rb) => css'[rb].uses = css[rb].uses
    BY <1>3, <1>4
  <2>. QED
    BY <1>6, <2>1, <2>2 DEF Inv, UsesExact
<1>10. WinnersOwn'
  <2>. SUFFICES ASSUME NEW k \in DOMAIN runs, runs'[k].pc = "rhs"
                PROVE  /\ runs'[k].win \in Cse
                       /\ Block[runs'[k].win.rule] \in Blocks(runs'[k])
    BY <1>1 DEF WinnersOwn, Blocks
  <2>1. CASE k # Len(runs)
    BY <2>1, <1>1 DEF Inv, WinnersOwn, Blocks
  <2>2. CASE k = Len(runs)
    <3>1. PICK rb \in Blocks(Running) : runs'[k].win \in DOMAIN css'[rb].refracted
      BY <2>2, <1>1 DEF Winners
    <3>2. runs'[k].win \in EntriesOf(rb)
      BY <1>2, <1>3, <3>1, InstantiationsType DEF Inv
    <3>3. Blocks(runs'[k]) = Blocks(Running)
      BY <2>2, <1>1 DEF Blocks, Running
    <3>. QED
      BY <3>2, <3>3 DEF EntriesOf
  <2>. QED
    BY <2>1, <2>2
<1>11. CacheLive'
  <2>. SUFFICES ASSUME NEW rb \in RulingBlocks, Registered(rb)', css'[rb].cached \in RefSets
                PROVE  refsets'[css'[rb].cached] # Free
    BY DEF CacheLive
  <2>1. CASE css'[rb].cached = css[rb].cached /\ Registered(rb)
    BY <2>1, <1>1 DEF Inv, CacheLive
  <2>2. CASE css'[rb].cached = Running.rs
    BY <2>2, <1>1, <1>2, <1>5 DEF Running
  <2>. QED
    BY <2>1, <2>2, <1>3, <1>4 DEF Registered
<1>12. FlagsInitialized'
  BY <1>3, <1>4 DEF FlagsInitialized, Registered, Inv
<1>. QED
  BY <1>6, <1>7, <1>8, <1>9, <1>10, <1>11, <1>12 DEF Inv

\* The end of a firing, as the runs see it.
LEMMA EndedRuns ==
  ASSUME Inv, runs # << >>, Running.pc = "rhs", NEW p \in {"exit", "every"}, EndFiring(p)
  PROVE  LET r == runs'[Len(runs)]
         IN  /\ r \in Run /\ r.eb = Running.eb /\ r.rs = Running.rs /\ r.pc = p
             /\ r.win = NoWinner /\ r.winFreed = Running.winFreed
             /\ r.fired = Running.fired \cup {Running.win}
             /\ runs' = [runs EXCEPT ![Len(runs)] = r]
<1>. DEFINE r == [Running EXCEPT !.pc = p, !.win = NoWinner, !.fired = @ \cup {Running.win}]
<1>1. /\ Len(runs) \in DOMAIN runs /\ DOMAIN runs = 1 .. Len(runs) /\ Running \in Run
  BY RunningType DEF Inv
<1>2. Running.win \in Cse
  BY <1>1 DEF Inv, WinnersOwn, Running
<1>3. /\ r \in Run /\ r.eb = Running.eb /\ r.rs = Running.rs /\ r.pc = p
      /\ r.win = NoWinner /\ r.winFreed = Running.winFreed
      /\ r.fired = Running.fired \cup {Running.win}
  BY <1>1, <1>2 DEF Run, RunsCode
<1>4. runs' = [runs EXCEPT ![Len(runs)] = r]
  BY DEF EndFiring, Running
<1>. HIDE DEF r
<1>5. runs'[Len(runs)] = r
  BY <1>1, <1>4
<1>. QED
  BY <1>3, <1>4, <1>5

\* The winner is refracted in the conflict set of its ruling block, with the
\* run's refraction set in the cache.
LEMMA RefractedStep ==
  ASSUME Distinct, Inv, runs # << >>, Running.pc = "rhs", UNCHANGED <<clock, wm>>,
         EndFiring("every"),
         css' = [css EXCEPT ![Block[Running.win.rule]] = Refract(@, Running.win, Running.rs)],
         refsets' = [refsets EXCEPT ![Running.rs] = @ \cup {Running.win}]
  PROVE  Inv'
<1>. DEFINE w == Running.win
            rs == Running.rs
            b == Block[w.rule]
            r == runs'[Len(runs)]
<1>1. /\ Len(runs) \in DOMAIN runs /\ DOMAIN runs = 1 .. Len(runs) /\ Len(runs) \in Nat \ {0}
      /\ Running \in Run /\ rs \in RefSets /\ runs \in Seq(Run)
      /\ Blocks(Running) \subseteq RulingBlocks
  BY RunningType, BlocksType DEF Inv, Types, Run
<1>2. /\ r \in Run /\ r.eb = Running.eb /\ r.rs = rs /\ r.pc = "every"
      /\ runs' = [runs EXCEPT ![Len(runs)] = r]
  BY EndedRuns
<1>3. w \in Cse /\ b \in Blocks(Running) /\ b \in RulingBlocks
  BY <1>1 DEF Inv, WinnersOwn, Running
<1>4. Registered(b) /\ css[b] \in ConflictSet
  <2>1. Len(runs) \in Users(b)
    BY <1>1, <1>3 DEF Users, Running
  <2>. QED
    BY <1>3, <2>1 DEF Inv, UsesExact, Types, Registered
<1>. HIDE DEF r
<1>5. /\ runs' \in Seq(Run) /\ DOMAIN runs' = DOMAIN runs /\ runs'[Len(runs)] = r
      /\ \A k \in DOMAIN runs : k # Len(runs) => runs'[k] = runs[k]
  BY <1>1, <1>2
<1>6. \A k \in DOMAIN runs : runs'[k].eb = runs[k].eb /\ runs'[k].rs = runs[k].rs
  BY <1>2, <1>5 DEF Running
<1>7. /\ css \in [RulingBlocks -> ConflictSet \cup {Unregistered}]
      /\ refsets \in [RefSets -> (SUBSET Cse) \cup {Free}]
      /\ refsets[rs] # Free /\ refsets[rs] \in SUBSET Cse
  BY <1>1 DEF Inv, Types, RunsOwn, Running
<1>. HIDE DEF b, rs, w
<1>8. /\ refsets' \in [RefSets -> (SUBSET Cse) \cup {Free}]
      /\ \A a \in RefSets : refsets[a] # Free => refsets'[a] # Free
  <2>1. refsets' = [refsets EXCEPT ![rs] = @ \cup {w}]
    BY DEF rs, w
  <2>2. refsets[rs] \cup {w} \in SUBSET Cse /\ refsets[rs] \cup {w} # Free
    BY <1>3, <1>7 DEF Distinct
  <2>. QED
    BY <1>7, <2>1, <2>2
<1>9. \A k \in DOMAIN runs : refsets'[runs[k].rs] # Free
  BY <1>1, <1>8 DEF Inv, RunsOwn, Types, Run
<1>10. RunsOwn' /\ \A rb \in RulingBlocks : Users(rb)' = Users(rb)
  BY <1>5, <1>6, <1>9, SameRuns
<1>. DEFINE d == Refract(css[b], w, rs)
<1>11. Refracts(d, css[b], w, rs)
  BY <1>1, <1>3, <1>4, RefractProperties
<1>12. css' = [css EXCEPT ![b] = d]
  BY DEF b, rs, w
<1>. HIDE DEF d
<1>13. /\ css'[b] = d /\ d # Unregistered
       /\ \A rb \in RulingBlocks : rb # b => css'[rb] = css[rb]
       /\ css' \in [RulingBlocks -> ConflictSet \cup {Unregistered}]
  BY <1>3, <1>7, <1>11, <1>12 DEF Distinct, Refracts
<1>14. Types'
  BY <1>5, <1>8, <1>13 DEF Inv, Types
<1>15. \A rb \in RulingBlocks : Registered(rb)' <=> Registered(rb)
  BY <1>4, <1>13 DEF Registered
<1>16. OwnEntries'
  BY <1>4, <1>11, <1>13, <1>15 DEF Inv, OwnEntries, EntriesOf, Refracts
<1>17. UsesExact'
  BY <1>10, <1>11, <1>13, <1>15 DEF Inv, UsesExact, Refracts
<1>18. WinnersOwn'
  <2>. SUFFICES ASSUME NEW k \in DOMAIN runs, runs'[k].pc = "rhs"
                PROVE  /\ runs'[k].win \in Cse
                       /\ Block[runs'[k].win.rule] \in Blocks(runs'[k])
    BY <1>5 DEF WinnersOwn, Blocks
  <2>1. runs'[k] = runs[k]
    BY <1>2, <1>5
  <2>. QED
    BY <2>1 DEF Inv, WinnersOwn, Blocks
<1>19. CacheLive'
  <2>. SUFFICES ASSUME NEW rb \in RulingBlocks, Registered(rb)', css'[rb].cached \in RefSets
                PROVE  refsets'[css'[rb].cached] # Free
    BY DEF CacheLive
  <2>1. CASE rb = b
    BY <2>1, <1>7, <1>8, <1>11, <1>13 DEF Refracts
  <2>2. CASE rb # b
    BY <2>2, <1>8, <1>13, <1>15 DEF Inv, CacheLive
  <2>. QED
    BY <2>1, <2>2
<1>20. FlagsInitialized'
  <2>. SUFFICES ASSUME NEW rb \in RulingBlocks, Registered(rb)',
                       NEW e \in DOMAIN css'[rb].refracted
                PROVE  css'[rb].refracted[e] \in BOOLEAN
    BY DEF FlagsInitialized
  <2>1. CASE rb = b
    <3>1. /\ e \in DOMAIN css[b].refracted /\ css[b].refracted[e] \in BOOLEAN
      BY <2>1, <1>4, <1>3, <1>11, <1>13 DEF Inv, FlagsInitialized, Refracts
    <3>2. (e \in refsets[rs]) \in BOOLEAN
      OBVIOUS
    <3>. QED
      BY <2>1, <3>1, <3>2, <1>11, <1>13 DEF Refracts
  <2>2. CASE rb # b
    BY <2>2, <1>13, <1>15 DEF Inv, FlagsInitialized
  <2>. QED
    BY <2>1, <2>2
<1>. QED
  BY <1>10, <1>14, <1>16, <1>17, <1>18, <1>19, <1>20 DEF Inv

LEMMA RhsInv ==
  ASSUME Distinct, Inv, RhsReturned
  PROVE  Inv'
<1>1. runs # << >> /\ Running.pc = "rhs" /\ UNCHANGED <<clock, wm>>
  BY DEF RhsReturned
<1>2. ASSUME NEW p \in {"exit", "every"}, EndFiring(p), UNCHANGED <<css, refsets>>
      PROVE  Inv'
  <2>. DEFINE r == runs'[Len(runs)]
  <2>1. /\ r \in Run /\ r.eb = Running.eb /\ r.rs = Running.rs /\ r.pc = p
        /\ runs' = [runs EXCEPT ![Len(runs)] = r]
    BY <1>1, <1>2, EndedRuns
  <2>. HIDE DEF r
  <2>. QED
    BY <1>1, <1>2, <2>1, ControlStep
<1>3. CASE EndFiring("exit") /\ UNCHANGED <<css, refsets>>
  BY <1>2, <1>3
<1>4. CASE EndFiring("every") /\ UNCHANGED <<css, refsets>>
  BY <1>2, <1>4
<1>5. CASE /\ EndFiring("every")
           /\ css' = [css EXCEPT ![Block[Running.win.rule]] =
                                    Refract(@, Running.win, Running.rs)]
           /\ refsets' = [refsets EXCEPT ![Running.rs] = @ \cup {Running.win}]
  BY <1>1, <1>5, RefractedStep
<1>. QED
  BY <1>3, <1>4, <1>5 DEF RhsReturned

\* Invalidating a cache forgets the refraction set rs and touches nothing else.
Invalidates(d, c, rs) ==
  /\ d \in ConflictSet /\ d.uses = c.uses /\ d.refracted = c.refracted
  /\ d.cached = IF c.cached = rs THEN InvalidCache ELSE c.cached

LEMMA InvalidateProperties ==
  ASSUME Distinct, NEW c \in ConflictSet, NEW rs \in RefSets
  PROVE  Invalidates(Invalidate(c, rs), c, rs)
<1>. DEFINE d == Invalidate(c, rs)
<1>1. /\ c = [uses |-> c.uses, cached |-> c.cached, refracted |-> c.refracted]
      /\ c.uses \in Int /\ DOMAIN c.refracted \in SUBSET Cse
      /\ c.refracted \in [DOMAIN c.refracted -> BOOLEAN \cup {Garbage}]
  BY ConflictSetFields
<1>2. c # Unregistered /\ InvalidCache \in CacheType
  BY DEF Distinct, CacheType
<1>3. CASE c.cached = rs
  <2>1. d = [uses |-> c.uses, cached |-> InvalidCache, refracted |-> c.refracted]
    BY <1>1, <1>2, <1>3 DEF Invalidate
  <2>2. d \in ConflictSet
    BY <1>1, <1>2, <2>1, ConflictSetMade
  <2>. QED
    BY <1>3, <2>1, <2>2 DEF Invalidates
<1>4. CASE c.cached # rs
  BY <1>4 DEF Invalidate, Invalidates
<1>. QED
  BY <1>3, <1>4

\* What the end of a run leaves of the ruling blocks it activated.
Unregisters(d, rb) ==
  /\ Cardinality(Users(rb)) > 1 \/ rb \in Retain =>
       /\ d \in ConflictSet /\ d.uses = css[rb].uses - 1
       /\ d.cached = css[rb].cached /\ d.refracted = css[rb].refracted
  /\ ~(Cardinality(Users(rb)) > 1 \/ rb \in Retain) => d = Unregistered

LEMMA UnregisterProperties ==
  ASSUME Distinct, Inv, NEW rb \in RulingBlocks, Registered(rb)
  PROVE  Unregisters(AfterUnregister(rb), rb)
<1>. DEFINE b == css[rb]
<1>1. b \in ConflictSet /\ b.uses = Cardinality(Users(rb))
  BY DEF Inv, Types, UsesExact, Registered
<1>2. /\ b = [uses |-> b.uses, cached |-> b.cached, refracted |-> b.refracted]
      /\ b.uses \in Int /\ b.cached \in CacheType /\ DOMAIN b.refracted \in SUBSET Cse
      /\ b.refracted \in [DOMAIN b.refracted -> BOOLEAN \cup {Garbage}]
  BY <1>1, ConflictSetFields
<1>3. CASE b.uses > 1 \/ rb \in Retain
  <2>1. AfterUnregister(rb) = [b EXCEPT !.uses = @ - 1]
    BY <1>3 DEF AfterUnregister
  <2>. HIDE DEF b
  <2>2. AfterUnregister(rb) =
          [uses |-> b.uses - 1, cached |-> b.cached, refracted |-> b.refracted]
    BY <1>2, <2>1
  <2>3. AfterUnregister(rb) \in ConflictSet
    BY <1>2, <2>2, b.uses - 1 \in Int, ConflictSetMade
  <2>4. Cardinality(Users(rb)) > 1 \/ rb \in Retain
    BY <1>1, <1>3
  <2>5. /\ AfterUnregister(rb).uses = b.uses - 1
        /\ AfterUnregister(rb).cached = b.cached
        /\ AfterUnregister(rb).refracted = b.refracted
    BY <2>2
  <2>. QED
    BY <2>3, <2>4, <2>5 DEF Unregisters, b
<1>4. CASE ~(b.uses > 1 \/ rb \in Retain)
  BY <1>1, <1>4 DEF AfterUnregister, Unregisters
<1>. QED
  BY <1>3, <1>4

\* The conflict sets once the innermost run is over.
Ended(d, rb) ==
  IF rb \in Blocks(Running) /\ Cardinality(Users(rb)) <= 1 /\ rb \notin Retain
  THEN d = Unregistered
  ELSE IF Registered(rb)
       THEN /\ d \in ConflictSet /\ d # Unregistered /\ d.refracted = css[rb].refracted
            /\ d.uses = IF rb \in Blocks(Running) THEN css[rb].uses - 1 ELSE css[rb].uses
            /\ d.cached = IF css[rb].cached = Running.rs THEN InvalidCache ELSE css[rb].cached
       ELSE d = Unregistered

LEMMA EndedProperties ==
  ASSUME Distinct, Inv, ExitEntryBlock, NEW rb \in RulingBlocks
  PROVE  /\ Ended(css'[rb], rb)
         /\ rb \in Blocks(Running) => Registered(rb) /\ Len(runs) \in Users(rb)
<1>. DEFINE rs == Running.rs
            c == IF rb \in Blocks(Running) THEN AfterUnregister(rb) ELSE css[rb]
<1>1. runs # << >> /\ css'[rb] = Invalidate(c, rs)
  BY DEF ExitEntryBlock
<1>2. rs \in RefSets /\ Len(runs) \in DOMAIN runs
  BY <1>1, RunningType DEF Inv, Run
<1>3. rb \in Blocks(Running) => Registered(rb) /\ Len(runs) \in Users(rb)
  <2>. SUFFICES ASSUME rb \in Blocks(Running)
                PROVE  Registered(rb) /\ Len(runs) \in Users(rb)
    OBVIOUS
  <2>1. Len(runs) \in Users(rb)
    BY <1>2 DEF Users, Running
  <2>. QED
    BY <2>1 DEF Inv, UsesExact
<1>4. Invalidate(Unregistered, rs) = Unregistered
  BY DEF Invalidate
<1>5. css[rb] \in ConflictSet \cup {Unregistered} /\ Cardinality(Users(rb)) \in Nat
  BY UsersFinite DEF Inv, Types
<1>6. CASE rb \in Blocks(Running)
  <2>1. Unregisters(c, rb)
    BY <1>3, <1>6, UnregisterProperties
  <2>. HIDE DEF c, rs
  <2>2. CASE Cardinality(Users(rb)) > 1 \/ rb \in Retain
    <3>1. /\ c \in ConflictSet /\ c.uses = css[rb].uses - 1
          /\ c.cached = css[rb].cached /\ c.refracted = css[rb].refracted
      BY <2>1, <2>2 DEF Unregisters
    <3>2. Invalidates(css'[rb], c, rs)
      BY <1>1, <1>2, <3>1, InvalidateProperties
    <3>. QED
      BY <1>3, <1>5, <1>6, <2>2, <3>1, <3>2 DEF Invalidates, Ended, Distinct, rs
  <2>3. CASE ~(Cardinality(Users(rb)) > 1 \/ rb \in Retain)
    <3>1. c = Unregistered
      BY <2>1, <2>3 DEF Unregisters
    <3>. QED
      BY <1>1, <1>3, <1>4, <1>5, <1>6, <2>3, <3>1 DEF Ended
  <2>. QED
    BY <2>2, <2>3
<1>7. CASE rb \notin Blocks(Running) /\ Registered(rb)
  <2>1. c = css[rb] /\ c \in ConflictSet
    BY <1>5, <1>7 DEF Registered
  <2>. HIDE DEF c, rs
  <2>2. Invalidates(css'[rb], c, rs)
    BY <1>1, <1>2, <2>1, InvalidateProperties
  <2>. QED
    BY <1>7, <2>1, <2>2 DEF Invalidates, Ended, Distinct, rs
<1>8. CASE rb \notin Blocks(Running) /\ ~Registered(rb)
  BY <1>1, <1>4, <1>8 DEF Ended, Registered
<1>. QED
  BY <1>3, <1>6, <1>7, <1>8

LEMMA ExitInv ==
  ASSUME Distinct, Inv, ExitEntryBlock
  PROVE  Inv'
<1>. DEFINE n == Len(runs)
            rs == Running.rs
<1>1. /\ runs # << >> /\ refsets' = [refsets EXCEPT ![rs] = Free]
      /\ runs' = SubSeq(runs, 1, n - 1) /\ UNCHANGED <<clock, wm>>
      /\ DOMAIN css' = RulingBlocks
  BY DEF ExitEntryBlock
<1>2. /\ n \in Nat \ {0} /\ DOMAIN runs = 1 .. n /\ n \in DOMAIN runs
      /\ runs \in Seq(Run) /\ Running \in Run /\ rs \in RefSets /\ Running = runs[n]
      /\ \A k \in DOMAIN runs : runs[k] \in Run /\ runs[k].rs \in RefSets
  BY <1>1, RunningType DEF Inv, Types, Run, Running
<1>. HIDE DEF n
<1>3. /\ runs' \in Seq(Run) /\ DOMAIN runs' = DOMAIN runs \ {n}
      /\ \A k \in DOMAIN runs : k # n => runs'[k] = runs[k]
  <2>1. /\ runs' \in Seq(Run) /\ Len(runs') = n - 1
        /\ \A k \in 1 .. n - 1 : runs'[k] = runs[k]
    BY <1>1, <1>2, SubSeqProperties DEF n
  <2>2. DOMAIN runs' = 1 .. n - 1
    BY <2>1
  <2>3. 1 .. n - 1 = (1 .. n) \ {n}
    BY <1>2
  <2>. QED
    BY <1>2, <2>1, <2>2, <2>3
<1>4. /\ \A rb \in RulingBlocks : Ended(css'[rb], rb)
      /\ \A rb \in RulingBlocks : rb \in Blocks(Running) => Registered(rb) /\ n \in Users(rb)
  BY EndedProperties DEF n
<1>5. ASSUME NEW rb \in RulingBlocks
      PROVE  /\ Users(rb)' = Users(rb) \ {n}
             /\ n \in Users(rb) <=> rb \in Blocks(Running)
  BY <1>2, <1>3 DEF Users, Blocks
<1>6. ASSUME NEW rb \in RulingBlocks
      PROVE  Cardinality(Users(rb))' = IF rb \in Blocks(Running) THEN Cardinality(Users(rb)) - 1
                                       ELSE Cardinality(Users(rb))
  <2>1. IsFiniteSet(Users(rb))
    BY UsersFinite DEF Inv
  <2>2. Cardinality(Users(rb) \ {n}) = IF n \in Users(rb) THEN Cardinality(Users(rb)) - 1
                                       ELSE Cardinality(Users(rb))
    BY <2>1, FS_RemoveElement
  <2>. QED
    BY <1>5, <2>2
<1>7. /\ css \in [RulingBlocks -> ConflictSet \cup {Unregistered}]
      /\ refsets \in [RefSets -> (SUBSET Cse) \cup {Free}]
  BY DEF Inv, Types
<1>. HIDE DEF rs
<1>8. /\ refsets' \in [RefSets -> (SUBSET Cse) \cup {Free}]
      /\ \A a \in RefSets : a # rs => refsets'[a] = refsets[a]
  BY <1>1, <1>7
<1>9. Types'
  <2>1. \A rb \in RulingBlocks : css'[rb] \in ConflictSet \cup {Unregistered}
    BY <1>4 DEF Ended
  <2>2. css' \in [RulingBlocks -> ConflictSet \cup {Unregistered}]
    BY <2>1, <1>1 DEF ExitEntryBlock
  <2>. QED
    BY <1>1, <1>3, <1>8, <2>2 DEF Inv, Types
<1>10. ASSUME NEW rb \in RulingBlocks, Registered(rb)'
       PROVE  /\ Registered(rb) /\ css'[rb].refracted = css[rb].refracted
              /\ css'[rb].cached = IF css[rb].cached = rs THEN InvalidCache ELSE css[rb].cached
              /\ css'[rb].uses = IF rb \in Blocks(Running) THEN css[rb].uses - 1
                                 ELSE css[rb].uses
  BY <1>4, <1>10 DEF Ended, Registered, rs
<1>11. OwnEntries' /\ FlagsInitialized'
  BY <1>10 DEF Inv, OwnEntries, EntriesOf, FlagsInitialized
<1>12. RunsOwn'
  <2>1. \A j, k \in DOMAIN runs : refsets[runs[k].rs] # Free /\ (runs[j].rs = runs[k].rs => j = k)
    BY DEF Inv, RunsOwn
  <2>2. \A k \in DOMAIN runs : k # n => runs[k].rs # rs
    BY <1>2, <2>1 DEF rs
  <2>. QED
    BY <1>2, <1>3, <1>8, <2>1, <2>2 DEF RunsOwn
<1>13. UsesExact'
  <2>. SUFFICES ASSUME NEW rb \in RulingBlocks
                PROVE  /\ Registered(rb)' => css'[rb].uses = Cardinality(Users(rb))'
                       /\ Users(rb)' # {} => Registered(rb)'
    BY DEF UsesExact
  <2>1. Registered(rb)' => css'[rb].uses = Cardinality(Users(rb))'
    BY <1>6, <1>10 DEF Inv, UsesExact
  <2>2. ASSUME Users(rb)' # {} PROVE Registered(rb)'
    <3>1. Registered(rb) /\ IsFiniteSet(Users(rb)) /\ Cardinality(Users(rb)) \in Nat
      BY <1>5, <2>2, UsersFinite DEF Inv, UsesExact
    <3>2. IsFiniteSet(Users(rb)')
      BY <1>5, <3>1, FS_RemoveElement
    <3>3. Cardinality(Users(rb)') # 0 /\ Cardinality(Users(rb)') \in Nat
      BY <2>2, <3>2, FS_EmptySet, FS_CardinalityType
    <3>4. rb \in Blocks(Running) => Cardinality(Users(rb)) > 1
      BY <1>6, <3>1, <3>3
    <3>. QED
      BY <1>4, <3>1, <3>4 DEF Ended, Registered
  <2>. QED
    BY <2>1, <2>2
<1>14. WinnersOwn'
  BY <1>3 DEF Inv, WinnersOwn, Blocks
<1>15. CacheLive'
  <2>. SUFFICES ASSUME NEW rb \in RulingBlocks, Registered(rb)', css'[rb].cached \in RefSets
                PROVE  refsets'[css'[rb].cached] # Free
    BY DEF CacheLive
  <2>1. Registered(rb) /\ css[rb].cached # rs /\ css'[rb].cached = css[rb].cached
    BY <1>10 DEF Distinct
  <2>. QED
    BY <1>8, <2>1 DEF Inv, CacheLive
<1>. QED
  BY <1>9, <1>11, <1>12, <1>13, <1>14, <1>15 DEF Inv

-----------------------------------------------------------------------------
(* Every program.                                                          *)

LEMMA NextInv ==
  ASSUME Distinct, Inv, [Next]_vars
  PROVE  Inv'
<1>1. CASE ChangeWM
  BY <1>1, ChangeInv
<1>2. CASE \E n \in 1 .. MaxAfter : After(n)
  BY <1>2, AfterInv
<1>3. CASE \E eb \in EntryBlocks, a \in RefSets : EnterEntryBlock(eb, a)
  BY <1>3, EnterInv
<1>4. CASE Recognize
  BY <1>4, RecognizeInv
<1>5. CASE CodeReturns
  <2>1. CASE OnEntryReturned
    BY <2>1, ReturnedInv DEF OnEntryReturned
  <2>2. CASE RhsReturned
    BY <2>2, RhsInv
  <2>3. CASE RhsReturnedFreed
    BY <2>3, GotoInv DEF RhsReturnedFreed
  <2>4. CASE OnEveryReturned
    BY <2>4, ReturnedInv DEF OnEveryReturned
  <2>5. CASE CatcherReturned
    BY <2>5, ReturnedInv DEF CatcherReturned
  <2>6. CASE OnEmptyReturned
    BY <2>6, ReturnedInv DEF OnEmptyReturned
  <2>7. CASE ExitEntryBlock
    BY <2>7, ExitInv
  <2>. QED
    BY <1>5, <2>1, <2>2, <2>3, <2>4, <2>5, <2>6, <2>7 DEF CodeReturns
<1>6. CASE UNCHANGED vars
  <2>1. UNCHANGED <<clock, wm, css, refsets, runs>>
    BY <1>6 DEF vars
  <2>2. Types'
    BY <2>1 DEF Inv, Types
  <2>3. OwnEntries' /\ CacheLive' /\ FlagsInitialized' /\ RunsOwn'
    BY <2>1 DEF Inv, OwnEntries, CacheLive, FlagsInitialized, Registered, RunsOwn
  <2>4. UsesExact' /\ WinnersOwn'
    BY <2>1 DEF Inv, UsesExact, Users, WinnersOwn, Registered, Blocks
  <2>. QED
    BY <2>2, <2>3, <2>4 DEF Inv
<1>. QED
  BY <1>1, <1>2, <1>3, <1>4, <1>5, <1>6 DEF Next

\* The invariant of the conflict sets and the refraction sets, however the
\* entry blocks call one another.
THEOREM CachesInvariant ==
  ASSUME Distinct
  PROVE  Spec => []Inv
<1>1. Init => Inv
  BY InitInv
<1>2. Inv /\ [Next]_vars => Inv'
  BY NextInv
<1>. QED
  BY <1>1, <1>2, PTL DEF Spec

\* No conflict set remembers a refraction set that was freed when its run ended,
\* though the next run may be given the same address.
THEOREM CachesLive ==
  ASSUME Distinct
  PROVE  Spec => []CacheLive
<1>1. Inv => CacheLive
  BY DEF Inv
<1>. QED
  BY <1>1, CachesInvariant, PTL

\* No entry is left with a flag that cs_make_cse did not set because the cache
\* was invalid: every search that makes one recomputes the flags.
THEOREM FlagsAlwaysInitialized ==
  ASSUME Distinct
  PROVE  Spec => []FlagsInitialized
<1>1. Inv => FlagsInitialized
  BY DEF Inv
<1>. QED
  BY <1>1, CachesInvariant, PTL

-----------------------------------------------------------------------------
(* What a run fires.  Of every program: a run that gives up has fired all  *)
(* there is to fire.  Of programs whose runs are disjoint: see Apart.      *)

Refracted(k) == refsets[runs[k].rs]

\* What a run refracted it has fired, as an entry of one of its blocks.
RefractedFired ==
  \A k \in DOMAIN runs : \A e \in Refracted(k) :
    e \in runs[k].fired /\ Block[e.rule] \in Blocks(runs[k])

\* A conflict set with an entry that a run refracted remembers that run, or one
\* that began later, or none at all.
CacheOfLater ==
  \A j \in DOMAIN runs : \A e \in Refracted(j) :
    css[Block[e.rule]].cached # InvalidCache =>
      \E k \in DOMAIN runs : j <= k /\ css[Block[e.rule]].cached = runs[k].rs

\* A flag that is set was set for the refraction set in the cache.
FlagsSound ==
  \A rb \in RulingBlocks : Registered(rb) =>
    \A e \in DOMAIN css[rb].refracted :
      css[rb].refracted[e] = TRUE =>
        /\ css[rb].cached # NoRefSet
        /\ css[rb].cached \in RefSets => e \in refsets[css[rb].cached]

History == Inv /\ RefractedFired /\ CacheOfLater /\ FlagsSound

-----------------------------------------------------------------------------
(* The steps, as the conflict sets, refraction sets and runs see them.     *)

LEMMA RunsTyped ==
  ASSUME Inv
  PROVE  /\ Len(runs) \in Nat /\ DOMAIN runs = 1 .. Len(runs)
         /\ \A k \in DOMAIN runs :
              /\ runs[k] \in Run /\ runs[k].rs \in RefSets
              /\ Blocks(runs[k]) \subseteq RulingBlocks
              /\ Refracted(k) \subseteq Cse
<1>1. /\ Len(runs) \in Nat /\ DOMAIN runs = 1 .. Len(runs)
      /\ \A k \in DOMAIN runs : runs[k] \in Run
  BY DEF Inv, Types
<1>2. ASSUME NEW k \in DOMAIN runs
      PROVE  /\ runs[k].rs \in RefSets
             /\ Blocks(runs[k]) \subseteq RulingBlocks
             /\ Refracted(k) \subseteq Cse
  <2>1. runs[k] \in Run /\ runs[k].rs \in RefSets
    BY <1>1 DEF Run
  <2>2. refsets[runs[k].rs] \in (SUBSET Cse) \cup {Free} /\ refsets[runs[k].rs] # Free
    BY <2>1 DEF Inv, Types, RunsOwn
  <2>. QED
    BY <2>1, <2>2, BlocksType DEF Refracted
<1>. QED
  BY <1>1, <1>2

LEMMA EnterSeen ==
  ASSUME Distinct, Inv, NEW eb \in EntryBlocks, NEW a \in RefSets, EnterEntryBlock(eb, a)
  PROVE  /\ UNCHANGED <<clock, wm>>
         /\ refsets[a] = Free /\ refsets'[a] = {}
         /\ \A b \in RefSets : b # a => refsets'[b] = refsets[b]
         /\ DOMAIN runs' = DOMAIN runs \cup {Len(runs) + 1}
         /\ Len(runs) + 1 \notin DOMAIN runs
         /\ \A k \in DOMAIN runs : runs'[k] = runs[k]
         /\ runs'[Len(runs) + 1] =
              [eb |-> eb, rs |-> a, pc |-> "entry", win |-> NoWinner, winFreed |-> FALSE,
               fired |-> {}, count |-> 0, after |-> 0]
         /\ \A rb \in RulingBlocks : Registered(rb) =>
              /\ Registered(rb)' /\ css'[rb].cached = css[rb].cached
              /\ css'[rb].refracted = css[rb].refracted
         /\ \A rb \in RulingBlocks : ~Registered(rb) /\ Registered(rb)' =>
              /\ css'[rb].cached = NoRefSet
              /\ \A e \in DOMAIN css'[rb].refracted : css'[rb].refracted[e] = FALSE
<1>. DEFINE r == [eb |-> eb, rs |-> a, pc |-> "entry", win |-> NoWinner, winFreed |-> FALSE,
                  fired |-> {}, count |-> 0, after |-> 0]
<1>1. /\ refsets[a] = Free /\ refsets' = [refsets EXCEPT ![a] = {}]
      /\ css' = [rb \in RulingBlocks |->
                   IF rb \in Activates[eb] THEN AfterRegister(rb) ELSE css[rb]]
      /\ runs' = Append(runs, r) /\ UNCHANGED <<clock, wm>>
  BY DEF EnterEntryBlock
<1>. HIDE DEF r
<1>2. /\ refsets'[a] = {} /\ \A b \in RefSets : b # a => refsets'[b] = refsets[b]
  BY <1>1 DEF Inv, Types
<1>3. /\ DOMAIN runs' = DOMAIN runs \cup {Len(runs) + 1}
      /\ Len(runs) + 1 \notin DOMAIN runs
      /\ \A k \in DOMAIN runs : runs'[k] = runs[k]
      /\ runs'[Len(runs) + 1] = r
  BY <1>1 DEF Inv, Types
<1>4. ASSUME NEW rb \in RulingBlocks, Registered(rb)
      PROVE  /\ Registered(rb)' /\ css'[rb].cached = css[rb].cached
             /\ css'[rb].refracted = css[rb].refracted
  <2>. DEFINE b == css[rb]
  <2>1. b \in ConflictSet /\ b # Unregistered
    BY <1>4 DEF Inv, Types, Registered
  <2>2. b = [uses |-> b.uses, cached |-> b.cached, refracted |-> b.refracted] /\ b.uses \in Int
    BY <2>1, ConflictSetFields
  <2>3. CASE rb \in Activates[eb]
    <3>1. css'[rb] = [b EXCEPT !.uses = @ + 1]
      BY <1>1, <1>4, <2>3 DEF AfterRegister
    <3>2. AfterRegister(rb) \in ConflictSet /\ css'[rb] = AfterRegister(rb)
      BY <1>1, <2>3, RegisterProperties
    <3>. HIDE DEF b
    <3>3. css'[rb].cached = b.cached /\ css'[rb].refracted = b.refracted
      BY <2>2, <3>1
    <3>. QED
      BY <3>2, <3>3 DEF b, Registered, Distinct
  <2>4. CASE rb \notin Activates[eb]
    BY <1>1, <1>4, <2>4 DEF Registered
  <2>. QED
    BY <2>3, <2>4
<1>5. ASSUME NEW rb \in RulingBlocks, ~Registered(rb), Registered(rb)'
      PROVE  /\ css'[rb].cached = NoRefSet
             /\ \A e \in DOMAIN css'[rb].refracted : css'[rb].refracted[e] = FALSE
  <2>1. css'[rb] = [uses |-> 1, cached |-> NoRefSet,
                    refracted |-> [e \in Instantiations(rb) |-> FALSE]]
    BY <1>1, <1>5 DEF AfterRegister, Registered
  <2>. QED
    BY <2>1
<1>. QED
  BY <1>1, <1>2, <1>3, <1>4, <1>5 DEF r

\* The flags after a winner is refracted.
LEMMA RefractSeen ==
  ASSUME Distinct, Inv, runs # << >>, Running.pc = "rhs",
         css' = [css EXCEPT ![Block[Running.win.rule]] = Refract(@, Running.win, Running.rs)],
         refsets' = [refsets EXCEPT ![Running.rs] = @ \cup {Running.win}]
  PROVE  /\ Running.win \in Cse /\ Running.rs \in RefSets
         /\ Block[Running.win.rule] \in Blocks(Running)
         /\ Block[Running.win.rule] \in RulingBlocks /\ Registered(Block[Running.win.rule])
         /\ refsets'[Running.rs] = refsets[Running.rs] \cup {Running.win}
         /\ \A a \in RefSets : a # Running.rs => refsets'[a] = refsets[a]
         /\ \A rb \in RulingBlocks : rb # Block[Running.win.rule] => css'[rb] = css[rb]
         /\ css'[Block[Running.win.rule]] # Unregistered
         /\ Refracts(css'[Block[Running.win.rule]], css[Block[Running.win.rule]],
                     Running.win, Running.rs)
<1>. DEFINE w == Running.win
            rs == Running.rs
            b == Block[w.rule]
<1>1. /\ Len(runs) \in DOMAIN runs /\ Running \in Run /\ rs \in RefSets
      /\ Blocks(Running) \subseteq RulingBlocks
  BY RunningType, BlocksType DEF Inv, Run
<1>2. w \in Cse /\ b \in Blocks(Running) /\ b \in RulingBlocks
  BY <1>1 DEF Inv, WinnersOwn, Running
<1>3. Registered(b) /\ css[b] \in ConflictSet
  <2>1. Len(runs) \in Users(b)
    BY <1>1, <1>2 DEF Users, Running
  <2>. QED
    BY <1>2, <2>1 DEF Inv, UsesExact, Types, Registered
<1>. HIDE DEF w, rs, b
<1>4. css' = [css EXCEPT ![b] = Refract(css[b], w, rs)]
      /\ refsets' = [refsets EXCEPT ![rs] = @ \cup {w}]
  BY DEF w, rs, b
<1>5. Refracts(Refract(css[b], w, rs), css[b], w, rs)
  BY <1>1, <1>2, <1>3, RefractProperties
<1>6. css'[b] = Refract(css[b], w, rs) /\ \A rb \in RulingBlocks : rb # b => css'[rb] = css[rb]
  BY <1>2, <1>4 DEF Inv, Types
<1>7. css'[b] # Unregistered
  BY <1>5, <1>6 DEF Refracts, Distinct
<1>8. /\ refsets'[rs] = refsets[rs] \cup {w}
      /\ \A a \in RefSets : a # rs => refsets'[a] = refsets[a]
  BY <1>1, <1>4 DEF Inv, Types
<1>. QED
  BY <1>1, <1>2, <1>3, <1>5, <1>6, <1>7, <1>8 DEF w, rs, b

LEMMA ExitSeen ==
  ASSUME Distinct, Inv, ExitEntryBlock
  PROVE  /\ runs # << >> /\ UNCHANGED <<clock, wm>>
         /\ \A a \in RefSets : a # Running.rs => refsets'[a] = refsets[a]
         /\ DOMAIN runs' = DOMAIN runs \ {Len(runs)}
         /\ \A k \in DOMAIN runs : k # Len(runs) =>
              runs'[k] = runs[k] /\ runs[k].rs # Running.rs
         /\ \A rb \in RulingBlocks : Registered(rb)' =>
              /\ Registered(rb) /\ css'[rb].refracted = css[rb].refracted
              /\ css'[rb].cached =
                   IF css[rb].cached = Running.rs THEN InvalidCache ELSE css[rb].cached
<1>. DEFINE n == Len(runs)
            rs == Running.rs
<1>1. /\ runs # << >> /\ refsets' = [refsets EXCEPT ![rs] = Free]
      /\ runs' = SubSeq(runs, 1, n - 1) /\ UNCHANGED <<clock, wm>>
  BY DEF ExitEntryBlock
<1>2. /\ n \in Nat \ {0} /\ DOMAIN runs = 1 .. n /\ n \in DOMAIN runs /\ runs \in Seq(Run)
      /\ Running = runs[n] /\ rs \in RefSets
  BY <1>1, RunningType DEF Inv, Types, Run, Running
<1>. HIDE DEF n
<1>3. /\ Len(runs') = n - 1 /\ runs' \in Seq(Run)
      /\ \A k \in 1 .. n - 1 : runs'[k] = runs[k]
  BY <1>1, <1>2, SubSeqProperties DEF n
<1>4. DOMAIN runs' = DOMAIN runs \ {n} /\ \A k \in DOMAIN runs : k # n => runs'[k] = runs[k]
  <2>1. DOMAIN runs' = 1 .. n - 1
    BY <1>3
  <2>2. 1 .. n - 1 = (1 .. n) \ {n}
    BY <1>2
  <2>. QED
    BY <1>2, <1>3, <2>1, <2>2
<1>5. \A k \in DOMAIN runs : k # n => runs[k].rs # rs
  BY <1>2 DEF Inv, RunsOwn
<1>6. \A a \in RefSets : a # rs => refsets'[a] = refsets[a]
  BY <1>1 DEF Inv, Types
<1>7. \A rb \in RulingBlocks : Registered(rb)' =>
        /\ Registered(rb) /\ css'[rb].refracted = css[rb].refracted
        /\ css'[rb].cached = IF css[rb].cached = rs THEN InvalidCache ELSE css[rb].cached
  BY EndedProperties DEF Ended, Registered
<1>. QED
  BY <1>1, <1>4, <1>5, <1>6, <1>7 DEF n

-----------------------------------------------------------------------------
(* Every program: what a run refracts and what its flags say.              *)

\* A step of the runs alone, which may add to what they fired.
LEMMA HistoryKept ==
  ASSUME History, Inv', UNCHANGED <<css, refsets>>, DOMAIN runs' = DOMAIN runs,
         \A k \in DOMAIN runs : /\ runs'[k].eb = runs[k].eb /\ runs'[k].rs = runs[k].rs
                                /\ runs[k].fired \subseteq runs'[k].fired
  PROVE  History'
<1>1. RefractedFired'
  BY DEF History, RefractedFired, Refracted, Blocks
<1>2. CacheOfLater'
  BY DEF History, CacheOfLater, Refracted
<1>3. FlagsSound'
  BY DEF History, FlagsSound, Registered
<1>. QED
  BY <1>1, <1>2, <1>3 DEF History

LEMMA HistoryEnter ==
  ASSUME Distinct, History, Inv',
         NEW eb \in EntryBlocks, NEW a \in RefSets, EnterEntryBlock(eb, a)
  PROVE  History'
<1>1. /\ refsets[a] = Free /\ refsets'[a] = {}
      /\ \A b \in RefSets : b # a => refsets'[b] = refsets[b]
      /\ DOMAIN runs' = DOMAIN runs \cup {Len(runs) + 1}
      /\ \A k \in DOMAIN runs : runs'[k] = runs[k]
      /\ runs'[Len(runs) + 1].rs = a
      /\ \A rb \in RulingBlocks : Registered(rb) =>
           /\ Registered(rb)' /\ css'[rb].cached = css[rb].cached
           /\ css'[rb].refracted = css[rb].refracted
      /\ \A rb \in RulingBlocks : ~Registered(rb) /\ Registered(rb)' =>
           \A e \in DOMAIN css'[rb].refracted : css'[rb].refracted[e] = FALSE
  <2>. DEFINE r == [eb |-> eb, rs |-> a, pc |-> "entry", win |-> NoWinner,
                    winFreed |-> FALSE, fired |-> {}, count |-> 0, after |-> 0]
  <2>1. r.rs = a
    OBVIOUS
  <2>2. runs'[Len(runs) + 1] = r
    BY EnterSeen DEF History
  <2>. HIDE DEF r
  <2>. QED
    BY <2>1, <2>2, EnterSeen DEF History
<1>2. ASSUME NEW k \in DOMAIN runs
      PROVE  Refracted(k)' = Refracted(k) /\ runs'[k].rs = runs[k].rs
  <2>1. runs[k].rs \in RefSets /\ runs[k].rs # a
    BY <1>1, RunsTyped DEF History, Inv, RunsOwn
  <2>. QED
    BY <1>1, <2>1 DEF Refracted
<1>3. ASSUME NEW k \in DOMAIN runs'
      PROVE  k \in DOMAIN runs \/ Refracted(k)' = {}
  BY <1>1 DEF Refracted
<1>4. RefractedFired'
  BY <1>1, <1>2, <1>3 DEF History, RefractedFired, Blocks
<1>5. CacheOfLater'
  <2>. SUFFICES ASSUME NEW j \in DOMAIN runs, NEW e \in Refracted(j),
                       css'[Block[e.rule]].cached # InvalidCache
                PROVE  \E k \in DOMAIN runs' : j <= k /\ css'[Block[e.rule]].cached = runs'[k].rs
    BY <1>1, <1>2, <1>3 DEF CacheOfLater
  <2>1. Block[e.rule] \in Blocks(runs[j]) /\ Block[e.rule] \in RulingBlocks
    BY RunsTyped DEF History, RefractedFired
  <2>2. Registered(Block[e.rule])
    BY <2>1 DEF History, Inv, UsesExact, Users
  <2>3. PICK k \in DOMAIN runs : j <= k /\ css[Block[e.rule]].cached = runs[k].rs
    BY <1>1, <2>1, <2>2 DEF History, CacheOfLater
  <2>. QED
    BY <1>1, <1>2, <2>1, <2>2, <2>3
<1>6. FlagsSound'
  <2>. SUFFICES ASSUME NEW rb \in RulingBlocks, Registered(rb)',
                       NEW e \in DOMAIN css'[rb].refracted, css'[rb].refracted[e] = TRUE
                PROVE  /\ css'[rb].cached # NoRefSet
                       /\ css'[rb].cached \in RefSets => e \in refsets'[css'[rb].cached]
    BY DEF FlagsSound
  <2>1. Registered(rb)
    BY <1>1
  <2>2. /\ css[rb].cached # NoRefSet
        /\ css[rb].cached \in RefSets => e \in refsets[css[rb].cached]
    BY <1>1, <2>1 DEF History, FlagsSound
  <2>3. css[rb].cached \in RefSets => css[rb].cached # a
    BY <1>1, <2>1 DEF History, Inv, CacheLive
  <2>. QED
    BY <1>1, <2>1, <2>2, <2>3
<1>. QED
  BY <1>4, <1>5, <1>6 DEF History

\* The search for a winner in the conflict set of rb, and what its flags say of
\* the run that searches.
LEMMA SearchFlags ==
  ASSUME Distinct, History, Recognize, NEW rb \in Blocks(Running)
  PROVE  /\ rb \in RulingBlocks /\ Registered(rb)
         /\ DOMAIN css'[rb].refracted = Instantiations(rb)
         /\ css'[rb].cached # NoRefSet
         /\ \A e \in DOMAIN css'[rb].refracted :
              /\ css'[rb].refracted[e] \in BOOLEAN
              /\ css'[rb].refracted[e] = TRUE =>
                   /\ e \in refsets[Running.rs]
                   /\ css'[rb].cached \in RefSets => e \in refsets[css'[rb].cached]
<1>. DEFINE rs == Running.rs
            n == Len(runs)
<1>1. /\ runs # << >> /\ css' = AfterUpdate(Running)
  BY DEF Recognize
<1>2. /\ n \in DOMAIN runs /\ Running = runs[n] /\ rs \in RefSets
      /\ Blocks(Running) \subseteq RulingBlocks /\ DOMAIN runs = 1 .. n /\ n \in Nat
  BY <1>1, RunningType, BlocksType DEF History, Inv, Run, Running
<1>3. /\ Registered(rb) /\ rb \in RulingBlocks
      /\ css'[rb].cached = IF css[rb].cached = NoRefSet THEN rs ELSE css[rb].cached
      /\ DOMAIN css'[rb].refracted = Instantiations(rb)
      /\ \A e \in Instantiations(rb) :
           css'[rb].refracted[e] = IF css[rb].cached \in {NoRefSet, rs}
                                   THEN IF e \in DOMAIN css[rb].refracted
                                        THEN css[rb].refracted[e]
                                        ELSE css[rb].cached = rs /\ e \in refsets[rs]
                                   ELSE e \in refsets[rs]
      /\ \A e \in DOMAIN css'[rb].refracted : css'[rb].refracted[e] \in BOOLEAN
  BY <1>1, <1>2, SearchProperties DEF History
<1>. HIDE DEF rs, n
<1>4. ASSUME NEW e \in Instantiations(rb), css'[rb].refracted[e] = TRUE
      PROVE  /\ e \in refsets[rs]
             /\ css'[rb].cached \in RefSets => e \in refsets[css'[rb].cached]
  <2>0. rs # NoRefSet
    BY <1>2 DEF Distinct
  <2>1. CASE css[rb].cached \in {NoRefSet, rs} /\ e \in DOMAIN css[rb].refracted
    <3>1. css[rb].refracted[e] = TRUE
      BY <1>3, <1>4, <2>1
    <3>2. css[rb].cached = rs /\ e \in refsets[rs]
      BY <1>2, <1>3, <2>1, <3>1 DEF History, FlagsSound
    <3>. QED
      BY <1>3, <2>0, <3>2
  <2>2. CASE css[rb].cached \in {NoRefSet, rs} /\ e \notin DOMAIN css[rb].refracted
    <3>1. css[rb].cached = rs /\ e \in refsets[rs]
      BY <1>3, <1>4, <2>2
    <3>. QED
      BY <1>3, <2>0, <3>1
  <2>3. CASE css[rb].cached \notin {NoRefSet, rs}
    <3>1. e \in refsets[rs] /\ e \in Refracted(n) /\ css'[rb].cached = css[rb].cached
      BY <1>2, <1>3, <1>4, <2>3 DEF Refracted, rs
    <3>2. Block[e.rule] = rb
      BY <1>3, InstantiationsType DEF History, Inv, EntriesOf
    <3>3. css[rb].cached \notin RefSets
      <4>. SUFFICES ASSUME css[rb].cached \in RefSets PROVE FALSE
        OBVIOUS
      <4>1. css[rb].cached # InvalidCache
        BY DEF Distinct
      <4>2. PICK k \in DOMAIN runs : n <= k /\ css[rb].cached = runs[k].rs
        BY <1>2, <3>1, <3>2, <4>1 DEF History, CacheOfLater
      <4>3. k = n
        BY <1>2, <4>2
      <4>. QED
        BY <1>2, <2>3, <4>2, <4>3 DEF rs
    <3>. QED
      BY <3>1, <3>3
  <2>. QED
    BY <2>1, <2>2, <2>3
<1>5. css'[rb].cached # NoRefSet
  BY <1>2, <1>3 DEF Distinct
<1>. QED
  BY <1>3, <1>4, <1>5 DEF rs

LEMMA HistorySearch ==
  ASSUME Distinct, History, Inv', Recognize
  PROVE  History'
<1>1. /\ UNCHANGED <<clock, wm, refsets>> /\ css' = AfterUpdate(Running)
      /\ DOMAIN runs' = DOMAIN runs /\ runs # << >>
      /\ \A k \in DOMAIN runs : /\ runs'[k].eb = runs[k].eb /\ runs'[k].rs = runs[k].rs
                                /\ runs'[k].fired = runs[k].fired
  BY MarkedRuns DEF History
<1>2. \A k \in DOMAIN runs : Refracted(k)' = Refracted(k)
  BY <1>1 DEF Refracted
<1>3. RefractedFired'
  BY <1>1, <1>2 DEF History, RefractedFired, Blocks
<1>4. ASSUME NEW rb \in RulingBlocks, Registered(rb), css[rb].cached # NoRefSet
      PROVE  css'[rb].cached = css[rb].cached
  <2>1. CASE rb \in Blocks(Running)
    BY <1>1, <1>4, <2>1, SearchProperties DEF History
  <2>2. CASE rb \notin Blocks(Running)
    BY <1>1, <1>4, <2>2 DEF AfterUpdate
  <2>. QED
    BY <2>1, <2>2
<1>5. CacheOfLater'
  <2>. SUFFICES ASSUME NEW j \in DOMAIN runs, NEW e \in Refracted(j),
                       css'[Block[e.rule]].cached # InvalidCache
                PROVE  \E k \in DOMAIN runs : j <= k /\ css'[Block[e.rule]].cached = runs[k].rs
    BY <1>1, <1>2 DEF CacheOfLater
  <2>1. Block[e.rule] \in Blocks(runs[j]) /\ Block[e.rule] \in RulingBlocks
    BY RunsTyped DEF History, RefractedFired
  <2>2. Registered(Block[e.rule])
    BY <2>1 DEF History, Inv, UsesExact, Users
  <2>3. css[Block[e.rule]].cached # InvalidCache =>
          \E k \in DOMAIN runs : j <= k /\ css[Block[e.rule]].cached = runs[k].rs
    BY DEF History, CacheOfLater
  <2>4. css[Block[e.rule]].cached # NoRefSet
    BY <2>3, RunsTyped DEF History, Distinct
  <2>5. css'[Block[e.rule]].cached = css[Block[e.rule]].cached
    BY <1>4, <2>1, <2>2, <2>4
  <2>. QED
    BY <2>3, <2>5
<1>6. FlagsSound'
  <2>. SUFFICES ASSUME NEW rb \in RulingBlocks, Registered(rb)',
                       NEW e \in DOMAIN css'[rb].refracted, css'[rb].refracted[e] = TRUE
                PROVE  /\ css'[rb].cached # NoRefSet
                       /\ css'[rb].cached \in RefSets => e \in refsets'[css'[rb].cached]
    BY DEF FlagsSound
  <2>1. CASE rb \in Blocks(Running)
    BY <1>1, <2>1, SearchFlags
  <2>2. CASE rb \notin Blocks(Running)
    <3>1. css'[rb] = css[rb]
      BY <1>1, <2>2 DEF AfterUpdate
    <3>. QED
      BY <1>1, <3>1 DEF History, FlagsSound, Registered
  <2>. QED
    BY <2>1, <2>2
<1>. QED
  BY <1>3, <1>5, <1>6 DEF History

LEMMA HistoryRefract ==
  ASSUME Distinct, History, Inv', runs # << >>, Running.pc = "rhs", EndFiring("every"),
         css' = [css EXCEPT ![Block[Running.win.rule]] = Refract(@, Running.win, Running.rs)],
         refsets' = [refsets EXCEPT ![Running.rs] = @ \cup {Running.win}]
  PROVE  History'
<1>. DEFINE n == Len(runs)
            rs == Running.rs
            w == Running.win
            b == Block[w.rule]
<1>1. /\ w \in Cse /\ rs \in RefSets /\ b \in Blocks(Running) /\ b \in RulingBlocks
      /\ refsets'[rs] = refsets[rs] \cup {w} /\ Registered(b)
      /\ \A a \in RefSets : a # rs => refsets'[a] = refsets[a]
      /\ \A rb \in RulingBlocks : rb # b => css'[rb] = css[rb]
      /\ Refracts(css'[b], css[b], w, rs)
  BY RefractSeen DEF History
<1>2. /\ n \in DOMAIN runs /\ DOMAIN runs = 1 .. n /\ n \in Nat /\ Running = runs[n]
      /\ \A k \in DOMAIN runs : runs[k].rs \in RefSets /\ (runs[k].rs = rs => k = n)
  BY RunningType, RunsTyped DEF History, Inv, RunsOwn, Running
<1>. DEFINE r == runs'[n]
<1>3. /\ r.eb = Running.eb /\ r.rs = rs /\ r.fired = Running.fired \cup {w}
      /\ runs' = [runs EXCEPT ![n] = r]
  BY EndedRuns DEF History
<1>. HIDE DEF r
<1>4. /\ DOMAIN runs' = DOMAIN runs /\ runs'[n] = r
      /\ \A k \in DOMAIN runs : k # n => runs'[k] = runs[k]
  BY <1>2, <1>3
<1>. HIDE DEF n, rs, w, b
<1>5. ASSUME NEW k \in DOMAIN runs
      PROVE  /\ runs'[k].rs = runs[k].rs /\ runs'[k].eb = runs[k].eb
             /\ runs[k].fired \subseteq runs'[k].fired
             /\ k # n => Refracted(k)' = Refracted(k)
             /\ k = n => Refracted(k)' = Refracted(k) \cup {w} /\ w \in runs'[k].fired
  <2>1. CASE k = n
    <3>1. runs'[k] = r /\ runs[k] = Running
      BY <1>2, <1>4, <2>1
    <3>2. runs'[k].rs = rs /\ runs[k].rs = rs
      BY <1>3, <3>1 DEF rs
    <3>3. Refracted(k)' = Refracted(k) \cup {w}
      BY <1>1, <3>2 DEF Refracted
    <3>. QED
      BY <1>3, <2>1, <3>1, <3>2, <3>3
  <2>2. CASE k # n
    BY <1>1, <1>2, <1>4, <2>2 DEF Refracted
  <2>. QED
    BY <2>1, <2>2
<1>6. RefractedFired'
  <2>. SUFFICES ASSUME NEW k \in DOMAIN runs, NEW e \in Refracted(k)'
                PROVE  e \in runs'[k].fired /\ Block[e.rule] \in Blocks(runs'[k])
    BY <1>4 DEF RefractedFired
  <2>1. Blocks(runs'[k]) = Blocks(runs[k])
    BY <1>5 DEF Blocks
  <2>2. CASE e \in Refracted(k)
    BY <1>5, <2>1, <2>2 DEF History, RefractedFired
  <2>3. CASE e \notin Refracted(k)
    <3>1. k = n /\ e = w
      BY <1>5, <2>3
    <3>. QED
      BY <1>1, <1>2, <1>5, <2>1, <3>1 DEF b
  <2>. QED
    BY <2>2, <2>3
<1>7. CacheOfLater'
  <2>. SUFFICES ASSUME NEW j \in DOMAIN runs, NEW e \in Refracted(j)',
                       css'[Block[e.rule]].cached # InvalidCache
                PROVE  \E k \in DOMAIN runs : j <= k /\ css'[Block[e.rule]].cached = runs[k].rs
    BY <1>4, <1>5 DEF CacheOfLater
  <2>1. CASE Block[e.rule] = b
    <3>1. css'[b].cached = rs
      BY <1>1 DEF Refracts
    <3>2. n \in DOMAIN runs /\ j <= n /\ rs = runs[n].rs
      BY <1>2 DEF rs
    <3>. QED
      BY <2>1, <3>1, <3>2
  <2>2. CASE Block[e.rule] # b
    <3>1. e \in Refracted(j)
      BY <1>5, <2>2 DEF b
    <3>2. Block[e.rule] \in RulingBlocks
      BY <3>1, RunsTyped DEF History, RefractedFired
    <3>3. css'[Block[e.rule]] = css[Block[e.rule]]
      BY <1>1, <2>2, <3>2
    <3>. QED
      BY <3>1, <3>3 DEF History, CacheOfLater
  <2>. QED
    BY <2>1, <2>2
<1>8. FlagsSound'
  <2>. SUFFICES ASSUME NEW rb \in RulingBlocks, Registered(rb)',
                       NEW e \in DOMAIN css'[rb].refracted, css'[rb].refracted[e] = TRUE
                PROVE  /\ css'[rb].cached # NoRefSet
                       /\ css'[rb].cached \in RefSets => e \in refsets'[css'[rb].cached]
    BY DEF FlagsSound
  <2>1. CASE rb = b
    <3>0. css'[rb].cached = rs /\ rs # NoRefSet
      BY <1>1, <2>1 DEF Refracts, Distinct
    <3>1. e \in refsets[rs] \/ e = w
      <4>. SUFFICES ASSUME e # w PROVE e \in refsets[rs]
        OBVIOUS
      <4>. DEFINE c == css[b]
                  d == css'[b]
      <4>1. Refracts(d, c, w, rs)
        BY <1>1
      <4>2. e \in DOMAIN d.refracted /\ d.refracted[e] = TRUE
        BY <2>1
      <4>3. \A x \in DOMAIN c.refracted : c.refracted[x] = TRUE =>
              /\ c.cached # NoRefSet
              /\ c.cached \in RefSets => x \in refsets[c.cached]
        BY <1>1 DEF History, FlagsSound
      <4>. HIDE DEF c, d
      <4>4. e \in DOMAIN c.refracted
        BY <4>1, <4>2 DEF Refracts
      <4>5. CASE c.cached \in {rs, NoRefSet}
        <5>1. c.refracted[e] = TRUE
          BY <4>1, <4>2, <4>4, <4>5 DEF Refracts
        <5>. QED
          BY <1>1, <4>3, <4>4, <4>5, <5>1
      <4>6. CASE c.cached \notin {rs, NoRefSet}
        <5>1. d.refracted[e] = (e \in refsets[rs])
          BY <4>1, <4>4, <4>6 DEF Refracts
        <5>. QED
          BY <4>2, <5>1
      <4>. QED
        BY <4>5, <4>6
    <3>. QED
      BY <1>1, <3>0, <3>1
  <2>2. CASE rb # b
    <3>1. css'[rb] = css[rb] /\ Registered(rb)
      BY <1>1, <2>2 DEF Registered
    <3>2. /\ css[rb].cached # NoRefSet
          /\ css[rb].cached \in RefSets => e \in refsets[css[rb].cached]
      BY <3>1 DEF History, FlagsSound
    <3>. QED
      BY <1>1, <3>1, <3>2
  <2>. QED
    BY <2>1, <2>2
<1>. QED
  BY <1>6, <1>7, <1>8 DEF History

LEMMA HistoryExit ==
  ASSUME Distinct, History, Inv', ExitEntryBlock
  PROVE  History'
<1>. DEFINE n == Len(runs)
            rs == Running.rs
<1>1. /\ runs # << >>
      /\ \A a \in RefSets : a # rs => refsets'[a] = refsets[a]
      /\ DOMAIN runs' = DOMAIN runs \ {n}
      /\ \A k \in DOMAIN runs : k # n => runs'[k] = runs[k] /\ runs[k].rs # rs
      /\ \A rb \in RulingBlocks : Registered(rb)' =>
           /\ Registered(rb) /\ css'[rb].refracted = css[rb].refracted
           /\ css'[rb].cached = IF css[rb].cached = rs THEN InvalidCache ELSE css[rb].cached
  BY ExitSeen DEF History
<1>2. /\ DOMAIN runs = 1 .. n /\ n \in Nat /\ n \in DOMAIN runs /\ runs[n].rs = rs
      /\ \A k \in DOMAIN runs : runs[k].rs \in RefSets
  BY <1>1, RunningType, RunsTyped DEF History, Inv, Running
<1>. HIDE DEF n, rs
<1>3. ASSUME NEW k \in DOMAIN runs'
      PROVE  k \in DOMAIN runs /\ runs'[k] = runs[k] /\ Refracted(k)' = Refracted(k)
  BY <1>1, <1>2 DEF Refracted
<1>4. RefractedFired'
  BY <1>3 DEF History, RefractedFired
<1>5. CacheOfLater'
  <2>. SUFFICES ASSUME NEW j \in DOMAIN runs', NEW e \in Refracted(j),
                       css'[Block[e.rule]].cached # InvalidCache
                PROVE  \E k \in DOMAIN runs' : j <= k /\ css'[Block[e.rule]].cached = runs'[k].rs
    BY <1>3 DEF CacheOfLater
  <2>1. Block[e.rule] \in Blocks(runs'[j]) /\ Block[e.rule] \in RulingBlocks
    BY <1>3, RunsTyped DEF History, RefractedFired
  <2>2. Registered(Block[e.rule])'
    BY <2>1 DEF Inv, UsesExact, Users
  <2>3. css[Block[e.rule]].cached # rs /\ css'[Block[e.rule]].cached = css[Block[e.rule]].cached
    BY <1>1, <2>1, <2>2
  <2>4. PICK k \in DOMAIN runs : j <= k /\ css[Block[e.rule]].cached = runs[k].rs
    BY <1>3, <2>3 DEF History, CacheOfLater
  <2>5. k # n
    BY <1>2, <2>3, <2>4
  <2>. QED
    BY <1>1, <2>3, <2>4, <2>5
<1>6. FlagsSound'
  <2>. SUFFICES ASSUME NEW rb \in RulingBlocks, Registered(rb)',
                       NEW e \in DOMAIN css'[rb].refracted, css'[rb].refracted[e] = TRUE
                PROVE  /\ css'[rb].cached # NoRefSet
                       /\ css'[rb].cached \in RefSets => e \in refsets'[css'[rb].cached]
    BY DEF FlagsSound
  <2>1. /\ css[rb].cached # NoRefSet
        /\ css[rb].cached \in RefSets => e \in refsets[css[rb].cached]
    BY <1>1 DEF History, FlagsSound
  <2>. QED
    BY <1>1, <2>1 DEF Distinct
<1>. QED
  BY <1>4, <1>5, <1>6 DEF History

\* A step of CodeReturns that is neither the end of a firing nor of a run.
LEMMA GoneOn ==
  ASSUME History, Inv', NEW p, Goto(p), runs # << >>, UNCHANGED <<clock, wm, css, refsets>>
  PROVE  History'
<1>1. Len(runs) \in DOMAIN runs /\ \A k \in DOMAIN runs : runs[k] \in Run
  BY RunningType DEF History, Inv
<1>2. DOMAIN runs' = DOMAIN runs
      /\ \A k \in DOMAIN runs : /\ runs'[k].eb = runs[k].eb /\ runs'[k].rs = runs[k].rs
                                /\ runs[k].fired \subseteq runs'[k].fired
  BY <1>1 DEF Goto, Run
<1>. QED
  BY <1>2, HistoryKept

LEMMA HistoryRhs ==
  ASSUME Distinct, History, Inv', RhsReturned
  PROVE  History'
<1>1. runs # << >> /\ Running.pc = "rhs"
  BY DEF RhsReturned
<1>2. ASSUME NEW p \in {"exit", "every"}, EndFiring(p), UNCHANGED <<css, refsets>>
      PROVE  History'
  <2>1. Len(runs) \in DOMAIN runs /\ \A k \in DOMAIN runs : runs[k] \in Run
    BY <1>1, RunningType DEF History, Inv
  <2>2. DOMAIN runs' = DOMAIN runs
        /\ \A k \in DOMAIN runs : /\ runs'[k].eb = runs[k].eb /\ runs'[k].rs = runs[k].rs
                                  /\ runs[k].fired \subseteq runs'[k].fired
    BY <1>2, <2>1 DEF EndFiring, Run, Running
  <2>. QED
    BY <1>2, <2>2, HistoryKept
<1>3. CASE EndFiring("exit") /\ UNCHANGED <<css, refsets>>
  BY <1>2, <1>3
<1>4. CASE EndFiring("every") /\ UNCHANGED <<css, refsets>>
  BY <1>2, <1>4
<1>5. CASE /\ EndFiring("every")
           /\ css' = [css EXCEPT ![Block[Running.win.rule]] =
                                    Refract(@, Running.win, Running.rs)]
           /\ refsets' = [refsets EXCEPT ![Running.rs] = @ \cup {Running.win}]
  BY <1>1, <1>5, HistoryRefract
<1>. QED
  BY <1>3, <1>4, <1>5 DEF RhsReturned

LEMMA HistoryNext ==
  ASSUME Distinct, History, [Next]_vars
  PROVE  History'
<1>0. Inv'
  BY NextInv DEF History
<1>1. CASE ChangeWM
  BY <1>0, <1>1, HistoryKept DEF ChangeWM
<1>2. ASSUME NEW n \in 1 .. MaxAfter, After(n) PROVE History'
  <2>1. Len(runs) \in DOMAIN runs /\ \A k \in DOMAIN runs : runs[k] \in Run
    BY <1>2, RunningType DEF History, Inv, After
  <2>2. DOMAIN runs' = DOMAIN runs
        /\ \A k \in DOMAIN runs : /\ runs'[k].eb = runs[k].eb /\ runs'[k].rs = runs[k].rs
                                  /\ runs[k].fired \subseteq runs'[k].fired
    BY <1>2, <2>1 DEF After, Run
  <2>. QED
    BY <1>0, <1>2, <2>2, HistoryKept DEF After
<1>3. CASE \E eb \in EntryBlocks, a \in RefSets : EnterEntryBlock(eb, a)
  BY <1>0, <1>3, HistoryEnter
<1>4. CASE Recognize
  BY <1>0, <1>4, HistorySearch
<1>5. ASSUME NEW p, NEW q, Returned(p, q) PROVE History'
  BY <1>0, <1>5, GoneOn DEF Returned
<1>6. CASE CodeReturns
  <2>1. CASE OnEntryReturned
    BY <2>1, <1>5 DEF OnEntryReturned
  <2>2. CASE RhsReturned
    BY <2>2, <1>0, HistoryRhs
  <2>3. CASE RhsReturnedFreed
    BY <2>3, <1>0, GoneOn DEF RhsReturnedFreed
  <2>4. CASE OnEveryReturned
    BY <2>4, <1>5 DEF OnEveryReturned
  <2>5. CASE CatcherReturned
    BY <2>5, <1>5 DEF CatcherReturned
  <2>6. CASE OnEmptyReturned
    BY <2>6, <1>5 DEF OnEmptyReturned
  <2>7. CASE ExitEntryBlock
    BY <2>7, <1>0, HistoryExit
  <2>. QED
    BY <1>6, <2>1, <2>2, <2>3, <2>4, <2>5, <2>6, <2>7 DEF CodeReturns
<1>7. CASE UNCHANGED vars
  BY <1>0, <1>7, HistoryKept DEF vars
<1>. QED
  BY <1>1, <1>2, <1>3, <1>4, <1>6, <1>7 DEF Next

LEMMA HistoryInit ==
  ASSUME Distinct, Init
  PROVE  History
<1>1. Inv
  BY InitInv
<1>2. DOMAIN runs = {} /\ \A rb \in RulingBlocks : ~Registered(rb)
  BY DEF Init, Registered
<1>. QED
  BY <1>1, <1>2 DEF History, RefractedFired, CacheOfLater, FlagsSound

-----------------------------------------------------------------------------
(* Conflict resolution finds a best entry where there is an entry at all.  *)

Bests(C) == {w \in C : \A e \in C : ~Better(e, w)}

\* A smallest set of entries without a best one would lose it with an element.
LEMMA BestExists ==
  ASSUME Resolvable, NEW C \in SUBSET Cse, C # {}
  PROVE  Bests(C) # {}
<1>. DEFINE S == FiniteSubsetsOf(Cse)
            R == StrictSubsetOrdering(Cse)
            Bad == {D \in S : D # {} /\ Bests(D) = {}}
<1>1. C \in S
  BY FS_Subset DEF Resolvable, FiniteSubsetsOf
<1>2. Bad = {}
  <2>. SUFFICES ASSUME Bad # {} PROVE FALSE
    OBVIOUS
  <2>1. IsWellFoundedOn(R, S)
    BY FS_StrictSubsetOrderingWellFounded
  <2>2. Bad \subseteq S
    OBVIOUS
  <2>. HIDE DEF Bad, R, S
  <2>3. PICK D \in Bad : \A E \in Bad : ~(<<E, D>> \in R)
    BY <2>1, <2>2, WFMin
  <2>4. D \in SUBSET Cse /\ IsFiniteSet(D) /\ D # {} /\ Bests(D) = {}
    BY DEF Bad, S, FiniteSubsetsOf
  <2>5. PICK x \in D : TRUE
    BY <2>4
  <2>. DEFINE E == D \ {x}
  <2>6. E \in SUBSET Cse /\ IsFiniteSet(E) /\ E \subseteq D /\ E # D
    BY <2>4, <2>5, FS_RemoveElement
  <2>7. <<E, D>> \in R
    BY <2>4, <2>6 DEF R, StrictSubsetOrdering
  <2>8. E \notin Bad
    BY <2>3, <2>7
  <2>9. E # {} => Bests(E) # {}
    BY <2>6, <2>8 DEF Bad, S, FiniteSubsetsOf
  <2>10. CASE E = {}
    <3>1. D = {x}
      BY <2>5, <2>10
    <3>2. x \in Bests(D)
      BY <2>4, <3>1 DEF Bests, Resolvable
    <3>. QED
      BY <2>4, <3>2
  <2>11. CASE E # {}
    <3>1. PICK w \in E : \A e \in E : ~Better(e, w)
      BY <2>9, <2>11 DEF Bests
    <3>2. w \in D /\ w \in Cse /\ x \in Cse /\ \A e \in D : e # x => e \in E
      BY <2>4, <2>5, <3>1
    <3>3. CASE Better(x, w)
      <4>1. \A e \in D : ~Better(e, x)
        BY <2>4, <3>1, <3>2, <3>3 DEF Resolvable
      <4>2. x \in Bests(D)
        BY <2>5, <4>1 DEF Bests
      <4>. QED
        BY <2>4, <4>2
    <3>4. CASE ~Better(x, w)
      <4>1. \A e \in D : ~Better(e, w)
        BY <3>1, <3>2, <3>4
      <4>2. w \in Bests(D)
        BY <3>2, <4>1 DEF Bests
      <4>. QED
        BY <2>4, <4>2
    <3>. QED
      BY <3>3, <3>4
  <2>. QED
    BY <2>10, <2>11
<1>. QED
  BY <1>1, <1>2

\* A run finds no winner only when every instantiation of its blocks is
\* refracted, and it refracted each one because it had fired it.
LEMMA GivesUpStep ==
  ASSUME Distinct, Resolvable, History, Recognize, runs'[Len(runs)].pc = "empty",
         NEW rb \in Blocks(Running)
  PROVE  Instantiations(rb) \subseteq Running.fired
<1>1. runs # << >> /\ Winners(css', Blocks(Running)) = {}
  <2>1. runs # << >>
    BY DEF Recognize
  <2>2. Len(runs) \in DOMAIN runs
    BY <2>1, RunningType DEF History, Inv
  <2>. QED
    BY <2>1, <2>2, MarkedRuns DEF History
<1>2. Len(runs) \in DOMAIN runs /\ Running = runs[Len(runs)]
  BY <1>1, RunningType DEF History, Inv, Running
<1>. DEFINE C == UNION {{e \in DOMAIN css'[b].refracted : css'[b].refracted[e] = FALSE}
                          : b \in Blocks(Running)}
<1>3. C \in SUBSET Cse
  <2>. SUFFICES ASSUME NEW b \in Blocks(Running), NEW e \in DOMAIN css'[b].refracted
                PROVE  e \in Cse
    OBVIOUS
  <2>1. b \in RulingBlocks /\ e \in Instantiations(b)
    BY SearchFlags
  <2>. QED
    BY <2>1, InstantiationsType DEF History, Inv, EntriesOf
<1>4. C = {}
  <2>1. Winners(css', Blocks(Running)) = Bests(C)
    BY DEF Winners, Bests
  <2>. HIDE DEF C
  <2>. QED
    BY <1>1, <1>3, <2>1, BestExists
<1>5. ASSUME NEW e \in Instantiations(rb)
      PROVE  e \in Running.fired
  <2>1. e \in DOMAIN css'[rb].refracted /\ css'[rb].refracted[e] \in BOOLEAN
    BY SearchFlags
  <2>2. css'[rb].refracted[e] # FALSE
    <3>. SUFFICES ASSUME css'[rb].refracted[e] = FALSE PROVE FALSE
      OBVIOUS
    <3>1. e \in {x \in DOMAIN css'[rb].refracted : css'[rb].refracted[x] = FALSE}
      BY <2>1
    <3>2. e \in C
      BY <3>1
    <3>. HIDE DEF C
    <3>. QED
      BY <1>4, <3>2
  <2>3. css'[rb].refracted[e] = TRUE
    BY <2>1, <2>2
  <2>4. e \in refsets[Running.rs]
    BY <2>1, <2>3, SearchFlags
  <2>. QED
    BY <1>2, <2>4 DEF History, RefractedFired, Refracted
<1>. QED
  BY <1>5

\* Of every program, however its entry blocks call one another: a run finds no
\* winner only when it has fired every instantiation that working memory
\* satisfies, whatever other runs refracted in the conflict sets they share.
THEOREM GivesUpOnlyWhenDone ==
  ASSUME Distinct, Resolvable
  PROVE  Spec => GivesUpHonestly
<1>1. Init => History
  BY HistoryInit
<1>2. History /\ [Next]_vars => History'
  BY HistoryNext
<1>3. History /\ [Next]_vars =>
        [(Recognize /\ runs'[Len(runs)].pc = "empty") =>
           \A rb \in Blocks(Running) : Instantiations(rb) \subseteq Running.fired]_vars
  BY GivesUpStep
<1>. QED
  BY <1>1, <1>2, <1>3, PTL DEF Spec, GivesUpHonestly

-----------------------------------------------------------------------------
(* Disjoint runs.                                                          *)

\* A cache is for a run that activates the ruling block.
CacheOwned ==
  \A rb \in RulingBlocks : Registered(rb) /\ css[rb].cached \in RefSets =>
    \E k \in DOMAIN runs : css[rb].cached = runs[k].rs /\ rb \in Blocks(runs[k])

\* The flags are those of the refraction set in the cache.
FlagsExact ==
  \A rb \in RulingBlocks : Registered(rb) /\ css[rb].cached \in RefSets =>
    \A e \in DOMAIN css[rb].refracted :
      css[rb].refracted[e] = TRUE <=> e \in refsets[css[rb].cached]

\* No time tag is in the future.
Past(e) == \A k \in DOMAIN e.tags : e.tags[k] <= clock
TagsPast ==
  /\ \A i \in Ids : wm[i] # Absent => wm[i].tag <= clock
  /\ \A k \in DOMAIN runs :
       /\ runs[k].pc = "rhs" => Past(runs[k].win)
       /\ \A e \in runs[k].fired : Past(e)

\* What a run has fired is refracted or can match no more, unless it is leaving.
FiredGone ==
  \A k \in DOMAIN runs : runs[k].pc # "exit" =>
    \A e \in runs[k].fired : e \in Refracted(k) \/ ~StillValid(e)

\* A run fires nothing that it has fired, and only while it fires has it a winner.
WinnersFresh ==
  \A k \in DOMAIN runs :
    /\ runs[k].pc = "rhs" => runs[k].win \notin runs[k].fired
    /\ runs[k].pc # "rhs" => runs[k].win = NoWinner
    /\ runs[k].pc # "undefined" /\ ~runs[k].winFreed

Caches == History /\ Disjoint /\ CacheOwned /\ FlagsExact
Firings == TagsPast /\ FiredGone /\ WinnersFresh

LEMMA CseFields ==
  ASSUME NEW e \in Cse
  PROVE  /\ e.rule \in Rules /\ DOMAIN e.tags = DOMAIN e.ids
         /\ \A k \in DOMAIN e.ids : e.ids[k] \in Ids /\ e.tags[k] \in 1 .. MaxTag
<1>1. PICK r \in Rules :
        e \in [rule : {r}, ids : Tuples(r), tags : [1 .. Len(Wants[r]) -> 1 .. MaxTag]]
  BY DEF Cse
<1>2. /\ e.rule = r /\ e.ids \in [1 .. Len(Wants[r]) -> Ids]
      /\ e.tags \in [1 .. Len(Wants[r]) -> 1 .. MaxTag]
  BY <1>1 DEF Tuples
<1>. QED
  BY <1>2

LEMMA InstantiationsNow ==
  ASSUME Inv, TagsPast, NEW rb \in RulingBlocks, NEW e \in Instantiations(rb)
  PROVE  e \in Cse /\ Block[e.rule] = rb /\ StillValid(e) /\ Past(e)
<1>1. e \in Cse /\ Block[e.rule] = rb
  BY InstantiationsType DEF Inv, EntriesOf
<1>2. PICK r \in Rules : \E t \in Tuples(r) :
        /\ Satisfied(r, t)
        /\ e = [rule |-> r, ids |-> t, tags |-> [k \in DOMAIN t |-> wm[t[k]].tag]]
  BY DEF Instantiations
<1>3. PICK ids \in Tuples(r) :
        /\ Satisfied(r, ids)
        /\ e = [rule |-> r, ids |-> ids, tags |-> [k \in DOMAIN ids |-> wm[ids[k]].tag]]
  BY <1>2
<1>4. /\ e.ids = ids /\ DOMAIN e.tags = DOMAIN ids
      /\ \A k \in DOMAIN ids : e.tags[k] = wm[ids[k]].tag /\ ids[k] \in Ids /\ wm[ids[k]] # Absent
  BY <1>3 DEF Satisfied, Tuples
<1>5. StillValid(e)
  BY <1>4 DEF StillValid
<1>6. Past(e)
  BY <1>4 DEF Past, TagsPast
<1>. QED
  BY <1>1, <1>5, <1>6

-----------------------------------------------------------------------------
(* Flags match the cache.                                                  *)

LEMMA CachesKept ==
  ASSUME Caches, History', Disjoint', UNCHANGED <<css, refsets>>, DOMAIN runs' = DOMAIN runs,
         \A k \in DOMAIN runs : runs'[k].eb = runs[k].eb /\ runs'[k].rs = runs[k].rs
  PROVE  Caches'
<1>1. CacheOwned'
  BY DEF Caches, CacheOwned, Registered, Blocks
<1>2. FlagsExact'
  BY DEF Caches, FlagsExact, Registered
<1>. QED
  BY <1>1, <1>2 DEF Caches

LEMMA CachesEnter ==
  ASSUME Distinct, Caches, History', Disjoint',
         NEW eb \in EntryBlocks, NEW a \in RefSets, EnterEntryBlock(eb, a)
  PROVE  Caches'
<1>1. /\ refsets[a] = Free
      /\ \A b \in RefSets : b # a => refsets'[b] = refsets[b]
      /\ DOMAIN runs' = DOMAIN runs \cup {Len(runs) + 1}
      /\ \A k \in DOMAIN runs : runs'[k] = runs[k]
      /\ \A rb \in RulingBlocks : Registered(rb) =>
           /\ Registered(rb)' /\ css'[rb].cached = css[rb].cached
           /\ css'[rb].refracted = css[rb].refracted
      /\ \A rb \in RulingBlocks : ~Registered(rb) /\ Registered(rb)' =>
           css'[rb].cached = NoRefSet
  BY EnterSeen DEF Caches, History
<1>2. ASSUME NEW rb \in RulingBlocks, Registered(rb)', css'[rb].cached \in RefSets
      PROVE  /\ Registered(rb) /\ css'[rb].cached = css[rb].cached
             /\ css'[rb].refracted = css[rb].refracted
             /\ refsets'[css[rb].cached] = refsets[css[rb].cached]
  <2>1. Registered(rb)
    BY <1>1, <1>2 DEF Distinct
  <2>2. css'[rb].cached = css[rb].cached /\ css'[rb].refracted = css[rb].refracted
    BY <1>1, <2>1
  <2>3. css[rb].cached # a
    BY <1>1, <1>2, <2>1, <2>2 DEF Caches, History, Inv, CacheLive
  <2>. QED
    BY <1>1, <1>2, <2>1, <2>2, <2>3
<1>3. CacheOwned'
  BY <1>1, <1>2 DEF Caches, CacheOwned, Blocks
<1>4. FlagsExact'
  BY <1>2 DEF Caches, FlagsExact
<1>. QED
  BY <1>3, <1>4 DEF Caches

\* With disjoint runs only the run that searches can be the one in the cache.
LEMMA SearchExact ==
  ASSUME Distinct, Caches, Recognize, NEW rb \in Blocks(Running)
  PROVE  /\ rb \in RulingBlocks /\ Registered(rb)
         /\ css'[rb].cached \in {Running.rs, InvalidCache}
         /\ DOMAIN css'[rb].refracted = Instantiations(rb)
         /\ \A e \in DOMAIN css'[rb].refracted :
              /\ css'[rb].refracted[e] \in BOOLEAN
              /\ css'[rb].refracted[e] = TRUE <=> e \in refsets[Running.rs]
<1>. DEFINE rs == Running.rs
            n == Len(runs)
<1>1. runs # << >> /\ css' = AfterUpdate(Running)
  BY DEF Recognize
<1>2. /\ n \in DOMAIN runs /\ Running = runs[n] /\ rs \in RefSets
      /\ Blocks(Running) \subseteq RulingBlocks
  BY <1>1, RunningType, BlocksType DEF Caches, History, Inv, Run, Running
<1>. HIDE DEF rs, n
<1>3. /\ Registered(rb) /\ rb \in RulingBlocks
      /\ css'[rb].cached = IF css[rb].cached = NoRefSet THEN rs ELSE css[rb].cached
      /\ DOMAIN css'[rb].refracted = Instantiations(rb)
      /\ \A e \in Instantiations(rb) :
           css'[rb].refracted[e] = IF css[rb].cached \in {NoRefSet, rs}
                                   THEN IF e \in DOMAIN css[rb].refracted
                                        THEN css[rb].refracted[e]
                                        ELSE css[rb].cached = rs /\ e \in refsets[rs]
                                   ELSE e \in refsets[rs]
      /\ \A e \in DOMAIN css'[rb].refracted : css'[rb].refracted[e] \in BOOLEAN
  BY <1>1, <1>2, SearchProperties DEF Caches, History, rs
<1>4. css[rb].cached \in {NoRefSet, InvalidCache, rs}
  <2>1. css[rb].cached \in CacheType
    <3>1. css[rb] \in ConflictSet
      BY <1>3 DEF Caches, History, Inv, Types, Registered
    <3>. QED
      BY <3>1, ConflictSetFields
  <2>2. ASSUME css[rb].cached \in RefSets PROVE css[rb].cached = rs
    <3>1. PICK k \in DOMAIN runs : css[rb].cached = runs[k].rs /\ rb \in Blocks(runs[k])
      BY <1>3, <2>2 DEF Caches, CacheOwned
    <3>2. k = n
      BY <1>2, <3>1 DEF Caches, Disjoint
    <3>. QED
      BY <1>2, <3>1, <3>2 DEF rs
  <2>. QED
    BY <2>1, <2>2 DEF CacheType
<1>5. ASSUME NEW e \in Instantiations(rb)
      PROVE  css'[rb].refracted[e] = TRUE <=> e \in refsets[rs]
  <2>1. CASE css[rb].cached = InvalidCache
    <3>1. css[rb].cached \notin {NoRefSet, rs}
      BY <1>2, <2>1 DEF Distinct
    <3>. QED
      BY <1>3, <3>1
  <2>2. CASE css[rb].cached = rs
    <3>1. e \in DOMAIN css[rb].refracted =>
            (css[rb].refracted[e] = TRUE <=> e \in refsets[rs])
      BY <1>2, <1>3, <2>2 DEF Caches, FlagsExact
    <3>. QED
      BY <1>3, <2>2, <3>1
  <2>3. CASE css[rb].cached = NoRefSet
    <3>1. Block[e.rule] = rb
      BY <1>3, InstantiationsType DEF Caches, History, Inv, EntriesOf
    <3>2. e \notin Refracted(n)
      BY <1>2, <2>3, <3>1, RunsTyped DEF Caches, History, CacheOfLater, Distinct
    <3>3. e \notin refsets[rs]
      BY <1>2, <3>2 DEF Refracted, rs
    <3>4. e \in DOMAIN css[rb].refracted => css[rb].refracted[e] # TRUE
      BY <1>3, <2>3 DEF Caches, History, FlagsSound
    <3>. QED
      BY <1>3, <2>3, <3>3, <3>4
  <2>. QED
    BY <1>4, <2>1, <2>2, <2>3
<1>6. css'[rb].cached \in {rs, InvalidCache}
  BY <1>3, <1>4 DEF Distinct
<1>. QED
  BY <1>3, <1>5, <1>6 DEF rs

LEMMA CachesSearch ==
  ASSUME Distinct, Caches, History', Disjoint', Recognize
  PROVE  Caches'
<1>1. /\ UNCHANGED refsets /\ css' = AfterUpdate(Running)
      /\ DOMAIN runs' = DOMAIN runs /\ runs # << >>
      /\ \A k \in DOMAIN runs : runs'[k].eb = runs[k].eb /\ runs'[k].rs = runs[k].rs
  BY MarkedRuns DEF Caches, History
<1>2. Len(runs) \in DOMAIN runs /\ Running = runs[Len(runs)]
  BY <1>1, RunningType DEF Caches, History, Inv, Running
<1>3. ASSUME NEW rb \in RulingBlocks, rb \notin Blocks(Running)
      PROVE  css'[rb] = css[rb]
  BY <1>1, <1>3 DEF AfterUpdate
<1>4. CacheOwned'
  <2>. SUFFICES ASSUME NEW rb \in RulingBlocks, Registered(rb)', css'[rb].cached \in RefSets
                PROVE  \E k \in DOMAIN runs : /\ css'[rb].cached = runs[k].rs
                                              /\ rb \in Blocks(runs[k])
    BY <1>1 DEF CacheOwned, Blocks
  <2>1. CASE rb \in Blocks(Running)
    <3>1. css'[rb].cached = Running.rs
      BY <2>1, SearchExact DEF Distinct
    <3>. QED
      BY <1>2, <2>1, <3>1
  <2>2. CASE rb \notin Blocks(Running)
    BY <1>3, <2>2 DEF Caches, CacheOwned, Registered
  <2>. QED
    BY <2>1, <2>2
<1>5. FlagsExact'
  <2>. SUFFICES ASSUME NEW rb \in RulingBlocks, Registered(rb)', css'[rb].cached \in RefSets,
                       NEW e \in DOMAIN css'[rb].refracted
                PROVE  css'[rb].refracted[e] = TRUE <=> e \in refsets'[css'[rb].cached]
    BY DEF FlagsExact
  <2>1. CASE rb \in Blocks(Running)
    <3>1. css'[rb].cached = Running.rs
      BY <2>1, SearchExact DEF Distinct
    <3>. QED
      BY <1>1, <2>1, <3>1, SearchExact
  <2>2. CASE rb \notin Blocks(Running)
    BY <1>1, <1>3, <2>2 DEF Caches, FlagsExact, Registered
  <2>. QED
    BY <2>1, <2>2
<1>. QED
  BY <1>4, <1>5 DEF Caches

LEMMA CachesRefract ==
  ASSUME Distinct, Caches, History', Disjoint', runs # << >>, Running.pc = "rhs",
         DOMAIN runs' = DOMAIN runs,
         \A k \in DOMAIN runs : runs'[k].eb = runs[k].eb /\ runs'[k].rs = runs[k].rs,
         css' = [css EXCEPT ![Block[Running.win.rule]] = Refract(@, Running.win, Running.rs)],
         refsets' = [refsets EXCEPT ![Running.rs] = @ \cup {Running.win}]
  PROVE  Caches'
<1>. DEFINE n == Len(runs)
            rs == Running.rs
            w == Running.win
            b == Block[w.rule]
<1>1. /\ w \in Cse /\ rs \in RefSets /\ b \in Blocks(Running) /\ b \in RulingBlocks
      /\ refsets'[rs] = refsets[rs] \cup {w} /\ Registered(b)
      /\ \A a \in RefSets : a # rs => refsets'[a] = refsets[a]
      /\ \A rb \in RulingBlocks : rb # b => css'[rb] = css[rb]
      /\ Refracts(css'[b], css[b], w, rs)
  BY RefractSeen DEF Caches, History
<1>2. n \in DOMAIN runs /\ Running = runs[n] /\ runs[n].rs = rs
  BY RunningType DEF Caches, History, Inv, Running
<1>. HIDE DEF n, rs, w, b
<1>3. css'[b].cached = rs
  BY <1>1 DEF Refracts
<1>4. CacheOwned'
  <2>. SUFFICES ASSUME NEW rb \in RulingBlocks, Registered(rb)', css'[rb].cached \in RefSets
                PROVE  \E k \in DOMAIN runs : /\ css'[rb].cached = runs[k].rs
                                              /\ rb \in Blocks(runs[k])
    BY DEF CacheOwned, Blocks
  <2>1. CASE rb = b
    BY <1>1, <1>2, <1>3, <2>1
  <2>2. CASE rb # b
    BY <1>1, <2>2 DEF Caches, CacheOwned, Registered
  <2>. QED
    BY <2>1, <2>2
<1>5. FlagsExact'
  <2>. SUFFICES ASSUME NEW rb \in RulingBlocks, Registered(rb)', css'[rb].cached \in RefSets,
                       NEW e \in DOMAIN css'[rb].refracted
                PROVE  css'[rb].refracted[e] = TRUE <=> e \in refsets'[css'[rb].cached]
    BY DEF FlagsExact
  <2>1. CASE rb = b
    <3>. DEFINE c == css[b]
                d == css'[b]
    <3>1. Refracts(d, c, w, rs) /\ e \in DOMAIN d.refracted
      BY <1>1, <2>1
    <3>2. c.cached = rs => \A x \in DOMAIN c.refracted :
                             c.refracted[x] = TRUE <=> x \in refsets[rs]
      BY <1>1 DEF Caches, FlagsExact
    <3>3. c.cached = NoRefSet => \A x \in DOMAIN c.refracted : c.refracted[x] # TRUE
      BY <1>1 DEF Caches, History, FlagsSound
    <3>4. c.cached = NoRefSet => \A x \in DOMAIN c.refracted : x \notin refsets[rs]
      <4>. SUFFICES ASSUME c.cached = NoRefSet, NEW x \in DOMAIN c.refracted, x \in refsets[rs]
                    PROVE  FALSE
        OBVIOUS
      <4>1. Block[x.rule] = b
        BY <1>1 DEF Caches, History, Inv, OwnEntries, EntriesOf
      <4>2. x \in Refracted(n)
        BY <1>2 DEF Refracted
      <4>. QED
        BY <1>2, <4>1, <4>2, RunsTyped DEF Caches, History, CacheOfLater, Distinct
    <3>. HIDE DEF c, d
    <3>5. e \in DOMAIN c.refracted
      BY <3>1 DEF Refracts
    <3>6. e # w => (d.refracted[e] = TRUE <=> e \in refsets[rs])
      <4>1. ASSUME e # w, c.cached \in {rs, NoRefSet}
            PROVE  d.refracted[e] = TRUE <=> e \in refsets[rs]
        <5>1. d.refracted[e] = c.refracted[e]
          BY <3>1, <3>5, <4>1 DEF Refracts
        <5>. QED
          BY <3>2, <3>3, <3>4, <3>5, <4>1, <5>1
      <4>2. ASSUME e # w, c.cached \notin {rs, NoRefSet}
            PROVE  d.refracted[e] = TRUE <=> e \in refsets[rs]
        <5>1. d.refracted[e] = (e \in refsets[rs])
          BY <3>1, <3>5, <4>2 DEF Refracts
        <5>. QED
          BY <5>1
      <4>. QED
        BY <4>1, <4>2
    <3>7. e = w => d.refracted[e] = TRUE
      BY <3>1, <3>5 DEF Refracts
    <3>8. d.refracted[e] = TRUE <=> e \in refsets'[rs]
      BY <1>1, <3>6, <3>7
    <3>. QED
      BY <1>3, <2>1, <3>8 DEF d
  <2>2. CASE rb # b
    <3>1. css'[rb] = css[rb] /\ Registered(rb)
      BY <1>1, <2>2 DEF Registered
    <3>2. css[rb].refracted[e] = TRUE <=> e \in refsets[css[rb].cached]
      BY <3>1 DEF Caches, FlagsExact
    <3>3. Block[e.rule] = rb
      BY <3>1 DEF Caches, History, Inv, OwnEntries, EntriesOf
    <3>4. e # w
      BY <2>2, <3>3 DEF b
    <3>5. e \in refsets'[css[rb].cached] <=> e \in refsets[css[rb].cached]
      BY <1>1, <3>1, <3>4
    <3>. QED
      BY <3>1, <3>2, <3>5
  <2>. QED
    BY <2>1, <2>2
<1>. QED
  BY <1>4, <1>5 DEF Caches

LEMMA CachesExit ==
  ASSUME Distinct, Caches, History', Disjoint', ExitEntryBlock
  PROVE  Caches'
<1>. DEFINE n == Len(runs)
            rs == Running.rs
<1>1. /\ runs # << >>
      /\ \A a \in RefSets : a # rs => refsets'[a] = refsets[a]
      /\ DOMAIN runs' = DOMAIN runs \ {n}
      /\ \A k \in DOMAIN runs : k # n => runs'[k] = runs[k]
      /\ \A rb \in RulingBlocks : Registered(rb)' =>
           /\ Registered(rb) /\ css'[rb].refracted = css[rb].refracted
           /\ css'[rb].cached = IF css[rb].cached = rs THEN InvalidCache ELSE css[rb].cached
  BY ExitSeen DEF Caches, History
<1>2. n \in DOMAIN runs /\ runs[n].rs = rs
  BY <1>1, RunningType DEF Caches, History, Inv, Running
<1>. HIDE DEF n, rs
<1>3. ASSUME NEW rb \in RulingBlocks, Registered(rb)', css'[rb].cached \in RefSets
      PROVE  /\ Registered(rb) /\ css'[rb].refracted = css[rb].refracted
             /\ css'[rb].cached = css[rb].cached /\ css[rb].cached # rs
             /\ refsets'[css[rb].cached] = refsets[css[rb].cached]
  BY <1>1, <1>3 DEF Distinct
<1>4. CacheOwned'
  <2>. SUFFICES ASSUME NEW rb \in RulingBlocks, Registered(rb)', css'[rb].cached \in RefSets
                PROVE  \E k \in DOMAIN runs' : /\ css'[rb].cached = runs'[k].rs
                                               /\ rb \in Blocks(runs'[k])
    BY DEF CacheOwned, Blocks
  <2>1. PICK k \in DOMAIN runs : css[rb].cached = runs[k].rs /\ rb \in Blocks(runs[k])
    BY <1>3 DEF Caches, CacheOwned
  <2>2. k # n
    BY <1>2, <1>3, <2>1
  <2>. QED
    BY <1>1, <1>3, <2>1, <2>2
<1>5. FlagsExact'
  BY <1>3 DEF Caches, FlagsExact
<1>. QED
  BY <1>4, <1>5 DEF Caches

-----------------------------------------------------------------------------
(* What is fired is refracted, or can match no more.                       *)

\* An instantiation that lost an object never gets it back: time tags only grow.
LEMMA StaysInvalid ==
  ASSUME Inv, ChangeWM, NEW e \in Cse, Past(e), ~StillValid(e)
  PROVE  ~StillValid(e)'
<1>1. PICK k \in DOMAIN e.ids : wm[e.ids[k]] = Absent \/ wm[e.ids[k]].tag # e.tags[k]
  BY DEF StillValid
<1>2. e.ids[k] \in Ids /\ e.tags[k] \in Nat /\ e.tags[k] <= clock /\ clock \in Nat
  BY CseFields DEF Past, Inv, Types
<1>3. PICK i \in Ids : Remove(i) \/ \E v \in Vals : Write(i, v)
  BY DEF ChangeWM
<1>4. wm'[e.ids[k]] = Absent \/ wm'[e.ids[k]].tag # e.tags[k]
  <2>1. CASE Remove(i)
    BY <1>1, <1>2, <2>1 DEF Remove, Inv, Types
  <2>2. CASE \E v \in Vals : Write(i, v)
    <3>1. PICK v \in Vals : wm' = [wm EXCEPT ![i] = [tag |-> clock + 1, val |-> v]]
      BY <2>2 DEF Write, SetObject
    <3>2. CASE i = e.ids[k]
      <4>1. wm'[e.ids[k]] = [tag |-> clock + 1, val |-> v]
        BY <1>2, <3>1, <3>2 DEF Inv, Types
      <4>2. wm'[e.ids[k]].tag = clock + 1
        BY <4>1
      <4>. QED
        BY <1>2, <4>2
    <3>3. CASE i # e.ids[k]
      <4>1. wm'[e.ids[k]] = wm[e.ids[k]]
        BY <1>2, <3>1, <3>3 DEF Inv, Types
      <4>. QED
        BY <1>1, <4>1
    <3>. QED
      BY <3>2, <3>3
  <2>. QED
    BY <1>3, <2>1, <2>2
<1>. QED
  BY <1>4 DEF StillValid

LEMMA FiringsChange ==
  ASSUME Inv, Firings, ChangeWM
  PROVE  Firings'
<1>1. UNCHANGED <<css, refsets, runs>>
  BY DEF ChangeWM
<1>2. clock' \in Nat /\ clock \in Nat /\ clock <= clock'
      /\ \A i \in Ids : wm'[i] # Absent => wm'[i].tag <= clock'
  <2>0. clock \in Nat /\ wm \in [Ids -> Object \cup {Absent}]
    BY DEF Inv, Types
  <2>1. PICK i \in Ids : Remove(i) \/ \E v \in Vals : Write(i, v)
    BY DEF ChangeWM
  <2>2. CASE Remove(i)
    BY <2>0, <2>2 DEF Remove, Firings, TagsPast
  <2>3. CASE \E v \in Vals : Write(i, v)
    <3>1. PICK v \in Vals : /\ wm' = [wm EXCEPT ![i] = [tag |-> clock + 1, val |-> v]]
                            /\ clock' = clock + 1
      BY <2>3 DEF Write, SetObject, Tick
    <3>2. wm'[i] = [tag |-> clock + 1, val |-> v]
      BY <2>0, <3>1
    <3>3. wm'[i].tag <= clock'
      BY <2>0, <3>1, <3>2
    <3>4. ASSUME NEW x \in Ids, x # i, wm'[x] # Absent
          PROVE  wm'[x].tag <= clock'
      <4>1. wm'[x] = wm[x] /\ wm[x] \in Object
        BY <2>0, <3>1, <3>4
      <4>2. wm[x].tag <= clock /\ wm[x].tag \in Int
        BY <4>1, <3>4 DEF Firings, TagsPast, Object
      <4>. QED
        BY <2>0, <3>1, <4>1, <4>2
    <3>. QED
      BY <2>0, <3>1, <3>3, <3>4
  <2>. QED
    BY <2>1, <2>2, <2>3
<1>3. ASSUME NEW e \in Cse, Past(e) PROVE Past(e)'
  BY <1>2, <1>3, CseFields DEF Past
<1>4. ASSUME NEW k \in DOMAIN runs
      PROVE  runs[k].fired \subseteq Cse /\ (runs[k].pc = "rhs" => runs[k].win \in Cse)
  BY RunsTyped DEF Inv, WinnersOwn, Run
<1>5. TagsPast'
  BY <1>1, <1>2, <1>3, <1>4 DEF Firings, TagsPast
<1>6. FiredGone'
  <2>. SUFFICES ASSUME NEW k \in DOMAIN runs, runs[k].pc # "exit", NEW e \in runs[k].fired
                PROVE  e \in Refracted(k)' \/ ~StillValid(e)'
    BY <1>1 DEF FiredGone
  <2>1. e \in Cse /\ Past(e) /\ (e \in Refracted(k) \/ ~StillValid(e))
    BY <1>4 DEF Firings, TagsPast, FiredGone
  <2>2. Refracted(k)' = Refracted(k)
    BY <1>1 DEF Refracted
  <2>. QED
    BY <2>1, <2>2, StaysInvalid
<1>7. WinnersFresh'
  BY <1>1 DEF Firings, WinnersFresh
<1>. QED
  BY <1>5, <1>6, <1>7 DEF Firings

\* A step of control alone.
LEMMA FiringsKept ==
  ASSUME Firings, UNCHANGED <<clock, wm, refsets>>, DOMAIN runs' = DOMAIN runs,
         \A k \in DOMAIN runs :
           /\ runs'[k].rs = runs[k].rs /\ runs'[k].fired = runs[k].fired
           /\ runs'[k].win = runs[k].win /\ runs'[k].winFreed = runs[k].winFreed
           /\ runs'[k].pc = "rhs" <=> runs[k].pc = "rhs"
           /\ runs'[k].pc # "undefined"
           /\ runs'[k].pc # "exit" => runs[k].pc # "exit"
  PROVE  Firings'
<1>1. TagsPast'
  BY DEF Firings, TagsPast, Past
<1>2. FiredGone'
  BY DEF Firings, FiredGone, Refracted, StillValid
<1>3. WinnersFresh'
  BY DEF Firings, WinnersFresh
<1>. QED
  BY <1>1, <1>2, <1>3 DEF Firings

LEMMA FiringsReturned ==
  ASSUME Inv, Firings, NEW p \in {"entry", "every", "catcher", "empty"},
         NEW q \in {"recognize", "catcher", "exit"}, Returned(p, q)
  PROVE  Firings'
<1>1. /\ runs # << >> /\ Running.pc = p /\ UNCHANGED <<clock, wm, css, refsets>>
  BY DEF Returned
<1>2. PICK t \in {"recognize", "catcher", "exit"} : Goto(t)
  BY DEF Returned
<1>3. Len(runs) \in DOMAIN runs /\ \A k \in DOMAIN runs : runs[k] \in Run
  BY <1>1, RunningType DEF Inv
<1>4. DOMAIN runs' = DOMAIN runs /\ runs'[Len(runs)] = [runs[Len(runs)] EXCEPT !.pc = t]
      /\ \A k \in DOMAIN runs : k # Len(runs) => runs'[k] = runs[k]
  BY <1>2, <1>3 DEF Goto
<1>5. ASSUME NEW k \in DOMAIN runs
      PROVE  /\ runs'[k].rs = runs[k].rs /\ runs'[k].fired = runs[k].fired
             /\ runs'[k].win = runs[k].win /\ runs'[k].winFreed = runs[k].winFreed
             /\ runs'[k].pc = "rhs" <=> runs[k].pc = "rhs"
             /\ runs'[k].pc # "undefined"
             /\ runs'[k].pc # "exit" => runs[k].pc # "exit"
  <2>1. CASE k = Len(runs)
    <3>1. runs[k].pc = p /\ runs[k] \in Run
      BY <1>1, <1>3, <2>1 DEF Running
    <3>2. /\ runs'[k].rs = runs[k].rs /\ runs'[k].fired = runs[k].fired
          /\ runs'[k].win = runs[k].win /\ runs'[k].winFreed = runs[k].winFreed
          /\ runs'[k].pc = t
      BY <1>4, <2>1, <3>1 DEF Run
    <3>. QED
      BY <3>1, <3>2
  <2>2. CASE k # Len(runs)
    BY <1>4, <2>2 DEF Firings, WinnersFresh
  <2>. QED
    BY <2>1, <2>2
<1>. QED
  BY <1>1, <1>4, <1>5, FiringsKept

LEMMA FiringsEnter ==
  ASSUME Distinct, Inv, Firings,
         NEW eb \in EntryBlocks, NEW a \in RefSets, EnterEntryBlock(eb, a)
  PROVE  Firings'
<1>. DEFINE r == [eb |-> eb, rs |-> a, pc |-> "entry", win |-> NoWinner, winFreed |-> FALSE,
                  fired |-> {}, count |-> 0, after |-> 0]
<1>1. /\ UNCHANGED <<clock, wm>> /\ refsets[a] = Free
      /\ \A b \in RefSets : b # a => refsets'[b] = refsets[b]
      /\ DOMAIN runs' = DOMAIN runs \cup {Len(runs) + 1}
      /\ \A k \in DOMAIN runs : runs'[k] = runs[k]
      /\ runs'[Len(runs) + 1] = r
  BY EnterSeen
<1>2. r.pc = "entry" /\ r.win = NoWinner /\ r.winFreed = FALSE /\ r.fired = {}
  OBVIOUS
<1>. HIDE DEF r
<1>3. ASSUME NEW k \in DOMAIN runs
      PROVE  Refracted(k)' = Refracted(k)
  <2>1. runs[k].rs \in RefSets /\ runs[k].rs # a
    BY <1>1, RunsTyped DEF Inv, RunsOwn
  <2>. QED
    BY <1>1, <2>1 DEF Refracted
<1>4. TagsPast'
  BY <1>1, <1>2 DEF Firings, TagsPast, Past
<1>5. FiredGone'
  BY <1>1, <1>2, <1>3 DEF Firings, FiredGone, StillValid
<1>6. WinnersFresh'
  BY <1>1, <1>2 DEF Firings, WinnersFresh
<1>. QED
  BY <1>4, <1>5, <1>6 DEF Firings

\* The winner is an instantiation the run has not fired, and no entry that
\* another run is firing goes.
LEMMA FiringsSearch ==
  ASSUME Distinct, Caches, Firings, Recognize
  PROVE  Firings'
<1>. DEFINE n == Len(runs)
<1>1. /\ runs # << >> /\ css' = AfterUpdate(Running) /\ UNCHANGED <<clock, wm, refsets>>
      /\ DOMAIN runs' = DOMAIN runs
      /\ \A k \in DOMAIN runs :
           /\ runs'[k].eb = runs[k].eb /\ runs'[k].rs = runs[k].rs
           /\ runs'[k].fired = runs[k].fired
           /\ k # n => runs'[k].pc = runs[k].pc /\ runs'[k].win = runs[k].win
           /\ runs'[k].winFreed = (runs[k].winFreed \/ runs[k].win \in Freed(css'))
           /\ k = n => runs'[k].pc \in {"empty", "rhs"}
           /\ k = n /\ runs'[k].pc = "empty" => runs'[k].win = runs[k].win
           /\ k = n /\ runs'[k].pc = "rhs" => runs'[k].win \in Winners(css', Blocks(Running))
  BY MarkedRuns DEF Caches, History
<1>2. /\ n \in DOMAIN runs /\ Running = runs[n] /\ runs[n].pc = "recognize"
      /\ Blocks(Running) \subseteq RulingBlocks
  BY <1>1, RunningType, BlocksType DEF Recognize, Caches, History, Inv, Running
<1>. HIDE DEF n
<1>3. \A k \in DOMAIN runs : Refracted(k)' = Refracted(k)
  BY <1>1 DEF Refracted
<1>4. ASSUME NEW k \in DOMAIN runs, runs[k].pc = "rhs" => k # n /\ runs[k].win \in Cse
      PROVE  runs[k].win \notin Freed(css')
  <2>. SUFFICES ASSUME NEW rb \in RulingBlocks, Registered(rb),
                       runs[k].win \in DOMAIN css[rb].refracted,
                       runs[k].win \notin DOMAIN css'[rb].refracted
                PROVE  FALSE
    BY DEF Freed
  <2>1. runs[k].win \in Cse /\ Block[runs[k].win.rule] = rb
    BY DEF Caches, History, Inv, OwnEntries, EntriesOf
  <2>2. runs[k].pc = "rhs"
    BY <2>1 DEF Firings, WinnersFresh, Distinct
  <2>3. rb \in Blocks(runs[k])
    BY <2>1, <2>2 DEF Caches, History, Inv, WinnersOwn
  <2>4. rb \in Blocks(Running)
    BY <1>1 DEF AfterUpdate
  <2>. QED
    BY <1>2, <1>4, <2>2, <2>3, <2>4 DEF Caches, Disjoint
<1>5. ASSUME NEW k \in DOMAIN runs PROVE ~runs'[k].winFreed
  <2>1. runs[k].pc = "rhs" => k # n /\ runs[k].win \in Cse
    BY <1>2 DEF Caches, History, Inv, WinnersOwn
  <2>2. runs[k].win \notin Freed(css') /\ ~runs[k].winFreed
    BY <1>4, <2>1 DEF Firings, WinnersFresh
  <2>. QED
    BY <1>1, <2>2
<1>6. runs'[n].pc = "rhs" => /\ runs'[n].win \notin runs[n].fired
                             /\ Past(runs'[n].win)
  <2>. SUFFICES ASSUME runs'[n].pc = "rhs"
                PROVE  runs'[n].win \notin runs[n].fired /\ Past(runs'[n].win)
    OBVIOUS
  <2>. DEFINE w == runs'[n].win
  <2>1. w \in Winners(css', Blocks(Running))
    BY <1>1, <1>2
  <2>2. PICK rb \in Blocks(Running) :
          w \in DOMAIN css'[rb].refracted /\ css'[rb].refracted[w] = FALSE
    BY <2>1 DEF Winners
  <2>. HIDE DEF w
  <2>3. w \in Instantiations(rb) /\ rb \in RulingBlocks /\ w \notin refsets[Running.rs]
    BY <2>2, SearchExact
  <2>4. StillValid(w) /\ Past(w)
    BY <2>3, InstantiationsNow DEF Caches, History, Firings
  <2>5. w \notin Refracted(n)
    BY <1>2, <2>3 DEF Refracted
  <2>6. w \notin runs[n].fired
    BY <1>2, <2>4, <2>5 DEF Firings, FiredGone
  <2>. QED
    BY <2>4, <2>6 DEF w
<1>7. TagsPast'
  <2>1. \A i \in Ids : wm'[i] # Absent => wm'[i].tag <= clock'
    BY <1>1 DEF Firings, TagsPast
  <2>2. ASSUME NEW k \in DOMAIN runs
        PROVE  /\ runs'[k].pc = "rhs" => Past(runs'[k].win)
               /\ \A e \in runs'[k].fired : Past(e)
    BY <1>1, <1>6 DEF Firings, TagsPast
  <2>. QED
    BY <1>1, <2>1, <2>2 DEF TagsPast, Past
<1>8. FiredGone'
  <2>. SUFFICES ASSUME NEW k \in DOMAIN runs, runs'[k].pc # "exit", NEW e \in runs[k].fired
                PROVE  e \in Refracted(k) \/ ~StillValid(e)
    BY <1>1, <1>3 DEF FiredGone, StillValid
  <2>1. runs[k].pc # "exit"
    BY <1>1, <1>2
  <2>. QED
    BY <2>1 DEF Firings, FiredGone
<1>9. WinnersFresh'
  <2>. SUFFICES ASSUME NEW k \in DOMAIN runs
                PROVE  /\ runs'[k].pc = "rhs" => runs'[k].win \notin runs'[k].fired
                       /\ runs'[k].pc # "rhs" => runs'[k].win = NoWinner
                       /\ runs'[k].pc # "undefined" /\ ~runs'[k].winFreed
    BY <1>1 DEF WinnersFresh
  <2>1. CASE k = n
    BY <1>1, <1>2, <1>5, <1>6, <2>1 DEF Firings, WinnersFresh
  <2>2. CASE k # n
    BY <1>1, <1>5, <2>2 DEF Firings, WinnersFresh
  <2>. QED
    BY <2>1, <2>2
<1>. QED
  BY <1>7, <1>8, <1>9 DEF Firings

\* The end of a firing: the winner is refracted, or it can match no more, or the
\* run is leaving.
LEMMA FiringsEnded ==
  ASSUME Inv, Firings, runs # << >>, Running.pc = "rhs", UNCHANGED <<clock, wm>>,
         NEW p \in {"exit", "every"}, EndFiring(p),
         \A a \in RefSets : refsets[a] \subseteq refsets'[a],
         p # "exit" => Running.win \in refsets'[Running.rs] \/ ~StillValid(Running.win)
  PROVE  Firings'
<1>. DEFINE n == Len(runs)
            r == runs'[n]
<1>1. /\ n \in DOMAIN runs /\ Running = runs[n]
      /\ \A k \in DOMAIN runs : runs[k].rs \in RefSets
  BY RunningType, RunsTyped DEF Inv, Running
<1>2. /\ r.eb = Running.eb /\ r.rs = Running.rs /\ r.pc = p
      /\ r.win = NoWinner /\ r.winFreed = Running.winFreed
      /\ r.fired = Running.fired \cup {Running.win}
      /\ runs' = [runs EXCEPT ![n] = r]
  BY EndedRuns
<1>. HIDE DEF r, n
<1>3. /\ DOMAIN runs' = DOMAIN runs /\ runs'[n] = r
      /\ \A k \in DOMAIN runs : k # n => runs'[k] = runs[k]
  BY <1>1, <1>2
<1>4. \A k \in DOMAIN runs : runs'[k].rs = runs[k].rs /\ Refracted(k) \subseteq Refracted(k)'
  BY <1>1, <1>2, <1>3 DEF Refracted
<1>5. TagsPast'
  BY <1>1, <1>2, <1>3 DEF Firings, TagsPast, Past
<1>6. FiredGone'
  <2>. SUFFICES ASSUME NEW k \in DOMAIN runs, runs'[k].pc # "exit", NEW e \in runs'[k].fired
                PROVE  e \in Refracted(k)' \/ ~StillValid(e)
    BY <1>3 DEF FiredGone, StillValid
  <2>1. CASE k = n /\ e = Running.win
    <3>1. runs'[k].rs = Running.rs /\ p # "exit"
      BY <1>2, <1>3, <2>1
    <3>. QED
      BY <2>1, <3>1 DEF Refracted
  <2>2. CASE ~(k = n /\ e = Running.win)
    <3>1. e \in runs[k].fired /\ runs[k].pc # "exit"
      BY <1>1, <1>2, <1>3, <2>2
    <3>. QED
      BY <1>4, <3>1 DEF Firings, FiredGone
  <2>. QED
    BY <2>1, <2>2
<1>7. WinnersFresh'
  BY <1>1, <1>2, <1>3 DEF Firings, WinnersFresh
<1>. QED
  BY <1>5, <1>6, <1>7 DEF Firings

LEMMA FiringsExit ==
  ASSUME Distinct, Inv, Firings, ExitEntryBlock
  PROVE  Firings'
<1>1. /\ UNCHANGED <<clock, wm>>
      /\ \A a \in RefSets : a # Running.rs => refsets'[a] = refsets[a]
      /\ \A k \in DOMAIN runs' : k \in DOMAIN runs /\ k # Len(runs)
      /\ \A k \in DOMAIN runs : k # Len(runs) =>
           runs'[k] = runs[k] /\ runs[k].rs # Running.rs
  BY ExitSeen
<1>2. \A k \in DOMAIN runs' : /\ k \in DOMAIN runs /\ runs'[k] = runs[k]
                              /\ Refracted(k)' = Refracted(k)
  BY <1>1, RunsTyped DEF Refracted
<1>3. TagsPast'
  BY <1>1, <1>2 DEF Firings, TagsPast, Past
<1>4. FiredGone'
  BY <1>1, <1>2 DEF Firings, FiredGone, StillValid
<1>5. WinnersFresh'
  BY <1>2 DEF Firings, WinnersFresh
<1>. QED
  BY <1>3, <1>4, <1>5 DEF Firings

-----------------------------------------------------------------------------
Apart == Caches /\ Firings

LEMMA ApartInit ==
  ASSUME Distinct, Init
  PROVE  Apart
<1>1. History
  BY HistoryInit
<1>2. /\ DOMAIN runs = {} /\ \A rb \in RulingBlocks : ~Registered(rb)
      /\ \A i \in Ids : wm[i] = Absent
  BY DEF Init, Registered
<1>. QED
  BY <1>1, <1>2 DEF Apart, Caches, Disjoint, CacheOwned, FlagsExact, Firings, TagsPast,
     FiredGone, WinnersFresh

\* Of a firing that ended: the winner was refracted, or an object of it changed,
\* or the rule executed RETURN.
LEMMA ApartRhs ==
  ASSUME Distinct, Apart, History', Disjoint', RhsReturned
  PROVE  Apart'
<1>1. runs # << >> /\ Running.pc = "rhs" /\ UNCHANGED <<clock, wm>>
  BY DEF RhsReturned
<1>2. Inv /\ Running.rs \in RefSets /\ Len(runs) \in DOMAIN runs
      /\ \A k \in DOMAIN runs : runs[k] \in Run
  BY <1>1, RunningType DEF Apart, Caches, History, Inv, Run
<1>3. ASSUME NEW p \in {"exit", "every"}, EndFiring(p)
      PROVE  /\ DOMAIN runs' = DOMAIN runs
             /\ \A k \in DOMAIN runs : runs'[k].eb = runs[k].eb /\ runs'[k].rs = runs[k].rs
  BY <1>2, <1>3 DEF EndFiring, Run
<1>4. CASE EndFiring("exit") /\ UNCHANGED <<css, refsets>>
  <2>1. Caches'
    BY <1>3, <1>4, CachesKept DEF Apart
  <2>2. Firings'
    BY <1>1, <1>2, <1>4, FiringsEnded DEF Apart
  <2>. QED
    BY <2>1, <2>2 DEF Apart
<1>5. CASE EndFiring("every") /\ ~StillValid(Running.win) /\ UNCHANGED <<css, refsets>>
  <2>1. Caches'
    BY <1>3, <1>5, CachesKept DEF Apart
  <2>2. Firings'
    BY <1>1, <1>2, <1>5, FiringsEnded DEF Apart
  <2>. QED
    BY <2>1, <2>2 DEF Apart
<1>6. CASE /\ EndFiring("every")
           /\ css' = [css EXCEPT ![Block[Running.win.rule]] =
                                    Refract(@, Running.win, Running.rs)]
           /\ refsets' = [refsets EXCEPT ![Running.rs] = @ \cup {Running.win}]
  <2>1. Caches'
    BY <1>1, <1>3, <1>6, CachesRefract DEF Apart
  <2>2. /\ refsets'[Running.rs] = refsets[Running.rs] \cup {Running.win}
        /\ \A a \in RefSets : a # Running.rs => refsets'[a] = refsets[a]
    BY <1>1, <1>2, <1>6, RefractSeen
  <2>3. Running.win \in refsets'[Running.rs] /\ \A a \in RefSets : refsets[a] \subseteq refsets'[a]
    BY <2>2
  <2>4. Firings'
    BY <1>1, <1>2, <1>6, <2>3, FiringsEnded DEF Apart
  <2>. QED
    BY <2>1, <2>4 DEF Apart
<1>. QED
  BY <1>4, <1>5, <1>6 DEF RhsReturned

LEMMA ApartNext ==
  ASSUME Distinct, Apart, [Next /\ Disjoint']_vars
  PROVE  Apart'
<1>0. History' /\ Disjoint' /\ Inv
  <2>1. [Next]_vars /\ History /\ Inv
    BY DEF Apart, Caches, History
  <2>2. History'
    BY <2>1, HistoryNext
  <2>3. Disjoint'
    <3>1. CASE UNCHANGED vars
      BY <3>1 DEF vars, Apart, Caches, Disjoint, Blocks
    <3>. QED
      BY <3>1
  <2>. QED
    BY <2>1, <2>2, <2>3
<1>1. CASE ChangeWM
  <2>1. UNCHANGED <<css, refsets, runs>>
    BY <1>1 DEF ChangeWM
  <2>2. Caches'
    BY <1>0, <2>1, CachesKept DEF Apart
  <2>. QED
    BY <1>0, <1>1, <2>2, FiringsChange DEF Apart
<1>2. ASSUME NEW n \in 1 .. MaxAfter, After(n) PROVE Apart'
  <2>1. Len(runs) \in DOMAIN runs /\ \A k \in DOMAIN runs : runs[k] \in Run
    BY <1>0, <1>2, RunningType DEF Inv, After
  <2>2. /\ UNCHANGED <<clock, wm, css, refsets>> /\ DOMAIN runs' = DOMAIN runs
        /\ \A k \in DOMAIN runs :
             /\ runs'[k].eb = runs[k].eb /\ runs'[k].rs = runs[k].rs
             /\ runs'[k].fired = runs[k].fired /\ runs'[k].win = runs[k].win
             /\ runs'[k].winFreed = runs[k].winFreed /\ runs'[k].pc = runs[k].pc
    BY <1>2, <2>1 DEF After, Run
  <2>3. Caches'
    BY <1>0, <2>2, CachesKept DEF Apart
  <2>4. Firings'
    BY <2>2, FiringsKept DEF Apart, Firings, WinnersFresh
  <2>. QED
    BY <2>3, <2>4 DEF Apart
<1>3. ASSUME NEW eb \in EntryBlocks, NEW a \in RefSets, EnterEntryBlock(eb, a) PROVE Apart'
  BY <1>0, <1>3, CachesEnter, FiringsEnter DEF Apart
<1>4. CASE Recognize
  BY <1>0, <1>4, CachesSearch, FiringsSearch DEF Apart
<1>5. ASSUME NEW p \in {"entry", "every", "catcher", "empty"},
             NEW q \in {"recognize", "catcher", "exit"}, Returned(p, q)
      PROVE  Apart'
  <2>1. runs # << >> /\ UNCHANGED <<clock, wm, css, refsets>> /\ \E t : Goto(t)
    BY <1>5 DEF Returned
  <2>2. Len(runs) \in DOMAIN runs /\ \A k \in DOMAIN runs : runs[k] \in Run
    BY <1>0, <2>1, RunningType DEF Inv
  <2>3. DOMAIN runs' = DOMAIN runs
        /\ \A k \in DOMAIN runs : runs'[k].eb = runs[k].eb /\ runs'[k].rs = runs[k].rs
    BY <2>1, <2>2 DEF Goto, Run
  <2>4. Caches'
    BY <1>0, <2>1, <2>3, CachesKept DEF Apart
  <2>. QED
    BY <1>0, <1>5, <2>4, FiringsReturned DEF Apart
<1>6. CASE CodeReturns
  <2>1. CASE OnEntryReturned
    BY <2>1, <1>5 DEF OnEntryReturned
  <2>2. CASE RhsReturned
    BY <2>2, <1>0, ApartRhs
  <2>3. CASE RhsReturnedFreed
    <3>1. Running.winFreed /\ Len(runs) \in DOMAIN runs
      BY <1>0, <2>3, RunningType DEF RhsReturnedFreed, Inv
    <3>. QED
      BY <3>1 DEF Apart, Firings, WinnersFresh, Running
  <2>4. CASE OnEveryReturned
    BY <2>4, <1>5 DEF OnEveryReturned
  <2>5. CASE CatcherReturned
    BY <2>5, <1>5 DEF CatcherReturned
  <2>6. CASE OnEmptyReturned
    BY <2>6, <1>5 DEF OnEmptyReturned
  <2>7. CASE ExitEntryBlock
    BY <2>7, <1>0, CachesExit, FiringsExit DEF Apart
  <2>. QED
    BY <1>6, <2>1, <2>2, <2>3, <2>4, <2>5, <2>6, <2>7 DEF CodeReturns
<1>7. CASE UNCHANGED vars
  <2>1. UNCHANGED <<clock, wm, css, refsets, runs>>
    BY <1>7 DEF vars
  <2>2. Caches'
    BY <1>0, <2>1, CachesKept DEF Apart
  <2>3. Firings'
    BY <2>1, FiringsKept DEF Apart, Firings, WinnersFresh
  <2>. QED
    BY <2>2, <2>3 DEF Apart
<1>. QED
  BY <1>1, <1>2, <1>3, <1>4, <1>6, <1>7 DEF Next

\* The invariant of programs whose runs are disjoint.
THEOREM ApartInvariant ==
  ASSUME Distinct
  PROVE  DisjointSpec => []Apart
<1>1. Init => Apart
  BY ApartInit
<1>2. Apart /\ [Next /\ Disjoint']_vars => Apart'
  BY ApartNext
<1>. QED
  BY <1>1, <1>2, PTL DEF DisjointSpec

\* With disjoint runs an instantiation fires at most once in a run, through all
\* the runs its rules call and whatever they do to working memory.
LEMMA ApartFiresOnce == ASSUME Distinct, Apart PROVE NoRefire
<1>. SUFFICES ASSUME NEW k \in DOMAIN runs
              PROVE  runs[k].win \notin runs[k].fired
  BY DEF NoRefire
<1>1. runs[k].fired \subseteq Cse
  BY RunsTyped DEF Apart, Caches, History, Run
<1>. QED
  BY <1>1 DEF Apart, Firings, WinnersFresh, Distinct

THEOREM FiresOnce ==
  ASSUME Distinct
  PROVE  DisjointSpec => []NoRefire
BY ApartInvariant, ApartFiresOnce, PTL

\* With disjoint runs the entry a rule is fired for is in its conflict set until
\* the rule returns, so what the cycle reads of it then is still there.
LEMMA ApartKeepsWinner == ASSUME Apart PROVE WinnerNotFreed
BY DEF Apart, Firings, WinnersFresh, WinnerNotFreed

THEOREM WinnersKept ==
  ASSUME Distinct
  PROVE  DisjointSpec => []WinnerNotFreed
BY ApartInvariant, ApartKeepsWinner, PTL

\* With disjoint runs the flags of a conflict set say what the refraction set in
\* its cache says.
LEMMA ApartFlagsMatch == ASSUME Apart PROVE FlagsMatchCache
<1>. SUFFICES ASSUME NEW rb \in RulingBlocks, Registered(rb),
                     css[rb].cached \in RefSets, NEW e \in DOMAIN css[rb].refracted
              PROVE  css[rb].refracted[e] = (e \in refsets[css[rb].cached])
  BY DEF FlagsMatchCache
<1>. DEFINE f == css[rb].refracted[e]
<1>1. f \in BOOLEAN /\ (f = TRUE <=> e \in refsets[css[rb].cached])
  BY DEF Apart, Caches, FlagsExact, History, Inv, FlagsInitialized
<1>. HIDE DEF f
<1>2. f = (e \in refsets[css[rb].cached])
  BY <1>1
<1>. QED
  BY <1>2 DEF f

THEOREM FlagsRight ==
  ASSUME Distinct
  PROVE  DisjointSpec => []FlagsMatchCache
BY ApartInvariant, ApartFlagsMatch, PTL

-----------------------------------------------------------------------------
(* The scenes that the runs check.                                         *)

\* In the scene "apart" every run of an entry block is disjoint from the runs
\* it nests in, and the debugger changes nothing that Apart speaks of.
LEMMA SceneApart ==
  ASSUME Distinct
  PROVE  MCSpec => [](scene = "apart" => Apart)
<1>. DEFINE J == scene = "apart" => Apart
<1>1. MCInit => J
  BY ApartInit DEF MCInit
<1>2. J /\ [Cycles \/ Debugs]_MCVars => J'
  <2>. SUFFICES ASSUME J, [Cycles \/ Debugs]_MCVars, scene' = "apart"
                PROVE  Apart'
    OBVIOUS
  <2>1. scene = "apart" /\ Apart
    BY DEF Cycles, Debugs, MCVars
  <2>2. [Next /\ Disjoint']_vars
    <3>1. CASE Cycles
      BY <3>1, <2>1 DEF Cycles, InScene
    <3>2. CASE Debugs \/ UNCHANGED MCVars
      BY <3>2 DEF Debugs, MCVars
    <3>. QED
      BY <3>1, <3>2
  <2>. QED
    BY <2>1, <2>2, ApartNext
<1>. QED
  BY <1>1, <1>2, PTL DEF MCSpec

\* The run of the scene "apart", whatever its constants: nothing fires twice in
\* a run, a winner stays in its conflict set and flags match the cache.
THEOREM FiresOnceApart ==
  ASSUME Distinct
  PROVE  MCSpec => []NoRefireApart
<1>1. (scene = "apart" => Apart) => NoRefireApart
  BY ApartFiresOnce DEF NoRefireApart
<1>. QED
  BY <1>1, SceneApart, PTL

THEOREM WinnersKeptApart ==
  ASSUME Distinct
  PROVE  MCSpec => []WinnerKeptApart
<1>1. (scene = "apart" => Apart) => WinnerKeptApart
  BY ApartKeepsWinner DEF WinnerKeptApart
<1>. QED
  BY <1>1, SceneApart, PTL

THEOREM FlagsRightApart ==
  ASSUME Distinct
  PROVE  MCSpec => []FlagsMatchApart
<1>1. (scene = "apart" => Apart) => FlagsMatchApart
  BY ApartFlagsMatch DEF FlagsMatchApart
<1>. QED
  BY <1>1, SceneApart, PTL

-----------------------------------------------------------------------------
(* The scenes of the debugger, as an instance of what is proved of it.     *)

General == INSTANCE DebuggerProofs WITH
  EntryBlocks <- {"main", "sub", "plain"}, Debuggable <- {"main", "sub"},
  Program <- "program", Command <- "command", Calls <- DebuggerCalls,
  Rules <- {"rule"}, NoRule <- NoWinner, MaxRuns <- 2,
  MaxFirings <- DebuggerFirings, MaxRun <- 1, MaxAfter <- DebuggerAfter,
  runs <- dbgRuns

\* The two instances of the debugger are one.
LEMMA DebuggerSteps ==
  /\ Dbg!Init <=> General!Init
  /\ Dbg!Next <=> General!Next
  /\ Dbg!Quiet <=> General!Quiet
<1>1. Dbg!Init <=> General!Init
  BY DEF Dbg!Init, General!Init
<1>2. Dbg!Next <=> General!Next
  BY DEF Dbg!Next, General!Next, Dbg!Commands, General!Commands,
         Dbg!ChangeCommand, General!ChangeCommand, Dbg!ChangeCommandReturns,
         General!ChangeCommandReturns, Dbg!StateCommand, General!StateCommand,
         Dbg!ReturnCommand, General!ReturnCommand, Dbg!RbreakCommand,
         General!RbreakCommand, Dbg!EbreakCommand, General!EbreakCommand,
         Dbg!RunCommand, General!RunCommand, Dbg!AfterCommand,
         General!AfterCommand, Dbg!Executed, General!Executed, Dbg!Leave,
         General!Leave, Dbg!FlagChanges, General!FlagChanges, Dbg!SetRun,
         General!SetRun, Dbg!MarkChanged, General!MarkChanged, Dbg!At,
         General!At, Dbg!Running, General!Running, Dbg!Debugged,
         General!Debugged, Dbg!BreaksAt, General!BreaksAt, Dbg!Code,
         General!Code, Dbg!Prompt, General!Prompt, Dbg!EnterEntryBlock,
         General!EnterEntryBlock, Dbg!HasControl, General!HasControl,
         Dbg!Caller, General!Caller, Dbg!CodeBreaks, General!CodeBreaks,
         Dbg!OnEntryReturned, General!OnEntryReturned, Dbg!Goto, General!Goto,
         Dbg!Recognize, General!Recognize, Dbg!Chosen, General!Chosen,
         Dbg!RunBreak, General!RunBreak, Dbg!RuleBreak, General!RuleBreak,
         Dbg!Fire, General!Fire, Dbg!WillFire, General!WillFire,
         Dbg!FireNothing, General!FireNothing, Dbg!CodeReturned,
         General!CodeReturned, Dbg!CatcherDue, General!CatcherDue,
         Dbg!OnExitReturned, General!OnExitReturned
<1>3. Dbg!Quiet <=> General!Quiet
  BY DEF Dbg!Quiet, General!Quiet
<1>. QED
  BY <1>1, <1>2, <1>3

LEMMA SceneSteps ==
  ASSUME [Cycles \/ Debugs]_MCVars
  PROVE  [General!Next]_(General!vars)
<1>1. CASE Debugs
  BY <1>1, DebuggerSteps DEF Debugs
<1>2. CASE Cycles \/ UNCHANGED MCVars
  BY <1>2 DEF Cycles, MCVars, dbgVars, General!vars
<1>. QED
  BY <1>1, <1>2

\* In the scenes of the debugger no rule fires that was chosen before a command
\* changed working memory, if the methods of commands call no debugged block.
THEOREM FiresFreshWhereQuiet == MCSpec => []FiresFreshQuiet
<1>1. CASE Dbg!Quiet
  <2>1. MCInit => General!Inv
    BY DebuggerSteps, General!InvInit DEF MCInit
  <2>2. General!Inv /\ [Cycles \/ Debugs]_MCVars => General!Inv'
    BY <1>1, DebuggerSteps, SceneSteps, General!InvNext
  <2>3. General!Inv => FiresFreshQuiet
    BY DEF General!Inv, General!RunsSound, General!Sound, General!WillFire,
           FiresFreshQuiet, Dbg!FiresFresh, Dbg!WillFire
  <2>. QED
    BY <2>1, <2>2, <2>3, PTL DEF MCSpec
<1>2. CASE ~Dbg!Quiet
  <2>1. MCInit => FiresFreshQuiet
    BY <1>2 DEF FiresFreshQuiet
  <2>2. FiresFreshQuiet /\ [Cycles \/ Debugs]_MCVars => FiresFreshQuiet'
    BY <1>2 DEF FiresFreshQuiet
  <2>. QED
    BY <2>1, <2>2, PTL DEF MCSpec
<1>. QED
  BY <1>1, <1>2

\* And the debugger stops where RBREAK and RUN ask, if besides entry blocks with
\* debugging call only their like.
THEOREM DebuggerStopsAsAsked ==
  ASSUME Dbg!Quiet, General!Uniform
  PROVE  MCSpec => []StopsAsAsked
<1>. DEFINE J == General!Inv /\ General!RoundsSound /\ General!Counted
<1>1. MCInit => J
  <2>. SUFFICES ASSUME General!Init PROVE J
    BY DebuggerSteps DEF MCInit
  <2>1. General!Inv
    BY General!InvInit
  <2>2. General!RoundsSound /\ General!Counted
    BY DEF General!Init, General!RoundsSound, General!Counted, General!Covered,
           General!Counts, General!RunStops
  <2>. QED
    BY <2>1, <2>2
<1>2. J /\ [Cycles \/ Debugs]_MCVars => J'
  BY DebuggerSteps, SceneSteps, General!InvNext, General!RoundsNext, General!CountedNext
<1>3. J => StopsAsAsked
  <2>. SUFFICES ASSUME J
                PROVE  Dbg!RbreakReported /\ Dbg!RunStops /\ Dbg!NeverSpins
    BY DEF StopsAsAsked
  <2>1. Dbg!RbreakReported
    BY DEF General!Inv, General!RunsSound, General!Sound, General!WillFire,
           Dbg!RbreakReported, Dbg!WillFire
  <2>2. Dbg!RunStops
    BY DEF General!Counted, General!Counts, General!RunStops, General!WillFire,
           Dbg!RunStops, Dbg!WillFire
  <2>3. Dbg!NeverSpins
    BY DEF General!RoundsSound, General!StatusSound, Dbg!NeverSpins
  <2>. QED
    BY <2>1, <2>2, <2>3
<1>. QED
  BY <1>1, <1>2, <1>3, PTL DEF MCSpec
=============================================================================
