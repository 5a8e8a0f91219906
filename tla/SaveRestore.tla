---------------------------- MODULE SaveRestore ----------------------------
(***************************************************************************)
(* SAVESTATE, ADDSTATE and RESTORESTATE (states.c), with the reading of    *)
(* objects and the translation of their ids (cb_com.c) and the entries of  *)
(* refraction sets (ref.c), across entry blocks that see different         *)
(* declaration blocks and rules, and across restarts of the program.       *)
(*                                                                         *)
(* An object has one attribute that may refer to an object and one that    *)
(* may hold a generated number; every rule has one condition element,      *)
(* which matches any object.  SAVESTATE empties the file and writes it     *)
(* line by line, so a crash may leave its first lines only, or none.       *)
(***************************************************************************)
EXTENDS Integers, Sequences, FiniteSets, SequencesExt

CONSTANTS
    Block, Rule, EntryBlock,
    Sees,       \* the declaration blocks each entry block sees, in their order
    Rules,      \* the rules of the ruling blocks each entry block activates
    MaxObjects, MaxId, MaxTag, MaxGen,  \* bounds on the state
    MaxSaves                            \* and on the files that are written

SeesAssumption ==
    \A e \in EntryBlock : Sees[e] \in Seq(Block) /\ IsInjective(Sees[e])
RulesAssumption == \A e \in EntryBlock : Rules[e] \subseteq Rule
BoundsAssumption ==
    MaxObjects \in Nat /\ MaxId \in Nat /\ MaxTag \in Nat /\ MaxGen \in Nat

NoId == 0

VARIABLES
    eb,         \* the entry block that runs
    wm,         \* the WMO list of each block
    refset,     \* the refraction set of eb
    nextId, clock, gen,
    file,       \* the state file
    saves,      \* history: how many files were written
    atSave,     \* history: the instantiations that could not fire, when it was made
    last        \* history: of the last operation, whether it read the file, into an
                \* emptied memory, took every object, came to the end of the file;
                \* its translation of ids; how many objects each block had before

vars == <<eb, wm, refset, nextId, clock, gen, file, saves, atSave, last>>

NoFile == [header |-> FALSE, objs |-> <<>>, refs |-> <<>>, gen |-> 0, end |-> FALSE]
Nothing == [read |-> FALSE, cleared |-> FALSE, accepted |-> FALSE, whole |-> FALSE,
            trans |-> <<>>, before |-> <<>>]

Objects == UNION {Range(wm[b]) : b \in Block}
Visible == UNION {Range(wm[b]) : b \in Range(Sees[eb])}
Ids == {o.id : o \in Objects}

\* rul__ref_is_refracted
Refracted(r, o) == [rule |-> r, id |-> o.id, tag |-> o.tag] \in refset

-----------------------------------------------------------------------------
(* What the program does *)

Make(b, ref, generated) ==
    /\ b \in Range(Sees[eb])
    /\ Cardinality(Objects) < MaxObjects /\ nextId <= MaxId /\ clock < MaxTag
    /\ generated => gen < MaxGen
    /\ gen' = IF generated THEN gen + 1 ELSE gen
    /\ clock' = clock + 1
    /\ wm' = [wm EXCEPT ![b] = Append(@, [id |-> nextId, tag |-> clock', ref |-> ref,
                                          gen |-> IF generated THEN gen' ELSE NoId])]
    /\ nextId' = nextId + 1
    /\ last' = Nothing
    /\ UNCHANGED <<eb, refset, file, saves, atSave>>

\* A change gives the object a new time tag and leaves it where it is on its list.
Modify(b, i) ==
    /\ b \in Range(Sees[eb]) /\ i \in DOMAIN wm[b] /\ clock < MaxTag
    /\ clock' = clock + 1
    /\ wm' = [wm EXCEPT ![b][i].tag = clock']
    /\ last' = Nothing
    /\ UNCHANGED <<eb, refset, nextId, gen, file, saves, atSave>>

Destroy(b, i) ==
    /\ b \in Range(Sees[eb]) /\ i \in DOMAIN wm[b]
    /\ wm' = [wm EXCEPT ![b] = RemoveAt(@, i)]
    /\ last' = Nothing
    /\ UNCHANGED <<eb, refset, nextId, clock, gen, file, saves, atSave>>

Fire(r, o) ==
    /\ r \in Rules[eb] /\ o \in Visible /\ ~Refracted(r, o)
    /\ refset' = refset \cup {[rule |-> r, id |-> o.id, tag |-> o.tag]}
    /\ last' = Nothing
    /\ UNCHANGED <<eb, wm, nextId, clock, gen, file, saves, atSave>>

\* The entry block returns and another is called, with an empty refraction set.
Call(e) ==
    /\ eb' = e /\ refset' = {}
    /\ last' = Nothing
    /\ UNCHANGED <<wm, nextId, clock, gen, file, saves, atSave>>

\* The program ends, or crashes, and is started again.
Restart(e) ==
    /\ eb' = e /\ refset' = {}
    /\ wm' = [b \in Block |-> <<>>]
    /\ nextId' = 1 /\ clock' = 0 /\ gen' = 0
    /\ last' = Nothing
    /\ UNCHANGED <<file, saves, atSave>>

-----------------------------------------------------------------------------
(* SAVESTATE *)

\* The objects of the visible blocks, in the order of the blocks and their lists.
SavedObjects ==
    FlattenSeq([k \in DOMAIN Sees[eb] |->
        [i \in DOMAIN wm[Sees[eb][k]] |->
            LET o == wm[Sees[eb][k]][i]
            IN  [block |-> Sees[eb][k], id |-> o.id, ref |-> o.ref, gen |-> o.gen]]])

\* Time tags are not written; the entries come in the order of their hash numbers.
SavedEntries == SetToSeqs({[rule |-> x.rule, id |-> x.id, n |-> x.tag] : x \in refset})

Unnumbered(s) == [i \in DOMAIN s |-> [rule |-> s[i].rule, id |-> s[i].id]]

\* The files that a SAVESTATE which is not disturbed writes.
SavedFiles ==
    {[header |-> TRUE, objs |-> SavedObjects, refs |-> Unnumbered(refs),
      gen |-> gen, end |-> TRUE] : refs \in SavedEntries}

Save ==
    /\ saves < MaxSaves /\ saves' = saves + 1
    /\ file' \in SavedFiles
    /\ atSave' = {[rule |-> x[1], id |-> x[2].id] :
                     x \in {y \in Rules[eb] \X Visible : Refracted(y[1], y[2])}}
    /\ last' = Nothing
    /\ UNCHANGED <<eb, wm, refset, nextId, clock, gen>>

\* What there is of file f when the program crashes while it writes it: nothing, the
\* header and the first objects, or all objects and the first entries.
Cuts(f) ==
    LET Part(objs, refs) ==
            [header |-> TRUE, objs |-> objs, refs |-> refs, gen |-> 0, end |-> FALSE]
    IN  {NoFile}
        \cup {Part(SubSeq(f.objs, 1, n), <<>>) : n \in 0..Len(f.objs)}
        \cup {Part(f.objs, SubSeq(f.refs, 1, n)) : n \in 0..Len(f.refs)}

SaveCrashes(e) ==
    /\ saves < MaxSaves /\ saves' = saves + 1
    /\ \E f \in SavedFiles : file' \in Cuts(f)
    /\ atSave' = {}
    /\ eb' = e /\ refset' = {}
    /\ wm' = [b \in Block |-> <<>>]
    /\ nextId' = 1 /\ clock' = 0 /\ gen' = 0
    /\ last' = Nothing

-----------------------------------------------------------------------------
(* Reading the file *)

\* Mutant: an id that was met before is given a second object.
TranslateAgain(t, id) ==
    [t EXCEPT !.trans = [i \in DOMAIN t.trans \cup {id} |->
                            IF i = id THEN t.next ELSE t.trans[i]],
              !.next = @ + 1]

\* An id of the file gets a new instance id when it is met first; so does the id #0
\* of an attribute that refers to nothing.
Translate(t, id) ==
    IF id \in DOMAIN t.trans THEN t
    ELSE [t EXCEPT !.trans = [i \in DOMAIN t.trans \cup {id} |->
                                IF i = id THEN t.next ELSE t.trans[i]],
                   !.next = @ + 1]

\* rul___make_wmos: an object whose class is not visible is refused.
MakeWmo(t, o) ==
    IF o.block \notin Range(Sees[eb]) THEN [t EXCEPT !.status = FALSE]
    ELSE LET u == Translate(Translate(t, o.id), o.ref)
         IN  [u EXCEPT !.clock = @ + 1,
                       !.wm[o.block] = Append(@, [id |-> u.trans[o.id],
                                                  tag |-> u.clock + 1,
                                                  ref |-> u.trans[o.ref],
                                                  gen |-> o.gen])]

ReadObjects(memory) ==
    FoldLeft(MakeWmo, [wm |-> memory, trans |-> <<>>, next |-> nextId,
                       clock |-> clock, status |-> TRUE], file.objs)

\* Mutant: the entries of the file have no time tags, and are given none.
NoTag(t, id) == 0

\* The time tag of the object that has the id now, or 0 (rul__ref_add_state_entry).
TagOf(t, id) ==
    LET named == {o \in UNION {Range(t.wm[b]) : b \in Block} : o.id = id}
    IN  IF named = {} THEN 0 ELSE (CHOOSE o \in named : TRUE).tag

\* The ids of an entry of a rule that the entry block does not have are not read,
\* and where the next entry should begin there is something else: reading stops.
ReadEntry(t, x) ==
    IF ~t.status THEN t
    ELSE IF x.rule \notin Rules[eb] THEN [t EXCEPT !.status = FALSE]
    ELSE LET u == Translate(t, x.id)
             id == u.trans[x.id]
         IN  [u EXCEPT !.refset = @ \cup {[rule |-> x.rule, id |-> id,
                                           tag |-> TagOf(u, id)]}]

ReadEntries(t) ==
    FoldLeft(ReadEntry, [wm |-> t.wm, trans |-> t.trans, next |-> t.next,
                         refset |-> {}, status |-> TRUE], file.refs)

\* Without the header, or another one, nothing is done.
AddState ==
    LET t == ReadObjects(wm)
    IN  /\ file.header
        /\ Cardinality(Objects) + Len(file.objs) <= MaxObjects
        /\ t.clock <= MaxTag /\ t.next <= MaxId + 1
        /\ wm' = t.wm /\ nextId' = t.next /\ clock' = t.clock
        /\ last' = [read |-> TRUE, cleared |-> FALSE, accepted |-> t.status,
                    whole |-> FALSE, trans |-> t.trans,
                    before |-> [b \in Block |-> Len(wm[b])]]
        /\ UNCHANGED <<eb, refset, gen, file, saves, atSave>>

\* Mutant: the counter of generated numbers is not restored.
CounterKept(t, u) == gen

\* The counter of generated numbers when objects t and entries u were read: it is
\* found after the entries, if they were all read and the file does not end before.
Counter(t, u) == IF t.status /\ u.status /\ file.end THEN file.gen ELSE gen

\* The refraction set is restored only when every object was accepted.
RestoreState ==
    LET cleared == [b \in Block |-> IF b \in Range(Sees[eb]) THEN <<>> ELSE wm[b]]
        t == ReadObjects(cleared)
        u == ReadEntries(t)
        next == IF t.status THEN u.next ELSE t.next
    IN  /\ file.header
        /\ t.clock <= MaxTag /\ next <= MaxId + 1
        /\ wm' = t.wm /\ nextId' = next /\ clock' = t.clock
        /\ refset' = IF t.status THEN u.refset ELSE refset
        /\ gen' = Counter(t, u)
        /\ last' = [read |-> TRUE, cleared |-> TRUE, accepted |-> t.status,
                    whole |-> t.status /\ u.status /\ file.end,
                    trans |-> IF t.status THEN u.trans ELSE t.trans,
                    before |-> [b \in Block |-> Len(cleared[b])]]
        /\ UNCHANGED <<eb, file, saves, atSave>>

-----------------------------------------------------------------------------
Init ==
    /\ eb \in EntryBlock
    /\ wm = [b \in Block |-> <<>>]
    /\ refset = {}
    /\ nextId = 1 /\ clock = 0 /\ gen = 0
    /\ file = NoFile /\ saves = 0
    /\ atSave = {}
    /\ last = Nothing

Next ==
    \/ \E b \in Block, ref \in Ids \cup {NoId}, g \in BOOLEAN : Make(b, ref, g)
    \/ \E b \in Block, i \in 1..MaxObjects : Modify(b, i) \/ Destroy(b, i)
    \/ \E r \in Rule, o \in Objects : Fire(r, o)
    \/ \E e \in EntryBlock : Call(e) \/ Restart(e) \/ SaveCrashes(e)
    \/ Save \/ AddState \/ RestoreState

Spec == Init /\ [][Next]_vars

-----------------------------------------------------------------------------
\* No two objects have one instance id, of whatever blocks and however they were
\* made, and no id is given again (rul__translate_wme_id, rul__wm_create).
IdsDistinct ==
    /\ \A b, c \in Block : \A i \in DOMAIN wm[b], j \in DOMAIN wm[c] :
          wm[b][i].id = wm[c][j].id => b = c /\ i = j
    /\ \A o \in Objects : o.id < nextId
    /\ \A x \in refset : x.id < nextId

\* How many of the first n objects of the file are of block b.
CountInFile(n, b) == Cardinality({i \in 1..n : file.objs[i].block = b})

\* "Any attributes that point to other added objects are updated so that the
\* references remain consistent": after ADDSTATE and RESTORESTATE, of whole files and
\* of cut ones, and whether or not some objects were refused, each block that can be
\* seen has the objects of the file behind those it had, in the order of the file; an
\* object refers to the object it referred to when it was saved, though the file may
\* name it before it has it or without having it, and what referred to nothing then
\* refers to none of the objects.
MemoryRestored ==
    last.read =>
        /\ IsInjective(last.trans)
        /\ \A b \in Range(Sees[eb]) :
              Len(wm[b]) = last.before[b] + CountInFile(Len(file.objs), b)
        /\ \A i \in DOMAIN file.objs : file.objs[i].block \in Range(Sees[eb]) =>
              LET o == file.objs[i]
                  now == wm[o.block][last.before[o.block] + CountInFile(i, o.block)]
              IN  /\ now.id = last.trans[o.id]
                  /\ now.ref = last.trans[o.ref]
                  /\ now.gen = o.gen
                  /\ o.ref = NoId => now.ref \notin Ids

\* The entries of the file up to the first one of a rule that eb does not have.
EntriesRead ==
    {i \in DOMAIN file.refs : \A j \in 1..i : file.refs[j].rule \in Rules[eb]}

\* An instantiation that had fired when the state was saved does not fire again
\* after RESTORESTATE (rul__ref_add_state_entry).  If the file is cut, or reading
\* stops, that is so of the entries that were read, and all else can fire: when an
\* object was refused all can, whatever the old refraction set, which stays, has.
FiredStaysFired ==
    /\ last.whole =>
          \A x \in atSave : \A o \in Visible :
              x.rule \in Rules[eb] /\ x.id \in DOMAIN last.trans /\ o.id = last.trans[x.id]
                  => Refracted(x.rule, o)
    /\ last.cleared =>
          \A r \in Rule, o \in Visible :
              Refracted(r, o) <=>
                  /\ last.accepted
                  /\ \E i \in EntriesRead :
                        file.refs[i].rule = r /\ o.id = last.trans[file.refs[i].id]

\* "Restores the conflict set to the state recorded in the file": what could fire
\* when the state was saved can fire again.
ConflictSetRestored ==
    last.whole =>
        \A i \in DOMAIN file.objs, r \in Rules[eb] :
            [rule |-> r, id |-> file.objs[i].id] \notin atSave =>
                \A o \in Visible :
                    o.id = last.trans[file.objs[i].id] => ~Refracted(r, o)

\* "After a RESTORESTATE action, GENATOM and GENINT produce atoms that are different
\* from any that were recorded in the saved file."
GeneratedFresh ==
    last.whole => \A i \in DOMAIN file.objs : file.objs[i].gen <= gen

\* The same, of a file that holds no number above its own counter.
GeneratedFreshUnlessAdded ==
    (last.whole /\ \A i \in DOMAIN file.objs : file.objs[i].gen <= file.gen) =>
        \A o \in Visible : o.gen <= gen
=============================================================================
