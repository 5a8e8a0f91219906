# RuleWorks: TLA+ models, checks and proofs

RuleWorks (`src/`) is a forward-chaining production system: a compiler
(`source/c_*.c`) turns rules into C, and a run-time library (`source/rac.c`,
`rbs.c`, `wm_updat.c`, ...) keeps working memory, matches rules and fires them.
This directory models the run-time library, and those parts of the compiler
whose output the run time relies on.  It is sequential C: what makes it hard is
*re-entrancy*.  Rule code, attribute-triggered methods and ON- clauses run in
the middle of library operations and may change working memory or call further
entry blocks, which share ruling blocks, conflict sets and objects with the
operations they interrupt.  The second hard thing is *order*: programs declare
classes, name them in rules, add keys and set attributes in any order, and the
tables have to come out the same.

## 1. Inventory

| component (source) | state | operations | correct when |
|---|---|---|---|
| working memory objects (`wm_updat.c`, `wm_p.h`, `list.c`) | the object of each instance id: class, time tag, values, nesting count `changes`; a WMO list per declaration block; `wm_cur_time_tag` | create, copy, modify, specialize, set, update-and-notify, destroy (one, by id, all) | nesting counts are exact, nobody holds a freed object, lists are working memory, sweeps keep their place |
| delta queues (`delta.c`) | a queue per ruling block of positive and negative deltas, a hash of the positive ones, snapshots | add (with compression and snapshots), get up to a target tag, free | a delta is propagated with the incarnation it announced; nothing cancels the wrong delta |
| ruling block registry (`rbs.c`) | vector of registered blocks: use count, last propagated tag, queue, beta memories, conflict set | register (initial propagation), unregister (or retain), notify of a delta, update the match network, invalidate caches | the network lags working memory by exactly the queue; use counts are the running entry blocks |
| WM iterators (`wm_iter.c`) | cursor into a WMO list | for each object / known object / of a class | visits each object once, whatever the function does |
| match network (`c_g_net.c`, `c_nt_nod.c`, `c_s_bnet.c`) | trees of nodes; generated dispatch | weave class nodes into the tree, add condition elements, hand token lengths down, generate | each object reaches exactly the condition elements it can match |
| beta memories (`beta.c`) | equivalence classes, a cursor each, cross match counts | modify memory, count matches, loop over tokens | the conflict subset is the join; no cursor dangles |
| conflict sets (`cs.c`) | entries with tags, `is_refracted`, ordered tree, `cached_ref_set` | modify, choose the winner, refract, invalidate the cache | flags agree with the refraction set they cache; the winner is the best unrefracted entry |
| balanced trees (`btree.c`) | AVL tree, static `foundintree` | insert, remove, look up, traverse, purge | is the ordered bag of its keys |
| refraction sets (`ref.c`) | instantiations a run has fired | make, add, test, purge, free | an instantiation fires once in a run |
| recognize-act cycle (`rac.c`) | cycle counts, AFTER/catcher, saved tags, the winner | cycle, after, call method | each cycle works on propagated changes; runs end; methods get arguments that fit |
| generated code (`c_g_entr.c`, `c_s_acts.c`) | locals of an entry block or RHS | enter and leave an entry block; bracket a change | registers what it unregisters |
| declarations and inheritance (`decl_cls.c`, `decl_inh.c`, `c_s_cls.c`, `c_g_clas.c`) | class tree, attribute offsets, method tables, inheritance masks; built by the compiler and again by the program | declare classes, attributes, generics and methods; encode; load | the two builds agree; subclass tests and dispatch are exact |
| save and restore (`states.c`, `cb_com.c`) | state file, id translation | SAVESTATE, ADDSTATE, RESTORESTATE | restores what was saved; nothing refires |
| call-in interface (`cb_*.c`) | one buffered modify | make, copy, modify, specialize, remove, set, get | writes what was asked; holds a use of what it points at |
| molecules (`ml_table.c`, `ml_comps.c`) | interned values with use counts | make, use, give up, free | nothing that is pointed at is freed |
| hashing and arrays (`hash.c`, `dyar.c`) | bucket chains; growing memory | add, replace, remove, get; add, set, remove, look | a dictionary; a sequence |
| debugger (`dbg.c`, `cmd_pars.y`, the breaks of `rac.c`) | static flags of the interpreter, pending breaks, lists of names, `run_count`, `rul__rac_rule_firing_cycle` | commands, prompts between the choice of a winner and its firing | fires nothing a command made stale; stops where it was asked to |
| compiler front end, SQL, I/O, messages | - | - | not modelled, see section 8 |

How they interact.  A change calls `rul__rbs_notify_wm_delta` (a loop over the
registered ruling blocks), which queues a delta in each block that uses the
object's declaration block.  `rul__rac_cycle` drains the queues of its ruling
blocks through their networks (`rul__rbs_update_match_network`), the network
calls `rul__cs_modify`, `rul__cs_get_winner` chooses, the rule's function is
called back and changes working memory or calls an entry block, which is
another `rul__rac_cycle` on the same C stack.  Methods are called back in the
middle of `rul__wm_update_and_notify` and of `rul__wm_destroy_and_notify`.  The
tables of declarations are read by all of these; the call-in interface calls
the operations of working memory from C, outside of any entry block.  A cycle
with debugging calls the interpreter of the debugger, whose commands change
working memory, so that methods run, which may call entry blocks that stop in
the same interpreter.

`PROJECT.json` lists each hazard at its line, with the properties that cover it
or the reason why none does.

## 2. Modules

| module | models | how it is used |
|---|---|---|
| `WorkingMemory` | `wm_updat.c`, `list.c`, the bracketing code of `c_s_acts.c` | objects, lists, time tags, and the stack of open changes |
| `WmSweep` | `rul__wm_destroy_and_notify_all` | the sweep with its cursor and the methods it calls |
| `DeltaQueue` | `delta.c` | pure operators on one queue |
| `Propagation` | `rbs.c`, the use it makes of `delta.c`, entry and exit of entry blocks | EXTENDS `WorkingMemory` and `DeltaQueue`: objects, queues, networks and runs composed |
| `LazyView` | | abstract: viewers whose picture of the truth lags, and how it may catch up |
| `RecognizeAct` | `rac.c`, `cs.c`, `ref.c`, `c_g_entr.c` | nested recognize-act cycles over shared conflict sets |
| `Debugger` | the interpreter of `dbg.c` and `cmd_pars.y`, its calls in `rac.c` | commands and cycles that call each other over static state |
| `BetaMemory` | `beta.c`, the node code of `c_g_net.c` | the join of one rule, one call frame at a time |
| `MatchNetwork` | `c_nt_nod.c`, `c_s_bnet.c`, the dispatch of `c_g_net.c` | compiling rules into nodes |
| `BTree` | `btree.c` | AVL trees as nested records |
| `Inheritance` | `decl_inh.c` | longword encoding of the hierarchy |
| `Declarations` | `decl_cls.c`, `c_s_cls.c`, `c_g_clas.c` | layouts and method tables, compiled and loaded |
| `MethodCall` | `rul__call_method` of `rac.c` | the checks of one call |
| `SaveRestore` | `states.c`, id translation of `cb_com.c`, `rul__ref_add_state_entry` | files, crashes, restarts |
| `Molecules`, `CallIn` | `ml_table.c`, `ml_comps.c`; `cb_com.c` | operators on the table of molecules; a C program that calls |
| `HashTable`, `Dictionary` | `hash.c` | detailed and abstract |
| `DynamicArray`, `ItemSequence` | `dyar.c` | detailed and abstract |
| `*Proofs`, `SequenceFacts` | | theorems and the lemmas they share |
| `MC*` | | the checked instances |

Operators marked `Fault:` or `Mutant:` are plausible bugs of the code, used to
confirm that each property can fail; no specification uses them.

**WorkingMemory.**  `obj[i]` is the object an instance id denotes (`NULL` is
`Absent`), `changes` its `changes` field, `lists[b]` the WMO list of a
declaration block, `clock` is `wm_cur_time_tag`.  The C stack appears as
`stack`: one frame for each change that is open (between `rul__wm_modify` and
its `rul__wm_update_and_notify` in generated code, or inside
`rul__wm_destroy_and_notify` while the BEFORE-REMOVE method runs).  The frame
holds the C local that points at the object.  Any operation may be called while
changes are open, which is what a method or a function in an attribute
expression may do; only the top frame can end.  Copying or specializing an
object under change returns the old object with one more count
(`OldReturned`), as the code does.

**WmSweep** keeps the list *cells*: a new cell for each addition, so that a
cursor can dangle.  The cursor is moved before the removal (`Advance`), the
method of the object runs on the stack (`suspended` in the instance) and may
create, change, specialize and remove any object, and start another sweep, of a
class or of every object (`NoClass`, a `class_id` of NULL, which no caller
passes today); the sweep then goes on from the cursor.  When code that a sweep
called takes the very object it has fetched from its list, the cell at the
cursor is freed.  The model notes that in the frame (`lost`) and lets a sweep
whose cursor is no cell of its list take no step, since what the code does then
is undefined.

**DeltaQueue and Propagation.**  `AddToQueue` is the whole of
`rul__delta_add_to_queue`: a negative delta cancels a queued positive one newer
than the last propagation, else a queued positive one is detached from the hash
with a snapshot and the new element goes to the end.  `Notify` runs it for
every registered ruling block in whose scope the object is; `Withdraw` (the
negative delta is sent *before* the change) and `Publish` (the positive one
after) attach it to the actions of `WorkingMemory`.  A run of an entry block is
a record: the depth of `stack` when it was called, its phase and the target tag
of an update.  `net[rb]` is the bag of tokens the network was given and not had
taken away.  `LazyView` states what this amounts to: only the picture of a
*pending* item may change, first forgotten, then replaced by the truth of the
moment; every other item is pictured exactly.  `Propagation` implements it with
networks as pictures, objects at rest and in scope as truth and queued ids as
pending (`ImplementsView`).

**RecognizeAct.**  Propagation is a single step here: it gives the conflict set
the instantiations working memory satisfies, and an entry survives exactly when
its objects kept their tags.  That the network does so is what `Propagation`,
`MatchNetwork` and `BetaMemory` show.  `css[rb].refracted` is the `is_refracted`
flag of each entry, with `Garbage` for the uninitialized flag of an entry made
under `INVALID_CACHE`; `css[rb].cached` is `cached_ref_set`.  `refsets` is
indexed by *address*, so a freed set may come back.  Each run has a program
counter for the place in `rul__rac_cycle` that has called out, the winner, and
two history variables: `fired` and `winFreed`.  The step that would read a freed
winner goes to `undefined`, and that run does nothing more.

**Debugger.**  A run is at one of the places in `rul__rac_cycle` that call out:
ON- clauses, rules and catchers (`Code`), the interpreter that waits for a
command (`"prompt"`), and a command that runs methods (`"command"`).  `dbg` is
the static state of `dbg.c`, one for all runs; `break` the reasons to stop that
are pending.  `Recognize` chooses any winner: what is satisfied does not matter
here, only that a choice is stale once a command has changed working memory
(`changed`, a history variable, as are `stopped` and `budget`).

**BetaMemory.**  A rule is a chain of condition elements.  A call of a two-input
node is a frame; the loop over the opposite memory takes a step for each
member, because nodes downstream are called from inside the loop while the
cursor lives in the equivalence class.  One object may enter a node from both
sides, in any order (`order`).

**MatchNetwork.**  `nodes` grows one condition element at a time; class nodes are
inserted above, below and between those that are there; then `Ancestor`,
`PropagateWm` and `NodeInfo` read off what the generated dispatch does with an
object and how long a token each memory is told to store.

**Inheritance, Declarations, MethodCall.**  A longword is the set of its bits;
`overshift` is what the build makes of a shift by the width of a longword.
`Declarations` has two records of tables, that of the compiler and that of the
generated program, made by the same operators in different orders.
`MethodCall` is one call at the grain of its loops, so that a loop which does
not advance is a state with no other successor.

**SaveRestore.**  A file is its header, object lines, refraction lines, end mark
and counter.  It is opened for writing first, so a crash (`SaveCrashes`) may
leave nothing, or the file up to any line (`Cuts`): the header and the first
objects, or all objects and the first refractions.  A cut in the middle of a line
is not modelled.  ADDSTATE and RESTORESTATE do nothing without the header, and
take a file that ends early for what is there: of a header alone RESTORESTATE
empties working memory.  Ids are translated on first sight, as
`rul__translate_wme_id` does, the #0 of an attribute that refers to nothing
too: after the restore it holds an id that is no object's.  An object whose class
is not visible is refused, and the refraction set is then left as it was;
refractions are read up to the first one of a rule that the entry block does not
have, and the counter only behind all of them.

**Molecules and CallIn.**  `table.count` is the reference count of each interned
value, with `Permanent` above the threshold.  An action of `CallIn` is a whole
call: `Store` is the common end of the setters (into `SM_result` or into the
object), `Ended` what `rul__modify_wme_end` leaves, `MakeWme` the whole of
`rul___make_wmos` with its reuse of `SM_result`.  `freedUsed` records that a
freed molecule was used, after which nothing is claimed.  `risks` records the
calls in whose order use counts do not stand; see the findings.

**HashTable, DynamicArray** have an abstract module each; the refinement maps
chains to a function and memory to the first `stored` items.

## 3. Runs

A run covers several instances: `part` (or `scene`) is chosen in the initial
state and kept, so that its state space is the disjoint union of theirs and a
property speaks of one of them.

| run | instances | shows |
|---|---|---|
| `working_memory` | *changes*: 2 ids, a class and its subclass in 2 blocks, 4 tags, depth 3 | `TypeOK`, `NestingExact`, `HeldObjectsLive`, `RemovalIsInnermost`, `ListsExact` |
| | *sweeps*: 3 ids, 3 classes in 2 blocks, depth 3, methods that do anything, sweeps in sweeps included | `CursorsLiveUnlessTaken`, `SweepsComplete` |
| | *uses*: 2 ids, NIL and one more atom, compounds up to one element, threshold 2, calls without risk | `UsesCoverUnlessRisked`, `EndsAsAsked` |
| | *buffer*: the same without elements of compounds, all calls | `EndsAsAsked` |
| `propagation` | a disciplined program, 2 ids, 1 block; and any program, 1 id, a shared block and a retained one | `NetworkLagsByQueue`, `UsesMatchRuns`, `ImplementsView`, `UnsnappedDeltasLive`, `UpdateDrains` |
| `recognize_act` | *apart*: disjoint runs; *shared*: every program with two entry blocks over two ruling blocks | `NoRefireApart`, `WinnerKeptApart`, `FlagsMatchApart`; `FlagsInitialized`, `CacheLive`, `GivesUpHonestly` |
| | *debugger*, *catcher*: 2 entry blocks with debugging and one without, 1 rule, depth 2, the counts of RUN and AFTER up to 1 | `FiresFreshQuiet`, `StopsAsAsked` |
| `recognize_ends` | disjoint runs under fairness, AFTER counts to 1 | `RunsEnd` |
| `match` | *join*: 3 objects, 4 rules of two or three elements, positive and negated | `ConflictSubsetIsJoin`, `CrossMatchesExact`, `MembersLive`, `PropagationEnds` |
| | *dispatch*: 4 classes in 2 blocks, 4 rules of one element; *chains*: 3 classes, rules up to three elements | `NetworkExact` (the dispatch; the lengths of tokens) |
| | *tree*: 5 keys, 8 nodes | `SearchTree` |
| `declared` | *hierarchy*: 6 classes, longwords of 4 bits | `SubclassUnlessBoundary`, `LoadedAgrees` |
| | *tables*: 4 classes, 2 attributes or methods; *call*: 2 arguments, compounds of 2 | `TablesAgree`, `MostSpecificUnlessLate`; `OnlyFittingCalls`, `CallsUnlessStuck` |
| `storage` | *objects*, *rules*, *numbers*: 2 blocks and 2 rules, entry blocks that have one or both; whole and cut files | `MemoryRestored`, `FiredStaysFired`; `GeneratedFreshUnlessAdded` |
| | *table*: 4 keys, 3 in a bucket; *array*: 4 places, growth by 1 and 2 | `ActsAsDictionary`; `ActsAsSequence` |
| `recognize_refire`, `recognize_freed`, `debugger_stale`, `inheritance_boundary`, `call_in_freed` | | findings, section 6 |

**Assumptions on programs.**  The code does not hold up in every program, and
the exceptions are stated where they are made:

* `Discipline` (Propagation): no entry block registers a ruling block while an
  object in its scope is under change.  Without it the initial propagation reads
  an object that has been withdrawn and is not yet published, and the later
  announcement adds it a second time.  `NetworkLagsByQueue` and the refinement
  assume it; `UnsnappedDeltasLive` and `UpdateDrains` do not.
* `Disjoint` (RecognizeAct): no entry block is called while a run that activates
  one of its ruling blocks is under way.  `NoRefireApart`, `WinnerKeptApart` and
  `FlagsMatchApart` assume it; the other three do not.
* `Quiet` (Debugger): methods that commands run call no entry block with
  debugging, directly or not.  `FiresFreshQuiet` assumes it.  `Uniform`: entry
  blocks with debugging, and the program, call only entry blocks with debugging.
  The configuration satisfies both, and `StopsAsAsked` is checked with both.
* `lost` (WmSweep): code that a sweep called has taken the object it had fetched
  from its list.  Nothing is claimed of that sweep any more; everything of the
  others, and of it as long as methods take other objects.
* `RemoveAny` (HashTable): FALSE when the first entry of a longer chain is not
  removed.
* `risks` (CallIn): no atom set, object made, or modified object specialized
  between `rul__modify_wme_start` and `rul__modify_wme_end`, for use counts; no
  object made, for `EndsAsAsked`.
* `EndsOnBoundary` (Inheritance), `DefinedLate` (Declarations), `NothingSticks`
  (MethodCall): the cases in which a subclass test, a dispatch and a call go
  wrong.

Section 6 shows what happens without the others.

**Bounds and why they are enough.**  `MaxTag` bounds the time tags: three are
enough for create, modify and modify again of one object, or changes of two in
both orders, hence for a cancelled, a detached and a second announcement of the
same id.  `MaxDepth` bounds open changes: three let an object be changed in a
change, and a second be removed inside.  `MaxRuns` = 2 is a run in a run, and
each address in `RefSets` can be freed and taken again while the other run goes
on; in the scene *shared* the clock stops at 2.  Three objects in *sweeps* are
the one removed, one before and one after it, and its depth of three is a sweep,
the removal of an object, and a removal, change or sweep by its method; three in *join* let one object
enter a class another keeps alive while a third leaves.  Longwords of 4 bits and 6
classes let codes cross a boundary with bits on both sides.  In *tables*
attributes and methods are explored apart (`AttrsOrMethods`): no routine of
`decl_cls.c` reads the ones to make the others.  Classes are numbered in the
order of their declaration, which is exact, since names are only compared.  A
refused call is given no arguments (`ArgumentsLookedAt`), since the code returns
before it looks.  The threshold of permanence is 2 in place of 8000: the
program's use, an attribute's and the table's own are enough to pass it, and
both sides of it are reached.  `FewGiven` lets the program of *uses* hold one
molecule besides the predefined ones.  In *objects* references go
forward, backward and to nothing, in a file with refractions of one rule; in
*rules* entries of two rules come in both orders, so that a known one is read
before an unknown one; *numbers* has two files of one object each; two time tags
let two objects be made or restored, or one be made and then changed or restored.
*table* has three keys in one bucket, so that an entry has neighbours on both
sides; *array* grows three times.  In
*debugger* and *catcher* the program calls the main entry block once, the counter
of firings stops at 3, and the command AFTER and the lists of names are explored
apart; three firings are one before, one at and one after the end of a RUN of
one.  `CHECK_DEADLOCK FALSE` is said where the bounds, or an undefined run,
really stop the system.
`SYMMETRY` is over values that the code only compares: instance ids, addresses
and names.

**Fairness.**  `RunsEnd`: the run-time system does not pause in its own cycle
(`WF(Recognize)`), and rule code and ON- clauses return, however many entry
blocks they call first (strong fairness of `CodeReturns` at each nesting depth:
the return of an outer run is disabled each time an inner one is called).  The
first is sequential C, the second is the part of termination that belongs to the
program.  No fairness is put on changes of working memory, on calls or on AFTER.
Time tags are bounded, so working memory stops growing new instantiations, and
the cycle must not go on by itself.  `PropagationEnds`: generated node code does
not pause (`WF(Propagates)`); nothing makes new changes.  `CallsUnlessStuck`: the
loops of `rul__call_method` do not pause (`WF(CallsMethod)`).

## 4. Safety, in the words of the code

* *Nobody holds a freed object* (`HeldObjectsLive`): an object under change is
  left alone by `rul__wm_destroy_and_notify`; this rests on `NestingExact`, so
  every early return of `wm_updat.c` has to count.
* *Compression is right* (`NetworkLagsByQueue`): the network is working memory
  without what is queued, through every cancelled and detached announcement.
* *Live reads are of the right incarnation* (`UnsnappedDeltasLive`), in every
  program, which is the argument for the snapshot rule of `delta.c`.
* *Updates leave nothing behind* (`UpdateDrains`), also in networks that were
  registered in the middle of a change.
* *The conflict subset is the join* (`ConflictSubsetIsJoin`), each instantiation
  once, although one object can match several elements of a rule.
* *An instantiation fires once in a run* (`NoRefireApart`), and *a run gives up
  only when there is nothing left* (`GivesUpHonestly`): the two sides of
  refraction; *what had fired stays fired* across SAVESTATE and RESTORESTATE.
* *Code compiled for a class reads objects of its subclasses*
  (`LayoutInherited` in `TablesAgree`), and *the program is what the compiler
  compiled for* (`GeneratedAgrees` in `TablesAgree`, `LoadedAgrees`).
* *A rule that fires was chosen after the last change a command made*
  (`FiresFreshQuiet`): the run goes round again instead, and stops again.
* *A molecule that somebody points at has a use for it*
  (`UsesCoverUnlessRisked`), through every mixture of setters that make, take
  and borrow.

## 5. Proofs

All theorems hold for every value of the constants, under the named assumptions
of the module.

| theorem | property of a run | module |
|---|---|---|
| `TypeCorrect`, `NestingCorrect`, `RemovalInnermost`, `NoDanglingObject`, `ListsHoldWorkingMemory` | `TypeOK`, `NestingExact`, `RemovalIsInnermost`, `HeldObjectsLive`, `ListsExact` | `PropagationProofs` |
| `TagsIdentify`, `PropagationTypes` | (time tags are unique; types) | `PropagationProofs` |
| `UsesCorrect`, `UnsnappedLive`, `DrainedByUpdate` | `UsesMatchRuns`, `UnsnappedDeltasLive`, `UpdateDrains` | `PropagationProofs` |
| `LagsByQueue`, `ViewImplemented` | `NetworkLagsByQueue`, `ImplementsView` | `PropagationProofs` |
| `PlacesLive`, `SweepsFinish` | (of `WmSweep` with any constants) | `WmSweepProofs` |
| `SweepPlacesLive`, `SweepsAllFinish` | `CursorsLiveUnlessTaken`, `SweepsComplete` | `WorkingMemoryRunProofs` |
| `CachesLive`, `FlagsAlwaysInitialized` (from `CachesInvariant`) | `CacheLive`, `FlagsInitialized` | `RecognizeActProofs` |
| `GivesUpOnlyWhenDone` | `GivesUpHonestly` | `RecognizeActProofs` |
| `FiresOnce`, `WinnersKept`, `FlagsRight` (from `ApartInvariant`) | (of programs with disjoint runs) | `RecognizeActProofs` |
| `FiresOnceApart`, `WinnersKeptApart`, `FlagsRightApart` | `NoRefireApart`, `WinnerKeptApart`, `FlagsMatchApart` | `RecognizeActProofs` |
| `FreshFirings`, `BreaksReported` (from `DebuggerInvariant`), `SpinsNever`, `StopsAfterCount` | (of `Debugger` with any constants) | `DebuggerProofs` |
| `FiresFreshWhereQuiet`, `DebuggerStopsAsAsked` | `FiresFreshQuiet`, `StopsAsAsked` | `RecognizeActProofs` |
| `FittingOnly`, `RefusalsTold`, `RunCallsFit` | `OnlyFittingCalls` | `DeclaredProofs` |
| `TablesKept`, `MethodFound` (from `DeclaredHolds`) | (of `Declarations` with any constants) | `DeclaredProofs` |
| `RunTablesAgree` | `TablesAgree` | `DeclaredProofs` |
| `RunMethodFound` | `MostSpecificUnlessLate` | `DeclaredProofs` |
| `SubclassTested` (from `HierarchyHolds`) | (of `Inheritance` with any constants) | `DeclaredProofs` |
| `RunSubclass` | `SubclassUnlessBoundary` | `DeclaredProofs` |
| `RunLoadedAgrees` | `LoadedAgrees` | `DeclaredProofs` |
| `DictionaryThroughout` (from `TableRefines`) | `ActsAsDictionary` | `StorageProofs` |
| `SequenceThroughout` (from `ArrayRefines`) | `ActsAsSequence` | `StorageProofs` |
| `RestoresMemoryThroughout` | `MemoryRestored` | `StorageProofs` |
| `RestoresFiredThroughout` | `FiredStaysFired` | `StorageProofs` |
| `RestoresNumbersThroughout` | `GeneratedFreshUnlessAdded` | `StorageProofs` |
| `UsesThroughout`, `EndsThroughout` (from `CallInvariant`) | `UsesCoverUnlessRisked`, `EndsAsAsked` | `WorkingMemoryRunProofs` |
| `CallsThroughout` | (of any program of calls, without the bounds of the run) | `WorkingMemoryRunProofs` |

Where a run has several instances in one specification, the theorem about the
module is general, and a theorem about the run's own specification is derived
from an INSTANCE of it.  The run `match` has no theorems, since recursive
operators take part in all of it.

**Working memory.**  The inductive invariant is
`Inv == TypeOK /\ NestingExact /\ RemovalIsInnermost`.  `NestingExact` alone is
not inductive: when a removal ends the object becomes absent, and one has to
know that no *other* frame is on it, which is `RemovalIsInnermost` together with
the fact that a removal starts only at count zero; and `RemovalIsInnermost`
needs `NestingExact` to turn "count zero" into "no frame".  The steps are proved
once per shape of the stack, a push and a pop, with lemmas on how the set of
frames of an id and its cardinality change.  `HeldObjectsLive` follows from
`Inv`; `TagsDistinct` is inductive over `TypeOK`; `ListsExact` over `Inv`, with
lemmas on what `Without` and appending do to a list without repetitions.
Assumptions: every class has a declaration block, the default value is a value,
bounds are naturals, `Absent` is no object.  Nothing is assumed finite.

**Propagation.**  The inductive invariant `InvP` has two halves.  In *every*
program (`QueuesSound`): no queued element is newer than the clock; an element is
hashed exactly as long as it has no snapshot, and then it is the announcement of
an object at rest, as it is now, and the only one of that object.  That is the
snapshot rule of `delta.c`, and `UnsnappedDeltasLive` is one of its consequences:
whatever makes a hashed announcement stale has to find it through the hash first.
In *disciplined* programs (`QueuesExact`) also: every positive element is hashed
and newer than the last propagation, so that it can be cancelled; of one object
there are at most two elements, a withdrawal before an announcement; a withdrawal
of an object in sight is followed by an announcement; and the network is what
`Shows` says, the tokens that are still to be withdrawn and the objects in
sight that are not queued.  `OpenSince` closes the induction: a change that is
open began after the registration, unless it removes the object, so that its end
announces something cancellable.  `RunsSound` (only the innermost run updates,
with the clock as its target) is what makes `UpdateDrains` true although the code
compares only the head of the queue.  A step is one of three kinds to a queue, out
of sight, `Withdraw`, `Publish`, and these are proved once for a single queue.

`ViewImplemented` follows step by step: queued objects are pending and the
network is the picture, so `Withdraw` and `Publish` change only what is true and
pending, taking an element from the queue is a forgetting or a catching up of its
object, and a registration is a viewer that begins with the truth.
Assumptions besides those of working memory: `NoSnapshot` is no snapshot and
`Unregistered` is no registration.

**Sweeps.**  The invariant of `WmSweepProofs` says of each sweep under way, and
there may be any number of them on the stack (`SweepOK`): what it was asked to
remove is under no change of the code below it; and, as long as it is not `lost`,
its place is live, and what it was asked to remove is ahead of it, being removed,
or gone.  The lists ascend in their cells (`ListsAscend`), so that "ahead" is a
comparison of numbers, which is not disturbed by what other code lists, takes or
sweeps.  `CursorsLiveUnlessTaken` is a part of it; `SweepsComplete` follows when
the sweep is past the last block, so that nothing can be ahead, and on top of the
stack, so that nothing is being removed that is not under a change below it.
Assumed are that blocks are listed once and that each class has one.

**Recognize-act cycle, every program.**  `Inv` of `RecognizeActProofs` says that
runs own distinct refraction sets that are allocated, use counts of conflict
sets are exact (so that a conflict set a run looks into is there), a cache names
`NULL`, `INVALID` or an allocated set, and under a valid cache no flag is
`Garbage`.  Preservation of `CacheLive` when a run ends is the point: its
refraction set is freed, and every conflict set that caches it is invalidated,
including those of retained ruling blocks.  `GivesUpHonestly` needs `History`
as well: what a run refracted it fired (`RefractedFired`), a set flag was set
for the set in the cache (`FlagsSound`), and `CacheOfLater`: a conflict set with
an entry some run refracted remembers that run or one that began later.  The
last is what survives of "the flags are right" in programs that share ruling
blocks, and it is enough, because a search by an earlier run recomputes.

**Recognize-act cycle, disjoint runs.**  `Apart` adds that a cache belongs to
the run of its block, flags are exactly the refraction set, fired instantiations
are refracted or have dead tags, tags of fired instantiations are in the past,
and the winner has not been fired.  `FiresOnce` follows, and `NoRefireApart` of
the run's specification with it, since its steps in the scene *apart* are steps
of disjoint runs.

**Hypotheses on the constants.**  `Distinct` says that those that stand for "no
set", "no winner" and the like are no values.  `GivesUpOnlyWhenDone` also needs
that a winner exists when an unrefracted entry does: `Resolvable` says that there
are finitely many instantiations and that conflict resolution orders them
strictly, which `better_cse` does; the proof gets a best entry of a finite set
from a minimal counterexample over the well-founded subset ordering.  TLC
evaluates `Resolvable` on the instance (`ResolutionAssumption` in
`MCRecognizeAct`).

**Debugger.**  The statics belong to the latest run that stopped.  Under `Quiet`
nothing with debugging runs above a command (`Nesting`), so they are those of the
run that is in the debugger (`RunsSound`), and a change of working memory is
noticed by the run that chose a rule: `FiresFresh`.  `HooksSet` and `ReasonsKept`
say that a list of breaks is looked at when it is not empty, which gives
`RbreakReported`.  `SpinsNever` needs that a run with a status has a break
pending or is in the debugger (`RoundsSound`).  `StopsAfterCount` needs more:
`Counted` relates
`run_count`, the firing counter and what the last RUN allows, and holds when
every run that can fire between two stops has debugging (`Uniform`);
`DebuggerRun.cfg` shows that it fails otherwise.

**Method calls.**  `Inv` ties the position of the walk to what was tested: the
arguments before `i` fit unless one was refused, and the ids before `j` of the
current one are of the class.  The bounds on arguments and lengths are constants
of `MCDeclared`, so that `RunCallsFit` holds of its specification for any.

**Declarations.**  `DeclaredInv` says of the compiler's tables that they are
typed, with the classes a tree in which a class comes after the one above it
(`Typed`); that a class has the layout of the one above it, and the attributes of
a class have offsets of their own, below the next free one, and names that the
local lists alone give back (`LaidOut`); that only the last class is open; that a
method is of a class whose generic it was checked against, of which there is one
on every line (`Separate`, `Against`); and two things about the order of
declaration.  The table of a class holds the class of the *last* method at or
above it (`FoundIn`): that is what the test in `add_class_method` amounts to, which
only looks at the table of the class of the new method, and it is the most specific
one exactly when no method came late.  And what the generated program has built
after any number of classes is what the compiler had, without its methods
(`Reloads`); the methods, loaded after all classes, give the same table because
`FoundIn` determines it.  `GeneratedAgrees` is not inductive without the last two:
the compiler adds methods while it still adds classes, so the two builds meet
only at the end of the block.  That the walk up the classes ends is proved from
the order of declaration, since the lineage is a recursive function.  Assumed is
only that `None` and `$ROOT` are no names of classes, and `None` no default.

**Inheritance.**  `HierarchyInv` is short: the classes are a tree in which the list
of children of a class has each of them once (`ClassTree`), the encodings of the
compiler are those of the tree, and those of the program are made from them.  The
work is in what an encoding is.  A *code* (`Codes`) is a set of places: that of the
class above, and the digits of the class's number among its siblings, placed so
that they end where the level ends (`Own`).  Sibling numbers are not 0, siblings
have different ones, and the levels do not overlap; hence the part of a code
before the end of a level is the code of the class of that level above it
(`CodesBegin`) and of no other (`CodesTell`).  `At` gives the longwords of a code:
appending a number within a longword or across two adds its places to the pattern
(`PatternAppended`), unless it ends with a longword, and the bits of the level to
the mask (`MaskAppended`) in every case.  A masked comparison of longwords is then
one of a code with the beginning of another (`ComparesAs`).  That the masks which
the program makes from their lengths are those of the compiler is the same
statement about `SetInhMaskLength` (`MaskLengthIs`), so that `LoadedAgrees` needs no
exception for the boundary.  Assumed are that a longword has at least two bits,
that there are finitely many classes, that a sibling number fits a longword, and
that `$ROOT` is no name of a class.

**Hash tables and dynamic arrays** are refinements, proved with the abstract
specification's own INSTANCE: initial states map to initial states, each
operation to the abstract one or to a stutter.  The invariant of the table is
that a chain holds keys of its bucket, each once (`KeysOnce`); of the array, that
`stored` is within the memory.  `SequenceFacts` has the lemmas on pushing in
front, taking out and taking a prefix that both need.  The table is proved under
`RemoveAny = FALSE`, as it is checked.

**Save and restore.**  `SaveInv` is the types of the state, `IdsSound` (live ids
are distinct and below the counter), `FileSound` (the objects of a file have
distinct ids, and a whole file has an entry for all that could not fire) and, as
long as nothing else happened since a file was read: `ReadBack` after ADDSTATE or
RESTORESTATE of any file (the memory is what the file names), `Refracts` after
RESTORESTATE of any file (the refraction set is that of the entries that were
read), and `Restored` after that of a whole one.  The work is in the loops of the
reader, which are folds over the lines of the file: `ReadSound` says what the
translation table and the lists hold after a prefix of the objects, `EntrySound`
what the refraction set holds after a prefix of its lines.  That the order of each
list is kept, and that a token means the object it meant when the file was
written, follows from the position of an object among those of its block.  That
the id of #0 is no object's follows because the table is injective and objects
were there before (`OldOrRead`), under smaller ids, or come from lines whose id
is not #0.  Assumed is that an entry block sees a block once.

**Calls.**  `CallOK` has three parts, for every program of calls: types; `Tracks`,
which follows what a modify was asked for; and `Sound`, which holds as long as
nothing risky was called.  `Sound` says that the use count of every molecule is
at least the number of its users, where a user is an attribute of an object, a
variable of the program, an attribute of the buffer, or an element of a compound
that is in the table; and that the buffer holds no atom and `SO_mod_wme` points at
its object.  `UsesCoverUnlessRisked` is not inductive without the elements:
a compound that is freed gives up a use of each of its elements, which may free
them.  Each operation on the table has one lemma, that it takes or gives up the
use of one user; a call that takes a use before it has a place for it, or gives
one up after it has cleared the place, has a temporary user for the time
between.  A call is then proved by going through its uses in order.
Hypotheses: `NIL` is an atom, no atom is a compound, an atom becomes permanent
only after it was used, and `Absent` is no record.

**Induction.**  The theorems of the library about induction take an operator as a
parameter.  Where a proof needs induction over a number, it takes the least
number out of order from the well-foundedness of `<` instead (`Induct` in
`SequenceFacts`), and a fold is unrolled by a function with its intermediate
results (`FoldsBy`, `FoldExists`), so that what holds of every prefix can be said
of that function.

**Only model-checked.**  `BetaMemory`, `MatchNetwork`, `BTree`.
Liveness (`RunsEnd`, `PropagationEnds`, `CallsUnlessStuck`) and
ENABLED are out of the prover's reach.  So is what RECURSIVE operators compute:
the balanced tree, the node walks and the class chains are evaluated by TLC over
bounded inputs.

## 6. Findings

1. **A rule can fire twice on the same objects in one run** (`recognize_refire`).
   `cs_find_best_cse` (`cs.c:803`) recomputes the flags of a conflict set for
   the refraction set it is called with, but leaves `cached_ref_set` naming the
   other one.  Take a run A whose rule calls an entry block B that activates the
   same ruling block.  The flags are reset for B's set while the cache names
   A's; when A's rule is then refracted the cache looks right, the reset is
   skipped, and A's earlier firings are unrefracted in the flags.
2. **The winner is read after it was freed** (`recognize_freed`).  `rac.c:435`
   reads the entry after the rule ran; a nested run of the same ruling block
   that propagates a change of a matched object frees it.
3. **A subclass that is not one** (`inheritance_boundary`).  When the codes of a
   level end exactly with a longword, `append_to_class_encoding`
   (`decl_inh.c:539`) shifts by the width of a longword.
4. **A rule fires after its reason has gone** (`debugger_stale`).  The state of
   the interpreter is static.  A command that changes working memory runs a
   method, the method calls an entry block with debugging, and a stop at the
   ON-EXIT of that block sets `Dbg_ebreak_exit`; when the command returns,
   `rul__dbg_flag_changes` (`dbg.c:1492`) takes it for a command of that stop and
   does not note the change, and the rule that was chosen before it fires.
5. **A freed atom in an object** (`call_in_freed`).  Between
   `rul__modify_wme_start` and `rul__modify_wme_end` the buffer takes no use of an
   atom; `rul__set_attr_integer` and its like give up the one they made, and the
   end of the modify stores and gives up a freed molecule.  With an atom of the
   caller, set through `rul__set_attr_atom`, the end gives up the *caller's* use.

Configurations that reach further disagreements are kept with the modules.
They are not among the listed runs; each is run the same way.

| configuration | with | shows |
|---|---|---|
| `HashTableRemove.cfg` | `MCStorage` | removing the first entry of a chain empties the bucket (`hash.c:230`); "Removes entry with given key" |
| `BTreeMissing.cfg` | `MCMatch` | a removal that finds no key can report that it did: `rul__btree_remove_tree` assigns a local `foundintree` and reads the static (`btree.c:483`); no caller removes a missing key |
| `SaveRestoreConflict.cfg` | `MCStorage` | an instantiation whose object was changed since it fired could fire when the state was saved and cannot after RESTORESTATE: the file has no time tags, and `rul__ref_add_state_entry` (`ref.c:254`) gives the entry those of the restored objects |
| `SaveRestoreGen.cfg` | `MCStorage` | after ADDSTATE and a save, GENINT repeats a number that is in the file |
| `DeclarationsLate.cfg` | `MCDeclared` | a method defined after that of a subclass replaces it there (`decl_cls.c:1359`) |
| `MethodCallStuck.cfg` | `MCDeclared` | the class check of a single instance id does not advance (`rac.c:769`) |
| `WmSweepSubclasses.cfg` | `MCWorkingMemory` | a sweep compares classes for equality (`wm_updat.c:521`), so REMOVE-EVERY of a class leaves the objects of its subclasses |
| `WmSweepAny.cfg` | `MCWorkingMemory` | a method in a sweep frees the list entry that was fetched before the removal (`wm_updat.c:519`), and the sweep goes on from it |
| `DebuggerRun.cfg` | `MCRecognizeAct` | the count of RUN is compared for equality with the firing counter of all runs (`rac.c:272`); the firings of an entry block without debugging go past it |
| `DebuggerAfter.cfg` | `MCRecognizeAct` | the command AFTER n calls the catcher after n+1 firings (`dbg.c:372`); it prints "Setting catcher %s after %s cycles" |
| `CallInMoved.cfg` | `MCWorkingMemory` | specializing an object inside its modify moves it; setting an element of a compound then reads `SO_mod_wme` |
| `PropagationLast.cfg` | `MCPropagation` | the last propagated time tag is set at registration only (`rbs.c:275`), not as an update starts (`delta.c:52-59`); harmless in what is modelled |

A further one is in the model but has no configuration: an object made between
the start and the end of a modify reuses `SM_result` (`cb_com.c:1420`), so the
end writes the values of the new object to the modified one, and gives their
uses up a second time; this is the risk "made inside".

## 7. What is left to do

The next proofs are those of `BetaMemory`, where `MembersLive` is
inductive over the frames and `ConflictSubsetIsJoin` needs the join of what each
frame has still to visit.  The next models would be the frame of an AFTER- method
between the end of a change and the read of its instance id, and the iterators of
`wm_iter.c` under FOR-EACH.

## 8. Not modelled

* The compiler front end (scanner, parser, `c_val.c`, most of code generation):
  it keeps no state at run time, and its checks are about the form of programs.
* Of the debugger: EXIT and QUIT, which end the program, traces, and the commands
  that print or name files.  What the rules match is left open there.
* SQL: the state is in an external database.
* Input and output, messages and conversions between molecules and text: no
  state the properties are about.
* Of molecules: hash chains, soundex, arithmetic and predicates, and the numbers
  of instance ids.  `CallIn` models the release build; the other builds do not
  free molecules.
* Of the call-in interface: queries, `rul__remove_class` (see `WmSweep`), and
  starting the cycle.  Calls are made while no rule is changing the object.
* Of objects: attribute history, wbreaks and tracing.
* Of the match network: the passage of variables and the predicates of tests,
  which `BetaMemory` replaces by equality and inequality with an earlier element.
* The serial number that breaks ties in conflict resolution is a free choice, so
  what is shown holds whatever it is.  The overflow of `long` time tags is out
  of scope.

## 9. How to run

    tlc -config WorkingMemory.cfg MCWorkingMemory
    tlc -config RecognizeAct.cfg MCRecognizeAct
    tlapm RecognizeActProofs.tla

Each run's module and configuration are in `PROJECT.json`.  The longest runs
take nearly three minutes.
