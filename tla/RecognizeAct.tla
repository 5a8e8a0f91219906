---------------------------- MODULE RecognizeAct ----------------------------
(***************************************************************************)
(* The recognize-act cycle (rac.c), the conflict sets (cs.c) and the       *)
(* refraction sets (ref.c), with the entry blocks the compiler generates   *)
(* around them (c_g_entr.c).                                               *)
(*                                                                         *)
(* A call of an entry block is a run.  It registers its ruling blocks,     *)
(* makes a refraction set and cycles: propagate the queued changes into    *)
(* the match networks of its ruling blocks, find the best instantiation    *)
(* that is not refracted, fire it, refract it.  Rule code and ON- clauses  *)
(* may call entry blocks, so runs nest; a conflict set belongs to its      *)
(* ruling block and is shared by every run that activates the block, but a *)
(* refraction set belongs to one run.  Each conflict set entry caches      *)
(* whether it is refracted, for the refraction set in cached_ref_set.      *)
(*                                                                         *)
(* An object is a time tag and a value; a rule is the values its condition *)
(* elements want and the values its negated ones forbid.  Propagation is   *)
(* one step here: Propagation.tla has its detail and shows that it leaves  *)
(* the network exact.  The debugger is left out.                           *)
(***************************************************************************)
EXTENDS Integers, Sequences, FiniteSets, TLC

CONSTANTS
  Ids,            \* instance ids
  Vals,           \* attribute values
  Absent,         \* the id denotes no object
  Rules,
  Block,          \* the ruling block of each rule
  Wants,          \* the value each positive condition element wants
  Unless,         \* the values the negated condition elements forbid
  Rank,           \* the class and test specificity of a rule, as one number
  RulingBlocks,
  Mea,            \* the ruling blocks whose strategy is MEA
  Retain,         \* the ruling blocks that retain memories on exit
  Unregistered,   \* the ruling block is not in the vector
  EntryBlocks,
  Activates,      \* the ruling blocks each entry block activates
  RefSets,        \* addresses a refraction set may be allocated at
  Free,           \* nothing is allocated at the address
  NoRefSet,       \* cached_ref_set is NULL
  InvalidCache,   \* cached_ref_set is INVALID_CACHE
  Garbage,        \* is_refracted is not initialized
  NoWinner,       \* winning_cse is NULL
  MaxTag,         \* bound on the time tags
  MaxRuns,        \* bound on the nesting of runs
  MaxAfter        \* bound on the count an AFTER names

ASSUME RulesAssumption ==
  /\ Block \in [Rules -> RulingBlocks]
  /\ Wants \in [Rules -> Seq(Vals) \ {<< >>}]
  /\ Unless \in [Rules -> SUBSET Vals]
  /\ Rank \in [Rules -> Nat]
ASSUME BlocksAssumption ==
  /\ Activates \in [EntryBlocks -> SUBSET RulingBlocks]
  /\ Mea \subseteq RulingBlocks
  /\ Retain \subseteq RulingBlocks
ASSUME BoundsAssumption == MaxTag \in Nat /\ MaxRuns \in Nat /\ MaxAfter \in Nat

VARIABLES
  clock,      \* wm_cur_time_tag
  wm,         \* the object each instance id denotes
  css,        \* the conflict set of each ruling block
  refsets,    \* what is refracted, by the address of the refraction set
  runs        \* the runs of rul__rac_cycle, innermost last

vars == <<clock, wm, css, refsets, runs>>

Object == [tag : 1 .. MaxTag, val : Vals]
Tuples(r) == [1 .. Len(Wants[r]) -> Ids]
Cse == UNION {[rule : {r}, ids : Tuples(r), tags : [1 .. Len(Wants[r]) -> 1 .. MaxTag]]
                : r \in Rules}
RunsCode == {"entry", "rhs", "every", "catcher", "empty", "exit"}

Registered(rb) == css[rb] # Unregistered
Running == runs[Len(runs)]
Blocks(run) == Activates[run.eb]

Init ==
  /\ clock = 0
  /\ wm = [i \in Ids |-> Absent]
  /\ css = [rb \in RulingBlocks |-> Unregistered]
  /\ refsets = [a \in RefSets |-> Free]
  /\ runs = << >>

-----------------------------------------------------------------------------
(* Matching and conflict resolution.                                       *)

Satisfied(r, ids) ==
  /\ \A k \in DOMAIN ids : wm[ids[k]] # Absent /\ wm[ids[k]].val = Wants[r][k]
  /\ \A i \in Ids : wm[i] # Absent => wm[i].val \notin Unless[r]

Instantiations(rb) ==
  UNION {{[rule |-> r, ids |-> ids, tags |-> [k \in DOMAIN ids |-> wm[ids[k]].tag]]
            : ids \in {t \in Tuples(r) : Satisfied(r, t)}}
          : r \in {x \in Rules : Block[x] = rb}}

\* The flag cs_make_cse gives a new entry.
MadeFlag(cached, e) ==
  IF cached = InvalidCache THEN Garbage
  ELSE IF cached = NoRefSet THEN FALSE
  ELSE e \in refsets[cached]

\* rul__rbs_update_match_network: an entry is removed and made again when the
\* time tag of one of its objects changes, and otherwise keeps its flag.
UpdateMatchNetwork(rb) ==
  [css[rb] EXCEPT !.refracted =
    [e \in Instantiations(rb) |->
       IF e \in DOMAIN @ THEN @[e] ELSE MadeFlag(css[rb].cached, e)]]

ResetCseRefractions(c, rs) ==
  [c EXCEPT !.refracted = [e \in DOMAIN @ |-> e \in refsets[rs]]]

\* Fault: an invalid cache is taken for an empty one.
CheckCacheInvalid(c, rs) ==
  IF c.cached \in {NoRefSet, InvalidCache} THEN [c EXCEPT !.cached = rs]
  ELSE IF c.cached # rs THEN ResetCseRefractions(c, rs)
  ELSE c

\* Fault: the cache is claimed for the refraction set with the flags of another.
CheckCacheClaimed(c, rs) == [c EXCEPT !.cached = rs]

\* How cs_find_best_cse leaves the conflict set c.
CheckCache(c, rs) ==
  IF c.cached = NoRefSet THEN [c EXCEPT !.cached = rs]
  ELSE IF c.cached # rs THEN ResetCseRefractions(c, rs)
  ELSE c

\* The tags as cs_make_cse sorts them.
Newer(x, y) == x > y
SortedTags(e) ==
  IF Block[e.rule] \in Mea
  THEN <<Head(e.tags)>> \o SortSeq(Tail(e.tags), Newer)
  ELSE SortSeq(e.tags, Newer)

\* better_cse and cse_compare.  Two entries that tie on all of this are told
\* apart by their serial numbers, which are left out: either may win.
Better(d, e) ==
  LET s == SortedTags(d)
      t == SortedTags(e)
      common == {k \in DOMAIN s : k \in DOMAIN t}
      differ == {k \in common : s[k] # t[k]}
  IN  IF differ # {}
      THEN \E k \in differ : s[k] > t[k] /\ \A j \in differ : k <= j
      ELSE \/ Len(s) > Len(t)
           \/ Len(s) = Len(t) /\ Rank[d.rule] > Rank[e.rule]

\* There are finitely many instantiations and better_cse orders them, so that
\* among any of them one is best: what the proofs ask of a program.
Resolvable ==
  /\ IsFiniteSet(Cse)
  /\ \A d \in Cse : ~Better(d, d)
  /\ \A d, e, f \in Cse : Better(d, e) /\ Better(e, f) => Better(d, f)

\* rul__cs_get_winner over the conflict sets cs of the blocks rbs.
Winners(cs, rbs) ==
  LET candidates == UNION {{e \in DOMAIN cs[rb].refracted : cs[rb].refracted[e] = FALSE}
                             : rb \in rbs}
  IN  {w \in candidates : \A e \in candidates : ~Better(e, w)}

-----------------------------------------------------------------------------
(* What code may do while it has control.                                  *)

HasControl == runs # << >> => Running.pc \in RunsCode

Tick == clock < MaxTag /\ clock' = clock + 1
SetObject(i, v) == wm' = [wm EXCEPT ![i] = [tag |-> clock + 1, val |-> v]]

\* MAKE or MODIFY, and REMOVE.
Write(i, v) == Tick /\ SetObject(i, v)
Remove(i) == wm[i] # Absent /\ wm' = [wm EXCEPT ![i] = Absent] /\ UNCHANGED clock

ChangeWM ==
  /\ HasControl
  /\ \E i \in Ids : Remove(i) \/ \E v \in Vals : Write(i, v)
  /\ UNCHANGED <<css, refsets, runs>>

\* rul__rac_after
After(n) ==
  /\ runs # << >> /\ Running.pc \in RunsCode
  /\ runs' = [runs EXCEPT ![Len(runs)].after = n]
  /\ UNCHANGED <<clock, wm, css, refsets>>

\* Fault: a ruling block found in the vector gains no use.
AfterRegisterUncounted(rb) ==
  IF Registered(rb)
  THEN css[rb]
  ELSE [uses |-> 1, cached |-> NoRefSet,
        refracted |-> [e \in Instantiations(rb) |-> FALSE]]

\* rul__rbs_register_rblock
AfterRegister(rb) ==
  IF Registered(rb)
  THEN [css[rb] EXCEPT !.uses = @ + 1]
  ELSE [uses |-> 1, cached |-> NoRefSet,
        refracted |-> [e \in Instantiations(rb) |-> FALSE]]

\* The generated code of an entry block up to its ON-ENTRY clause.
EnterEntryBlock(eb, a) ==
  /\ HasControl
  /\ Len(runs) < MaxRuns
  /\ refsets[a] = Free
  /\ refsets' = [refsets EXCEPT ![a] = {}]
  /\ css' = [rb \in RulingBlocks |->
               IF rb \in Activates[eb] THEN AfterRegister(rb) ELSE css[rb]]
  /\ runs' = Append(runs, [eb |-> eb, rs |-> a, pc |-> "entry",
                           win |-> NoWinner, winFreed |-> FALSE, fired |-> {},
                           count |-> 0, after |-> 0])
  /\ UNCHANGED <<clock, wm>>

-----------------------------------------------------------------------------
(* The cycle.                                                              *)

Goto(pc) == runs' = [runs EXCEPT ![Len(runs)].pc = pc]

\* The code that had control at pc returns, with RETURN or without.
Returned(pc, next) ==
  /\ runs # << >> /\ Running.pc = pc
  /\ Goto("exit") \/ Goto(next)
  /\ UNCHANGED <<clock, wm, css, refsets>>

OnEntryReturned == Returned("entry", "recognize")

Capped(n) == IF n > MaxAfter THEN n ELSE n + 1

\* Fault: every ruling block in the vector is updated.
AfterUpdateOfAll(run) ==
  [rb \in RulingBlocks |->
     IF Registered(rb) THEN CheckCache(UpdateMatchNetwork(rb), run.rs) ELSE css[rb]]

\* The conflict sets once the run has updated its match networks and has looked
\* for its best entry.
AfterUpdate(run) ==
  [rb \in RulingBlocks |->
     IF rb \in Blocks(run) THEN CheckCache(UpdateMatchNetwork(rb), run.rs) ELSE css[rb]]

\* The entries freed on the way to the conflict sets cs.
Freed(cs) == UNION {DOMAIN css[rb].refracted \ DOMAIN cs[rb].refracted
                      : rb \in {x \in RulingBlocks : Registered(x)}}

\* Propagate, resolve, and save the tags of the winner.
Recognize ==
  /\ runs # << >> /\ Running.pc = "recognize"
  /\ LET updated == AfterUpdate(Running)
         marked == [k \in DOMAIN runs |->
                      [runs[k] EXCEPT !.winFreed = @ \/ runs[k].win \in Freed(updated)]]
         best == Winners(updated, Blocks(Running))
     IN  /\ css' = updated
         /\ \/ /\ best = {}
               /\ runs' = [marked EXCEPT ![Len(runs)].pc = "empty"]
            \/ \E w \in best :
                 runs' = [marked EXCEPT ![Len(runs)].pc = "rhs",
                                        ![Len(runs)].win = w,
                                        ![Len(runs)].count = Capped(@)]
  /\ UNCHANGED <<clock, wm, refsets>>

\* No object of the winner was removed or modified (rac.c compares the tags
\* with those it saved before the rule fired, which are the entry's).
StillValid(w) ==
  \A k \in DOMAIN w.ids : wm[w.ids[k]] # Absent /\ wm[w.ids[k]].tag = w.tags[k]

\* Fault: the entry is not tagged.
RefractUntagged(c, w, rs) ==
  [(IF c.cached \in {rs, NoRefSet} THEN c ELSE ResetCseRefractions(c, rs))
     EXCEPT !.cached = rs]

\* Fault: the flags of another refraction set are kept.
RefractUnreset(c, w, rs) == [c EXCEPT !.cached = rs, !.refracted[w] = TRUE]

\* rul__cs_refract_cse
Refract(c, w, rs) ==
  LET d == IF c.cached = rs THEN c
           ELSE [(IF c.cached # NoRefSet THEN ResetCseRefractions(c, rs) ELSE c)
                   EXCEPT !.cached = rs]
  IN  [d EXCEPT !.refracted[w] = TRUE]

\* What ends the firing: "fired" is the history of the run.
EndFiring(pc) ==
  runs' = [runs EXCEPT ![Len(runs)].pc = pc, ![Len(runs)].win = NoWinner,
                       ![Len(runs)].fired = @ \cup {Running.win}]

RhsReturned ==
  /\ runs # << >> /\ Running.pc = "rhs" /\ ~Running.winFreed
  /\ LET w == Running.win
         rb == Block[w.rule]
         rs == Running.rs
     IN  \/ EndFiring("exit") /\ UNCHANGED <<css, refsets>>
         \/ /\ EndFiring("every")
            /\ IF StillValid(w)
               THEN /\ css' = [css EXCEPT ![rb] = Refract(@, w, rs)]
                    /\ refsets' = [refsets EXCEPT ![rs] = @ \cup {w}]
               ELSE UNCHANGED <<css, refsets>>
  /\ UNCHANGED <<clock, wm>>

\* The rule has returned and the names and ids of a freed entry are read: the
\* behaviour of the program is undefined from here on.
RhsReturnedFreed ==
  /\ runs # << >> /\ Running.pc = "rhs" /\ Running.winFreed
  /\ Goto("undefined")
  /\ UNCHANGED <<clock, wm, css, refsets>>

\* A count of 0 is an AFTER that was never executed, or that names a cycle
\* that is over.
CatcherDue(run) == run.after > 0 /\ run.after = run.count

OnEveryReturned ==
  Returned("every", IF CatcherDue(Running) THEN "catcher" ELSE "recognize")

CatcherReturned == Returned("catcher", "recognize")

OnEmptyReturned == Returned("empty", "exit")

\* rul__rbs_unregister_rblock
AfterUnregister(rb) ==
  IF css[rb].uses > 1 \/ rb \in Retain
  THEN [css[rb] EXCEPT !.uses = @ - 1]
  ELSE Unregistered

\* Fault: the caches are left as they are.
InvalidateNone(c, rs) == c

\* rul__cs_invalidate_ref_cache, for every ruling block in the vector.
Invalidate(c, rs) ==
  IF c = Unregistered \/ c.cached # rs THEN c ELSE [c EXCEPT !.cached = InvalidCache]

\* The ON-EXIT clause returns, the ruling blocks are unregistered and the
\* refraction set is freed.
ExitEntryBlock ==
  /\ runs # << >> /\ Running.pc = "exit"
  /\ css' = [rb \in RulingBlocks |->
               Invalidate(IF rb \in Blocks(Running) THEN AfterUnregister(rb) ELSE css[rb],
                          Running.rs)]
  /\ refsets' = [refsets EXCEPT ![Running.rs] = Free]
  /\ runs' = SubSeq(runs, 1, Len(runs) - 1)
  /\ UNCHANGED <<clock, wm>>

CodeReturns ==
  \/ OnEntryReturned \/ RhsReturned \/ RhsReturnedFreed \/ OnEveryReturned
  \/ CatcherReturned \/ OnEmptyReturned \/ ExitEntryBlock

Next ==
  \/ ChangeWM
  \/ \E n \in 1 .. MaxAfter : After(n)
  \/ \E eb \in EntryBlocks, a \in RefSets : EnterEntryBlock(eb, a)
  \/ Recognize
  \/ CodeReturns

Spec == Init /\ [][Next]_vars

(* Runs are disjoint when no entry block is called, directly or not, while *)
(* a run that activates one of its ruling blocks is under way.             *)
Disjoint ==
  \A j, k \in DOMAIN runs :
    j # k => Blocks(runs[j]) \cap Blocks(runs[k]) = {}

DisjointSpec == Init /\ [][Next /\ Disjoint']_vars

(* Rule code and ON- clauses return, however many entry blocks they call   *)
(* first, and the run-time system does not pause.                          *)
FairSpec ==
  /\ DisjointSpec
  /\ WF_vars(Recognize)
  /\ \A d \in 1 .. MaxRuns : SF_vars(CodeReturns /\ Len(runs) = d)

-----------------------------------------------------------------------------
\* No conflict set is left with an entry whose is_refracted was never set:
\* cs_make_cse leaves it so while the cache is invalid, and the search for the
\* winner that follows must not read it.
FlagsInitialized ==
  \A rb \in RulingBlocks : Registered(rb) =>
    \A e \in DOMAIN css[rb].refracted : css[rb].refracted[e] \in BOOLEAN

\* Types, with the entries of a conflict set typed one by one.
TypeOK ==
  /\ clock \in 0 .. MaxTag
  /\ \A i \in Ids : wm[i] = Absent \/ wm[i] \in Object
  /\ \A rb \in RulingBlocks : Registered(rb) =>
       /\ css[rb].uses \in Nat
       /\ css[rb].cached \in RefSets \cup {NoRefSet, InvalidCache}
       /\ DOMAIN css[rb].refracted \subseteq Cse
  /\ \A a \in RefSets : refsets[a] = Free \/ refsets[a] \subseteq Cse
  /\ \A k \in DOMAIN runs :
       /\ runs[k].eb \in EntryBlocks /\ runs[k].rs \in RefSets
       /\ runs[k].pc \in RunsCode \cup {"recognize", "undefined"}
       /\ runs[k].pc \in {"rhs", "undefined"} <=> runs[k].win \in Cse
       /\ runs[k].count \in 0 .. MaxAfter + 1 /\ runs[k].after \in 0 .. MaxAfter

\* An instantiation fires once in a run: rac.c adds it to the refraction set
\* of the run "so it won't fire again", and a rule that changes what it
\* matched makes another instantiation of it.
NoRefire == \A k \in DOMAIN runs : runs[k].win \notin runs[k].fired

\* While the cache of a conflict set is for a refraction set, the flags of the
\* entries say what that refraction set says.
FlagsMatchCache ==
  \A rb \in RulingBlocks :
    (Registered(rb) /\ css[rb].cached \in RefSets) =>
      \A e \in DOMAIN css[rb].refracted :
        css[rb].refracted[e] = (e \in refsets[css[rb].cached])

\* A conflict set never remembers a refraction set that was freed, whose
\* address the next entry block may be given.
CacheLive ==
  \A rb \in RulingBlocks :
    (Registered(rb) /\ css[rb].cached \in RefSets) => refsets[css[rb].cached] # Free

\* The entry a run is firing is in its conflict set until the rule returns, so
\* the recognize-act cycle may still read it.
WinnerNotFreed == \A k \in DOMAIN runs : ~runs[k].winFreed

\* A run that finds no winner has fired every instantiation working memory
\* satisfies: nothing is suppressed by what another run, or an earlier run at
\* the same address, refracted.
GivesUpHonestly ==
  [][(Recognize /\ runs'[Len(runs)].pc = "empty") =>
       \A rb \in Blocks(Running) : Instantiations(rb) \subseteq Running.fired]_vars

\* A run ends once changes to working memory do: each instantiation fires at
\* most once, so cycling alone cannot go on for ever.
RunsEnd == runs # << >> ~> runs = << >>
=============================================================================
