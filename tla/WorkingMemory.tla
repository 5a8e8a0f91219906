--------------------------- MODULE WorkingMemory ---------------------------
(***************************************************************************)
(* The working memory of the run-time system (wm_updat.c): objects with an *)
(* instance id, a class, a time tag and attribute values, kept on one list *)
(* per declaration block.                                                  *)
(*                                                                         *)
(* A change to an object is not one call.  The code the compiler emits for *)
(* MAKE, COPY, MODIFY and SPECIALIZE opens the change, assigns attributes  *)
(* one at a time and closes the change with rul__wm_update_and_notify; the *)
(* attribute expressions, and the system methods (BEFORE-MAKE, ON-MODIFY   *)
(* and so on) that run in between, are RHS code that may open changes of   *)
(* its own, on the same object too.  "stack" holds the open changes,       *)
(* innermost last: an entry is the object pointer a C frame holds until it *)
(* closes its change.  obj_changes counts the nesting and is what keeps    *)
(* those pointers from dangling.                                           *)
(*                                                                         *)
(* The attributes of an object are abstracted to one value.  The scope     *)
(* checks and error messages of the ..._id and ..._var entry points change *)
(* no state and are left out.                                              *)
(***************************************************************************)
EXTENDS Integers, Sequences, FiniteSets

CONSTANTS
  Ids,          \* instance ids
  Classes,      \* object classes
  Blocks,       \* declaration blocks
  BlockOf,      \* the block that declares each class
  IsSubclass,   \* pairs <<sub, super>>, proper subclasses only
  Vals,         \* attribute values
  DefaultVal,   \* the default attribute value of every class
  Absent,       \* instance_id_value is NULL
  MaxTag,       \* bound on wm_cur_time_tag
  MaxDepth      \* bound on the number of changes open at once

ASSUME BlockAssumption == BlockOf \in [Classes -> Blocks]
ASSUME ValAssumption == DefaultVal \in Vals
ASSUME BoundAssumption == MaxTag \in Nat /\ MaxDepth \in Nat

VARIABLES
  clock,        \* wm_cur_time_tag
  obj,          \* the object each instance id denotes
  lists,        \* the WMO list of each declaration block
  stack         \* the changes that are open, innermost last

wmVars == <<clock, obj, lists, stack>>

Object == [cls : Classes, tag : Nat, val : Vals, changes : Nat]
Frame == [kind : {"change", "remove"}, id : Ids]

ASSUME AbsentAssumption == Absent \notin Object

Exists(i) == obj[i] # Absent
AtRest(i) == Exists(i) /\ obj[i].changes = 0

Top == stack[Len(stack)]
Pop(s) == [k \in 1 .. Len(s) - 1 |-> s[k]]
TopIs(kind, i) == stack # << >> /\ Top = [kind |-> kind, id |-> i]

\* rul__list_remove_first on the list entry the object holds.
Without(l, i) ==
  LET k == CHOOSE j \in DOMAIN l : l[j] = i
  IN  [j \in 1 .. Len(l) - 1 |-> IF j < k THEN l[j] ELSE l[j + 1]]
BlockNow(i) == BlockOf[obj[i].cls]

TypeOK ==
  /\ clock \in Nat
  /\ obj \in [Ids -> Object \cup {Absent}]
  /\ lists \in [Blocks -> Seq(Ids)]
  /\ stack \in Seq(Frame)

Init ==
  /\ clock = 0
  /\ obj = [i \in Ids |-> Absent]
  /\ lists = [b \in Blocks |-> << >>]
  /\ stack = << >>

-----------------------------------------------------------------------------
(* The operations.  Each is one C function, up to the point where control  *)
(* returns to RHS code.                                                    *)

Open(i) ==
  /\ Len(stack) < MaxDepth
  /\ stack' = Append(stack, [kind |-> "change", id |-> i])

\* wm_create_object, reached from rul__wm_create and rul__wm_copy: the new
\* object carries one open change and goes to the end of its block's list.
Create(i, c, v) ==
  /\ clock < MaxTag
  /\ clock' = clock + 1
  /\ obj' = [obj EXCEPT ![i] = [cls |-> c, tag |-> clock + 1,
                                val |-> v, changes |-> 1]]
  /\ lists' = [lists EXCEPT ![BlockOf[c]] = Append(@, i)]
  /\ Open(i)

\* The id is a fresh one, or one the caller supplies (opt_id) that denotes
\* nothing now; an id in use is refused before anything changes.
Make(i, c) == ~Exists(i) /\ Create(i, c, DefaultVal)

\* Fault: the old object is returned without a count for the new nesting.
OldReturnedUncounted(old) ==
  /\ Exists(old) /\ ~AtRest(old)
  /\ Open(old)
  /\ UNCHANGED <<clock, obj, lists>>

\* An object under change is neither copied nor specialized: its nesting count
\* goes up and the caller is handed the old object in place of the new one.
OldReturned(old) ==
  /\ Exists(old) /\ ~AtRest(old)
  /\ obj' = [obj EXCEPT ![old].changes = @ + 1]
  /\ Open(old)
  /\ UNCHANGED <<clock, lists>>

Copy(old, i) ==
  /\ AtRest(old)
  /\ ~Exists(i)
  /\ Create(i, obj[old].cls, obj[old].val)

\* Fault: a nested change returns before it is counted.
ModifyUncounted(i) ==
  /\ Exists(i)
  /\ Open(i)
  /\ IF AtRest(i)
     THEN /\ clock < MaxTag
          /\ clock' = clock + 1
          /\ obj' = [obj EXCEPT ![i].changes = 1, ![i].tag = clock + 1]
     ELSE UNCHANGED <<clock, obj>>
  /\ UNCHANGED lists

\* Fault: the object is given the newest time tag and not the next one.
ModifySameTag(i) ==
  /\ Exists(i)
  /\ Open(i)
  /\ obj' = [obj EXCEPT ![i].changes = @ + 1,
                        ![i].tag = IF AtRest(i) THEN clock ELSE @]
  /\ UNCHANGED <<clock, lists>>

Modify(i) ==
  /\ Exists(i)
  /\ Open(i)
  /\ IF AtRest(i)
     THEN /\ clock < MaxTag
          /\ clock' = clock + 1
          /\ obj' = [obj EXCEPT ![i].changes = 1, ![i].tag = clock + 1]
     ELSE /\ obj' = [obj EXCEPT ![i].changes = @ + 1]
          /\ UNCHANGED clock
  /\ UNCHANGED lists

\* Fault: the entry on the list of the old class is not removed.
SpecializeStillListed(i, c) ==
  /\ AtRest(i)
  /\ <<c, obj[i].cls>> \in IsSubclass
  /\ clock < MaxTag
  /\ clock' = clock + 1
  /\ obj' = [obj EXCEPT ![i].cls = c, ![i].changes = 1, ![i].tag = clock + 1]
  /\ lists' = [lists EXCEPT ![BlockOf[c]] = Append(@, i)]
  /\ Open(i)

\* The object may grow and be reallocated; the id keeps denoting it.
Specialize(i, c) ==
  /\ AtRest(i)
  /\ <<c, obj[i].cls>> \in IsSubclass
  /\ clock < MaxTag
  /\ clock' = clock + 1
  /\ obj' = [obj EXCEPT ![i].cls = c, ![i].changes = 1, ![i].tag = clock + 1]
  /\ lists' = LET off == [lists EXCEPT ![BlockNow(i)] = Without(@, i)]
              IN  [off EXCEPT ![BlockOf[c]] = Append(@, i)]
  /\ Open(i)

\* An assignment under a nested change is dropped.
SetVal(i, v) ==
  /\ TopIs("change", i)
  /\ obj' = [obj EXCEPT ![i].val = IF obj[i].changes = 1 THEN v ELSE @]
  /\ UNCHANGED <<clock, lists, stack>>

UpdateAndNotify(i) ==
  /\ TopIs("change", i)
  /\ obj' = [obj EXCEPT ![i].changes = @ - 1]
  /\ stack' = Pop(stack)
  /\ UNCHANGED <<clock, lists>>

\* Fault: an object is removed while a change of it is open.
DestroyUnguarded(i) ==
  /\ Exists(i)
  /\ obj' = [obj EXCEPT ![i].changes = @ + 1]
  /\ lists' = [lists EXCEPT ![BlockNow(i)] = Without(@, i)]
  /\ Len(stack) < MaxDepth
  /\ stack' = Append(stack, [kind |-> "remove", id |-> i])
  /\ UNCHANGED clock

\* rul__wm_destroy_and_notify up to its BEFORE-REMOVE method.  An object
\* under change is left alone.
Destroy(i) ==
  /\ AtRest(i)
  /\ obj' = [obj EXCEPT ![i].changes = 1]
  /\ lists' = [lists EXCEPT ![BlockNow(i)] = Without(@, i)]
  /\ Len(stack) < MaxDepth
  /\ stack' = Append(stack, [kind |-> "remove", id |-> i])
  /\ UNCHANGED clock

\* wm_destroy_object, once the BEFORE-REMOVE method has returned.
DestroyObject(i) ==
  /\ TopIs("remove", i)
  /\ obj' = [obj EXCEPT ![i] = Absent]
  /\ stack' = Pop(stack)
  /\ UNCHANGED <<clock, lists>>

Next ==
  \E i \in Ids :
    \/ \E c \in Classes : Make(i, c) \/ Specialize(i, c)
    \/ \E old \in Ids : Copy(old, i)
    \/ OldReturned(i)
    \/ Modify(i)
    \/ \E v \in Vals : SetVal(i, v)
    \/ UpdateAndNotify(i)
    \/ Destroy(i)
    \/ DestroyObject(i)

Spec == Init /\ [][Next]_wmVars

-----------------------------------------------------------------------------
FramesOn(i) == {k \in DOMAIN stack : stack[k].id = i}

\* obj_changes is exactly the number of open changes on the object, and
\* nothing is open on an id that denotes no object.
NestingExact ==
  \A i \in Ids :
    IF Exists(i) THEN obj[i].changes = Cardinality(FramesOn(i))
                 ELSE FramesOn(i) = {}

\* The object pointer a suspended frame holds (obj_var of the generated code,
\* wmo of rul__wm_destroy_and_notify) never dangles: the object is not freed
\* while any change of it is open.
HeldObjectsLive == \A k \in DOMAIN stack : Exists(stack[k].id)

\* An object being removed is changed by no frame below the removal, so the
\* destruction that ends the removal takes it from nobody.
RemovalIsInnermost ==
  \A j, k \in DOMAIN stack :
    (stack[k].kind = "remove" /\ stack[j].id = stack[k].id) => j >= k

BeingRemoved(i) == \E k \in DOMAIN stack : stack[k].kind = "remove" /\ stack[k].id = i
Listed(b, i) == \E k \in DOMAIN lists[b] : lists[b][k] = i

\* An object is on the list of its class's declaration block, unless it is
\* being removed, on no other list and on no list twice: what the iterators of
\* wm_iter.c visit is exactly working memory.
ListsExact ==
  \A b \in Blocks :
    /\ \A i \in Ids :
         Listed(b, i) <=> Exists(i) /\ ~BeingRemoved(i) /\ BlockNow(i) = b
    /\ \A j, k \in DOMAIN lists[b] : lists[b][j] = lists[b][k] => j = k

\* A time tag names one object: conflict resolution by recency and the
\* refraction test compare tags only.
TagsDistinct ==
  \A i, j \in Ids :
    Exists(i) => /\ obj[i].tag \in 1 .. clock
                 /\ (Exists(j) /\ i # j => obj[i].tag # obj[j].tag)
=============================================================================
