----------------------------- MODULE DeltaQueue -----------------------------
(***************************************************************************)
(* The queue of working memory deltas that a ruling block has not yet      *)
(* propagated through its match network (delta.c).                         *)
(*                                                                         *)
(* The doubly linked list is a sequence.  The hash table is the "hashed"   *)
(* flag of an element: it holds positive elements only, the newest of an   *)
(* id in front, so a search of it finds the last flagged element.  A       *)
(* snapshot is the class and value the object had when it was taken; the   *)
(* snapshot object and its uses of molecules are left out.                 *)
(***************************************************************************)
EXTENDS Integers, Sequences, FiniteSets, FiniteSetsExt, SequencesExt

CONSTANT NoSnapshot     \* de_snapshot is NULL

Positive == "positive"
Negative == "negative"

Snapshot(o) == [cls |-> o.cls, val |-> o.val]

HashedAt(q, i) == {k \in DOMAIN q : q[k].hashed /\ q[k].id = i}
FindInDeltaHash(q, i) == Max(HashedAt(q, i))

MakeElement(sign, i, o) ==
  [sign |-> sign, id |-> i, tag |-> o.tag, hashed |-> sign = Positive,
   snap |-> IF sign = Negative THEN Snapshot(o) ELSE NoSnapshot]

\* Fault: deltas older than the last propagation cancel, and newer ones do not.
CompressesOlder(q, last, sign, i) ==
  /\ sign = Negative
  /\ HashedAt(q, i) # {}
  /\ q[FindInDeltaHash(q, i)].tag <= last

\* A negative delta cancels a queued positive one of the same id that is newer
\* than the last propagation.
Compresses(q, last, sign, i) ==
  /\ sign = Negative
  /\ HashedAt(q, i) # {}
  /\ q[FindInDeltaHash(q, i)].tag > last

\* Fault: the positive element goes out of the hash without a snapshot.
DetachUnsnapped(q, i, o) ==
  IF HashedAt(q, i) = {}
  THEN q
  ELSE [q EXCEPT ![FindInDeltaHash(q, i)].hashed = FALSE]

\* A positive element that cannot be cancelled loses its hash entry and takes
\* a snapshot of the object o before that incarnation vanishes.
Detach(q, i, o) ==
  IF HashedAt(q, i) = {}
  THEN q
  ELSE LET k == FindInDeltaHash(q, i)
       IN  [q EXCEPT ![k].hashed = FALSE, ![k].snap = Snapshot(o)]

\* Fault: a cancelled delta is taken from the front of the queue.
AddToQueueCancelFirst(q, last, sign, i, o) ==
  IF Compresses(q, last, sign, i)
  THEN Tail(q)
  ELSE Append(Detach(q, i, o), MakeElement(sign, i, o))

\* rul__delta_add_to_queue, o being the object that id i denotes.
AddToQueue(q, last, sign, i, o) ==
  IF Compresses(q, last, sign, i)
  THEN RemoveAt(q, FindInDeltaHash(q, i))
  ELSE Append(Detach(q, i, o), MakeElement(sign, i, o))

\* Fault: a delta as new as the target is left for the next update.
ReadyBefore(q, target) == q # << >> /\ Head(q).tag < target

\* rul__delta_get_from_queue: the head, once it is no newer than the target,
\* with its snapshot or else the live object.
Ready(q, target) == q # << >> /\ Head(q).tag <= target

TokenInstance(de, live) ==
  IF de.snap # NoSnapshot THEN de.snap ELSE Snapshot(live)
=============================================================================
