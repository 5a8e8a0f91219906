---------------------------- MODULE Propagation ----------------------------
(***************************************************************************)
(* How a change to working memory reaches the match networks (rbs.c on top *)
(* of wm_updat.c and delta.c).                                             *)
(*                                                                         *)
(* Every registered ruling block is told of every change to an object of   *)
(* the declaration blocks it uses and queues it.  An entry block registers *)
(* the ruling blocks it activates, runs recognize-act cycles that begin by *)
(* draining their queues into their networks, and unregisters them.        *)
(* Rules and methods may call entry blocks, so runs of entry blocks nest,  *)
(* and they may do so while a change is open.                              *)
(*                                                                         *)
(* A match network is abstracted to the bag of tokens it has been given    *)
(* and not had taken away.                                                 *)
(***************************************************************************)
EXTENDS WorkingMemory, DeltaQueue

CONSTANTS
  RulingBlocks,
  EntryBlocks,
  Activates,      \* the ruling blocks each entry block activates
  Scope,          \* the declaration blocks each ruling block uses
  Retain,         \* the ruling blocks that retain memories on exit
  Unregistered,   \* the ruling block is not in the vector
  MaxRuns         \* bound on the nesting of entry blocks

ASSUME ActivatesAssumption == Activates \in [EntryBlocks -> SUBSET RulingBlocks]
ASSUME ScopeAssumption == Scope \in [RulingBlocks -> SUBSET Blocks]
ASSUME RetainAssumption == Retain \subseteq RulingBlocks

VARIABLES
  rblocks,   \* the use count, last propagation and delta queue of each block
  net,       \* the tokens in each match network
  runs,      \* the entry blocks that are running, innermost last
  disciplined   \* history: every entry block so far was entered in quiet

vars == <<clock, obj, lists, stack, rblocks, net, runs, disciplined>>

Token == [id : Ids, cls : Classes, val : Vals]
NoTokens == [t \in Token |-> 0]

Element == [sign : {Positive, Negative}, id : Ids, tag : Nat, hashed : BOOLEAN,
            snap : [cls : Classes, val : Vals] \cup {NoSnapshot}]
Registration == [uses : Nat, last : Nat, queue : Seq(Element)]

ASSUME SnapshotAssumption == NoSnapshot \notin [cls : Classes, val : Vals]
ASSUME UnregisteredAssumption == Unregistered \notin Registration

Run == [eb : EntryBlocks, base : Nat, pc : {"rhs", "update"}, target : Nat]

Registered(rb) == rblocks[rb] # Unregistered
Running == runs[Len(runs)]

InitP ==
  /\ Init
  /\ rblocks = [rb \in RulingBlocks |-> Unregistered]
  /\ net = [rb \in RulingBlocks |-> NoTokens]
  /\ runs = << >>
  /\ disciplined = TRUE

-----------------------------------------------------------------------------
(* Changes to working memory.                                              *)

\* RHS code, a method or code outside every entry block has control, and the
\* innermost change it may close is one that was opened since the innermost
\* entry block was called.
HasControl == runs # << >> => Running.pc = "rhs"
OwnChange == runs # << >> => Len(stack) > Running.base

Cares(rb, c) == Registered(rb) /\ BlockOf[c] \in Scope[rb]

\* rul__rbs_notify_wm_delta
Notify(sign, i, o) ==
  rblocks' = [rb \in RulingBlocks |->
    IF Cares(rb, o.cls)
    THEN [rblocks[rb] EXCEPT !.queue =
            AddToQueue(@, rblocks[rb].last, sign, i, o)]
    ELSE rblocks[rb]]

OpenQuietly(i) ==
  /\ \/ \E c \in Classes : Make(i, c)
     \/ \E old \in Ids : Copy(old, i)
     \/ OldReturned(i)
     \/ ~AtRest(i) /\ Modify(i)
     \/ OwnChange /\ \E v \in Vals : SetVal(i, v)
     \/ OwnChange /\ DestroyObject(i)
     \/ OwnChange /\ UpdateAndNotify(i) /\ obj[i].changes # 1
  /\ UNCHANGED rblocks

\* Fault: no negative delta is sent when an object is specialized.
WithdrawUnlessSpecialized(i) ==
  \/ AtRest(i) /\ Modify(i) /\ Notify(Negative, i, obj[i])
  \/ Destroy(i) /\ Notify(Negative, i, obj[i])
  \/ \E c \in Classes : Specialize(i, c) /\ UNCHANGED rblocks

Withdraw(i) ==
  /\ \/ AtRest(i) /\ Modify(i)
     \/ \E c \in Classes : Specialize(i, c)
     \/ Destroy(i)
  /\ Notify(Negative, i, obj[i])

Publish(i) ==
  /\ OwnChange
  /\ UpdateAndNotify(i)
  /\ obj[i].changes = 1
  /\ Notify(Positive, i, obj[i])

Change ==
  /\ HasControl
  /\ \E i \in Ids : OpenQuietly(i) \/ Withdraw(i) \/ Publish(i)
  /\ UNCHANGED <<net, runs, disciplined>>

-----------------------------------------------------------------------------
(* Ruling blocks and entry blocks.                                         *)

\* Fault: the objects of every declaration block are propagated.
OnAnyList(rb) == {i \in Ids : \E b \in Blocks : Listed(b, i)}

\* do_initial_wm_propagation: one positive token for every object on the WMO
\* lists of the declaration blocks, whatever state the object is in.
OnLists(rb) == {i \in Ids : \E b \in Scope[rb] : Listed(b, i)}
TokenOf(i, o) == [id |-> i, cls |-> o.cls, val |-> o.val]
InitialTokens(rb) ==
  [t \in Token |->
     IF t.id \in OnLists(rb) /\ t = TokenOf(t.id, obj[t.id]) THEN 1 ELSE 0]

\* rul__rbs_register_rblock
AfterRegister(rb) ==
  IF Registered(rb)
  THEN [rblocks[rb] EXCEPT !.uses = @ + 1]
  ELSE [uses |-> 1, last |-> clock, queue |-> << >>]

\* Fault: the first entry block to end unregisters the ruling block.
AfterUnregisterAtOnce(rb) ==
  IF rb \in Retain
  THEN [rblocks[rb] EXCEPT !.uses = @ - 1]
  ELSE Unregistered

\* rul__rbs_unregister_rblock
AfterUnregister(rb) ==
  IF rblocks[rb].uses > 1 \/ rb \in Retain
  THEN [rblocks[rb] EXCEPT !.uses = @ - 1]
  ELSE Unregistered

(* A program is disciplined when it starts no entry block that registers a *)
(* ruling block while a change to an object that block matches on is open. *)
QuietFor(rb) == \A i \in OnLists(rb) : AtRest(i)
Quiet(eb) == \A rb \in Activates[eb] : Registered(rb) \/ QuietFor(rb)

EnterEntryBlock(eb) ==
  /\ HasControl
  /\ Len(runs) < MaxRuns
  /\ rblocks' = [rb \in RulingBlocks |->
       IF rb \in Activates[eb] THEN AfterRegister(rb) ELSE rblocks[rb]]
  /\ net' = [rb \in RulingBlocks |->
       IF rb \in Activates[eb] /\ ~Registered(rb)
       THEN InitialTokens(rb) ELSE net[rb]]
  /\ runs' = Append(runs, [eb |-> eb, base |-> Len(stack),
                           pc |-> "rhs", target |-> 0])
  /\ disciplined' = (disciplined /\ Quiet(eb))
  /\ UNCHANGED wmVars

\* The RHS code of this run has returned to rul__rac_cycle: every change and
\* every call it made is over.
BackInCycle == runs # << >> /\ Running.pc = "rhs" /\ Len(stack) = Running.base

BeginUpdate ==
  /\ BackInCycle
  /\ runs' = [runs EXCEPT ![Len(runs)].pc = "update", ![Len(runs)].target = clock]
  /\ UNCHANGED <<wmVars, rblocks, net, disciplined>>

ToUpdate == {rb \in Activates[Running.eb] :
               Ready(rblocks[rb].queue, Running.target)}

\* One turn of the loop of rul__rbs_update_match_network.
PropagateToken(rb) ==
  /\ runs # << >> /\ Running.pc = "update"
  /\ rb \in ToUpdate
  /\ LET de == Head(rblocks[rb].queue)
         seen == TokenInstance(de, obj[de.id])
         t == [id |-> de.id, cls |-> seen.cls, val |-> seen.val]
     IN  net' = [net EXCEPT ![rb][t] =
                   IF de.sign = Positive THEN @ + 1
                   ELSE IF @ > 0 THEN @ - 1 ELSE @]
  /\ rblocks' = [rblocks EXCEPT ![rb].queue = Tail(@)]
  /\ UNCHANGED <<wmVars, runs, disciplined>>

\* Conflict resolution follows; a rule of the entry block fires, or an ON-
\* clause runs, and RHS code has control again.
EndUpdate ==
  /\ runs # << >> /\ Running.pc = "update"
  /\ ToUpdate = {}
  /\ runs' = [runs EXCEPT ![Len(runs)].pc = "rhs", ![Len(runs)].target = 0]
  /\ UNCHANGED <<wmVars, rblocks, net, disciplined>>

ExitEntryBlock ==
  /\ BackInCycle
  /\ rblocks' = [rb \in RulingBlocks |->
       IF rb \in Activates[Running.eb] THEN AfterUnregister(rb) ELSE rblocks[rb]]
  /\ net' = [rb \in RulingBlocks |->
       IF rblocks'[rb] = Unregistered THEN NoTokens ELSE net[rb]]
  /\ runs' = Pop(runs)
  /\ UNCHANGED <<wmVars, disciplined>>

NextP ==
  \/ Change
  \/ \E eb \in EntryBlocks : EnterEntryBlock(eb)
  \/ BeginUpdate
  \/ \E rb \in RulingBlocks : PropagateToken(rb)
  \/ EndUpdate
  \/ ExitEntryBlock

SpecP == InitP /\ [][NextP]_vars

-----------------------------------------------------------------------------
TypeOKP ==
  /\ TypeOK
  /\ rblocks \in [RulingBlocks -> Registration \cup {Unregistered}]
  /\ net \in [RulingBlocks -> [Token -> Nat]]
  /\ runs \in Seq(Run)

Queued(rb, i) == {k \in DOMAIN rblocks[rb].queue : rblocks[rb].queue[k].id = i}
QueuedAs(rb, i, sign) == {k \in Queued(rb, i) : rblocks[rb].queue[k].sign = sign}

\* A queued delta without a snapshot is filled in from the live object when it
\* is finally propagated.  That object must still be the incarnation the delta
\* announced, at rest: this holds in every program, disciplined or not.
UnsnappedDeltasLive ==
  \A rb \in RulingBlocks : Registered(rb) =>
    \A k \in DOMAIN rblocks[rb].queue :
      LET de == rblocks[rb].queue[k]
      IN  de.snap = NoSnapshot =>
            /\ de.sign = Positive /\ de.hashed
            /\ AtRest(de.id)
            /\ de.tag = obj[de.id].tag

\* What a network holds of an object: the incarnation whose withdrawal is
\* queued, nothing if only its announcement is queued, and otherwise the
\* object as it is now, if it is at rest and in scope.
Believed(rb, i) ==
  IF QueuedAs(rb, i, Negative) # {}
  THEN {[id |-> i, cls |-> rblocks[rb].queue[k].snap.cls,
         val |-> rblocks[rb].queue[k].snap.val] : k \in QueuedAs(rb, i, Negative)}
  ELSE IF QueuedAs(rb, i, Positive) = {} /\ AtRest(i) /\ Cares(rb, obj[i].cls)
       THEN {TokenOf(i, obj[i])}
       ELSE {}

\* In a disciplined program each network lags working memory by exactly its
\* queue: propagating what is queued makes it hold every object at rest in its
\* scope once, as it is now, and nothing else.
NetworkLagsByQueue ==
  disciplined =>
    \A rb \in RulingBlocks : Registered(rb) =>
      \A t \in Token : net[rb][t] = IF t \in Believed(rb, t.id) THEN 1 ELSE 0

\* The use count of a ruling block is the number of running entry blocks that
\* activate it; only a block that retains memories stays registered unused.
UsesMatchRuns ==
  \A rb \in RulingBlocks :
    LET users == {k \in DOMAIN runs : rb \in Activates[runs[k].eb]}
    IN  IF Registered(rb)
        THEN /\ rblocks[rb].uses = Cardinality(users)
             /\ users = {} => rb \in Retain
        ELSE users = {}

\* Conflict resolution never starts with a delta of the entry block's ruling
\* blocks left behind: the head of a queue is never newer than the target, so
\* it never hides the deltas behind it.
UpdateDrains ==
  [][EndUpdate => \A rb \in Activates[Running.eb] : rblocks[rb].queue = << >>]_vars

\* A disciplined program implements LazyView: a ruling block's network is a
\* picture of working memory that is exact for every object with no delta in
\* the queue, and a token taken from the queue makes it forget an object or
\* learn the object as it is now.
Relevant(rb, i) == AtRest(i) /\ Cares(rb, obj[i].cls)
Held(rb, i) == {t \in Token : t.id = i /\ net[rb][t] > 0}

Watching == {rb \in RulingBlocks : Registered(rb)}
Truth == [rb \in RulingBlocks |-> [i \in Ids |->
            IF Relevant(rb, i) THEN Snapshot(obj[i]) ELSE NoSnapshot]]
PictureOf(tokens) ==
  IF tokens = {} THEN NoSnapshot ELSE Snapshot(CHOOSE t \in tokens : TRUE)
Pictured == [rb \in RulingBlocks |-> [i \in Ids |-> PictureOf(Held(rb, i))]]
Pending == [rb \in RulingBlocks |->
              IF Registered(rb) THEN {i \in Ids : Queued(rb, i) # {}} ELSE {}]

View == INSTANCE LazyView WITH
  Viewers <- RulingBlocks,
  Items <- Ids,
  Contents <- [cls : Classes, val : Vals],
  Nothing <- NoSnapshot,
  watching <- Watching,
  truth <- Truth,
  picture <- Pictured,
  pending <- Pending

ImplementsView == View!Init /\ [][disciplined' => View!Next]_(View!vars)

\* delta.c says of the last propagated time tag that the code sets it to the
\* target time tag as an update of the ruling block starts.
LastPropagatedIsTarget ==
  \A rb \in RulingBlocks :
    (runs # << >> /\ Running.pc = "update" /\ rb \in Activates[Running.eb])
      => rblocks[rb].last = Running.target
=============================================================================
