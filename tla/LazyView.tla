------------------------------ MODULE LazyView ------------------------------
(***************************************************************************)
(* What working memory promises a match network.  Each viewer has a truth  *)
(* about every item and a picture of it.  The truth changes at any time;   *)
(* the picture follows later, one item at a time.  An item whose picture   *)
(* has yet to follow is pending, and only the picture of a pending item    *)
(* ever changes: it is forgotten, then replaced by the truth of the        *)
(* moment.  A viewer that starts begins with the truth.                    *)
(***************************************************************************)
CONSTANTS Viewers, Items, Contents, Nothing

VARIABLES watching, truth, picture, pending

vars == <<watching, truth, picture, pending>>

Picture == [Items -> Contents \cup {Nothing}]
Blank == [x \in Items |-> Nothing]

Init ==
  /\ watching = {}
  /\ truth = [v \in Viewers |-> Blank]
  /\ picture = [v \in Viewers |-> Blank]
  /\ pending = [v \in Viewers |-> {}]

\* An item that is not pending is pictured as it is.
Accurate(v) == \A x \in Items \ pending[v] : picture[v][x] = truth[v][x]

\* One item changes, for some of the viewers.
Change(x) ==
  /\ truth' \in [Viewers -> Picture]
  /\ pending' \in [Viewers -> SUBSET Items]
  /\ \A v \in Viewers :
       /\ \A y \in Items \ {x} : /\ truth'[v][y] = truth[v][y]
                                 /\ y \in pending'[v] <=> y \in pending[v]
       /\ v \notin watching => /\ truth'[v] = truth[v]
                               /\ pending'[v] = pending[v]
  /\ UNCHANGED <<watching, picture>>
  /\ \A v \in Viewers : Accurate(v)'

Forget(v, x) ==
  /\ x \in pending[v]
  /\ picture' = [picture EXCEPT ![v][x] = Nothing]
  /\ pending' = [pending EXCEPT ![v] = IF truth[v][x] = Nothing
                                       THEN @ \ {x} ELSE @]
  /\ UNCHANGED <<watching, truth>>

Learn(v, x) ==
  /\ x \in pending[v]
  /\ picture[v][x] = Nothing
  /\ picture' = [picture EXCEPT ![v][x] = truth[v][x]]
  /\ pending' = [pending EXCEPT ![v] = @ \ {x}]
  /\ UNCHANGED <<watching, truth>>

\* Viewers come and go in groups.
Start(s) ==
  /\ watching' = watching \cup s
  /\ truth' \in [Viewers -> Picture]
  /\ picture' = [v \in Viewers |-> IF v \in s \ watching 
                                   THEN truth'[v] ELSE picture[v]]
  /\ \A v \in Viewers \ (s \ watching) : truth'[v] = truth[v]
  /\ UNCHANGED pending

Stop(s) ==
  /\ watching' = watching \ s
  /\ truth' = [v \in Viewers |-> IF v \in s THEN Blank ELSE truth[v]]
  /\ picture' = [v \in Viewers |-> IF v \in s THEN Blank ELSE picture[v]]
  /\ pending' = [v \in Viewers |-> IF v \in s THEN {} ELSE pending[v]]

Next ==
  \/ \E x \in Items : Change(x)
  \/ \E v \in Viewers, x \in Items : Forget(v, x) \/ Learn(v, x)
  \/ \E s \in SUBSET Viewers : Start(s) \/ Stop(s)

Spec == Init /\ [][Next]_vars
=============================================================================
