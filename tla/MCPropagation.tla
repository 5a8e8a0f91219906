---------------------------- MODULE MCPropagation ----------------------------
(* Two small instances of Propagation in one run: two objects and a         *)
(* disciplined program with one entry block, which may call itself, and one *)
(* ruling block; or one object and any program with two entry blocks that   *)
(* share a ruling block, one of them also with a block of its own that uses *)
(* the first declaration block only and retains its memories.               *)
EXTENDS Propagation, TLC

CONSTANTS o1, o2

MCIds == {o1, o2}
MCClasses == {"base", "derived"}
MCBlocks == {"db1", "db2"}
MCBlockOf == [c \in MCClasses |-> IF c = "base" THEN "db1" ELSE "db2"]
MCIsSubclass == {<<"derived", "base">>}
MCRulingBlocks == {"shared", "own"}
MCEntryBlocks == {"main", "sub"}
MCActivates == [eb \in MCEntryBlocks |->
                  IF eb = "main" THEN {"shared", "own"} ELSE {"shared"}]
MCScope == [rb \in MCRulingBlocks |-> 
              IF rb = "shared" THEN {"db1", "db2"} ELSE {"db1"}]
MCRetain == {"own"}

OneBlock == /\ ~Registered("own") /\ disciplined
            /\ \A k \in DOMAIN runs : runs[k].eb = "sub"
OneObject == obj[o2] = Absent

MCSpec == InitP /\ [][NextP /\ (OneBlock \/ OneObject)']_vars
=============================================================================
