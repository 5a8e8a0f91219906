--------------------------- MODULE MCRecognizeAct ---------------------------
(* Small instances of RecognizeAct.  "pair" matches two objects, and not   *)
(* while an object has the value "stop"; "single" matches one.  In the     *)
(* scene "apart" two entry blocks have a ruling block each and only        *)
(* disjoint runs nest; in the scene "shared" one entry block activates     *)
(* both ruling blocks, another one of them, and any runs nest.             *)
(*                                                                         *)
(* The scenes "debugger" and "catcher" are small instances of Debugger     *)
(* instead: "main" and "sub" have debugging, "plain" has not.  The command *)
(* AFTER is given in "catcher" only, EBREAK and RBREAK with names in       *)
(* "debugger" only.                                                        *)
EXTENDS RecognizeAct

CONSTANTS o1, o2, a1, a2, Scenes, DebuggerCalls, DebuggerFirings, DebuggerAfter

VARIABLES scene,
          dbgRuns, dbg, break, ebreakAll, hooks,             \* of Debugger
          firing, runCount, budget

dbgVars == <<dbgRuns, dbg, break, ebreakAll, hooks, firing, runCount, budget>>

Dbg == INSTANCE Debugger WITH
  EntryBlocks <- {"main", "sub", "plain"}, Debuggable <- {"main", "sub"},
  Program <- "program", Command <- "command", Calls <- DebuggerCalls,
  Rules <- {"rule"}, NoRule <- NoWinner, MaxRuns <- 2,
  MaxFirings <- DebuggerFirings, MaxRun <- 1, MaxAfter <- DebuggerAfter,
  runs <- dbgRuns

\* Methods that commands of the debugger run call an entry block without
\* debugging, or one with; or the main block calls one without.
QuietCalls ==
  [program |-> {"main"}, main |-> {"sub"}, sub |-> {}, plain |-> {}, command |-> {"plain"}]
NestedCalls == [QuietCalls EXCEPT !.command = {"sub"}]
PlainCalls == [QuietCalls EXCEPT !.main = {"sub", "plain"}]

ASSUME ScenesAssumption == Scenes \subseteq {"apart", "shared", "debugger", "catcher"}
ASSUME DebuggerAssumption ==
  Dbg!CallsAssumption /\ Dbg!RuleAssumption /\ Dbg!BoundsAssumption
ASSUME ResolutionAssumption == Resolvable

MCIds == {o1, o2}
MCOneId == {o1}
MCVals == {"go", "stop"}
MCRules == {"pair", "single"}
MCBlock == [r \in MCRules |-> IF r = "pair" THEN "rb1" ELSE "rb2"]
MCWants == [r \in MCRules |-> IF r = "pair" THEN <<"go", "go">> ELSE <<"go">>]
MCUnless == [r \in MCRules |-> IF r = "pair" THEN {"stop"} ELSE {}]
MCRank == [r \in MCRules |-> IF r = "pair" THEN 2 ELSE 1]
MCRulingBlocks == {"rb1", "rb2"}
MCEntryBlocks == {"eb1", "eb2", "both"}
MCActivates == [eb \in MCEntryBlocks |->
                  CASE eb = "eb1" -> {"rb1"} [] eb = "eb2" -> {"rb2"}
                    [] eb = "both" -> {"rb1", "rb2"}]
MCRefSets == {a1, a2}
Symmetry == Permutations(MCIds) \cup Permutations(MCRefSets)

UnderWay(eb) == \E k \in DOMAIN runs : runs[k].eb = eb
InScene == CASE scene = "apart" -> Disjoint /\ ~UnderWay("both")
             [] scene = "shared" -> clock < 3 /\ ~UnderWay("eb1")

MCVars == <<vars, scene, dbgVars>>
MCInit == scene \in Scenes /\ Init /\ Dbg!Init
Debugging == scene \in {"debugger", "catcher"}
Cycles == /\ ~Debugging /\ Next /\ UNCHANGED <<scene, dbgVars>> /\ InScene'
Debugs == /\ Debugging /\ Dbg!Next /\ UNCHANGED <<scene, vars>>
          /\ dbg'.elist \subseteq {"sub"} /\ (dbgRuns = << >> => firing = 1)
          /\ scene = "debugger" => dbg'.after = 0
          /\ scene = "catcher" => dbg'.elist = {} /\ dbg'.rlist = {}
MCSpec == MCInit /\ [][Cycles \/ Debugs]_MCVars

\* The fairness of RecognizeAct, see FairSpec.
Code == CodeReturns /\ UNCHANGED <<scene, dbgVars>>
MCFairSpec ==
  /\ MCSpec
  /\ WF_MCVars(Recognize /\ UNCHANGED <<scene, dbgVars>>)
  /\ \A depth \in 1 .. MaxRuns : SF_MCVars(Code /\ Len(runs) = depth)

\* NoRefire, WinnerNotFreed (rac.c:340-372) and FlagsMatchCache (cs.c) hold of
\* runs that are disjoint.
NoRefireApart == scene = "apart" => NoRefire
WinnerKeptApart == scene = "apart" => WinnerNotFreed
FlagsMatchApart == scene = "apart" => FlagsMatchCache

\* Of Debugger, see there: changes of working memory by its commands reach the
\* cycle (rac.c:360) before a rule fires, if methods that commands run call no
\* entry block with debugging; it stops where RBREAK and RUN ask; and the
\* command AFTER counts firings.
FiresFreshQuiet == Debugging /\ Dbg!Quiet => Dbg!FiresFresh
StopsAsAsked == Debugging => Dbg!RbreakReported /\ Dbg!RunStops /\ Dbg!NeverSpins
FiresFresh == Debugging => Dbg!FiresFresh
AfterExact == Debugging => Dbg!AfterExact
=============================================================================
