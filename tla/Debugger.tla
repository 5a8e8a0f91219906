------------------------------ MODULE Debugger ------------------------------
(***************************************************************************)
(* The debugger's command loop (dbg.c, cmd_pars.y) and its place in the    *)
(* recognize-act cycle (rac.c), which RecognizeAct leaves out.             *)
(*                                                                         *)
(* A run with debugging calls rul__dbg_interp between the choice of the    *)
(* winner and its firing whenever a reason to break is pending, and once   *)
(* more before it ends.  The interpreter reads commands until one of them  *)
(* lets the run go on; commands that change working memory run methods,    *)
(* and methods may call entry blocks, which may call the interpreter       *)
(* again: its state is static and belongs to the latest call.              *)
(*                                                                         *)
(* What is satisfied is left open: any rule may win, one instantiation     *)
(* each.  Left out: EXIT and QUIT, which end the program, commands that    *)
(* only print or name files, TRACE, the action AFTER, and RBREAK OFF with  *)
(* names while no rule has a break, which reads an uninitialized pointer   *)
(* (dbg.c:1883).                                                           *)
(***************************************************************************)
EXTENDS Integers, Sequences

CONSTANTS
  EntryBlocks,
  Debuggable,     \* the entry blocks compiled with debugging
  Program,        \* the main program, as a caller of entry blocks
  Command,        \* the methods a command runs, as a caller
  Calls,          \* the entry blocks each entry block and caller calls
  Rules,
  NoRule,         \* winning_cse is NULL
  MaxRuns,        \* bound on the nesting of runs
  MaxFirings,     \* bound on rul__rac_rule_firing_cycle
  MaxRun,         \* bound on the counts of RUN
  MaxAfter        \* bound on the counts of AFTER

CallsAssumption ==
  /\ Debuggable \subseteq EntryBlocks
  /\ Program \notin EntryBlocks /\ Command \notin EntryBlocks
  /\ Calls \in [EntryBlocks \cup {Program, Command} -> SUBSET EntryBlocks]
RuleAssumption == NoRule \notin Rules
BoundsAssumption ==
  MaxRuns \in Nat /\ MaxFirings \in Nat /\ MaxRun \in Nat /\ MaxAfter \in Nat

VARIABLES
  runs,        \* the runs of rul__rac_cycle, innermost last
  dbg,         \* the statics of dbg.c
  break,       \* rul__dbg_gl_break: the reasons to break, "exit", "rule" or others
  ebreakAll,   \* rul__dbg_gl_ebreak has DBG_M_EBREAK_ALL
  hooks,       \* which of rul__dbg_ga_ebreak and rul__dbg_ga_rbreak are set
  firing,      \* rul__rac_rule_firing_cycle
  runCount,    \* run_count
  budget       \* history: what the count of the last RUN still allows

vars == <<runs, dbg, break, ebreakAll, hooks, firing, runCount, budget>>

Code == {"entry", "rhs", "every", "catcher", "empty", "exit"}
Pc == Code \cup {"recognize", "prompt", "command", "fire"}

Running == runs[Len(runs)]
At(pc) == runs # << >> /\ Running.pc = pc
Debugged == Running.eb \in Debuggable
BreaksAt(eb) == ebreakAll \/ ("ebreak" \in hooks /\ eb \in dbg.elist)

\* rul__debug_init has run: it breaks at once and at every entry block.
Init ==
  /\ runs = << >>
  /\ dbg = [exiting |-> FALSE, changes |-> FALSE, run |-> FALSE, ret |-> FALSE,
            count |-> -1, after |-> 0, rbreak |-> NoRule, winner |-> NoRule,
            elist |-> {}, rlist |-> {}]
  /\ break = {"other"} /\ ebreakAll = TRUE /\ hooks = {}
  /\ firing = 1 /\ runCount = 0 /\ budget = {}

-----------------------------------------------------------------------------
(* The interpreter.                                                        *)

\* Fault: once at an ON-EXIT, always there.
PromptStaysExiting(run, why) ==
  /\ runs' = [runs EXCEPT ![Len(runs)] = [run EXCEPT !.pc = "prompt", !.stopped = TRUE]]
  /\ dbg' = [dbg EXCEPT !.exiting = @ \/ "exit" \in why, !.changes = FALSE,
                        !.run = FALSE, !.ret = FALSE, !.winner = run.winner,
                        !.rbreak = IF "rule" \in why THEN run.winner ELSE NoRule]
  /\ break' = {} /\ budget' = {}
  /\ UNCHANGED <<ebreakAll, hooks, firing, runCount>>

\* rul__dbg_interp up to its first command, for the reasons in why.
Prompt(run, why) ==
  /\ runs' = [runs EXCEPT ![Len(runs)] = [run EXCEPT !.pc = "prompt", !.stopped = TRUE]]
  /\ dbg' = [dbg EXCEPT !.exiting = "exit" \in why, !.changes = FALSE,
                        !.run = FALSE, !.ret = FALSE, !.winner = run.winner,
                        !.rbreak = IF "rule" \in why THEN run.winner ELSE NoRule]
  /\ break' = {} /\ budget' = {}
  /\ UNCHANGED <<ebreakAll, hooks, firing, runCount>>

\* The interpreter returns and leaves its statics as d; run is the one it
\* returns to.
Leave(run, d) ==
  LET on == IF d.after = 0 THEN run
            ELSE [run EXCEPT !.after = run.cycle + d.after,
                             !.due = run.cycle - 1 + d.after]
      next == IF d.ret THEN "exit" ELSE "fire"
  IN  /\ runs' = IF run.leaving
                 THEN SubSeq(runs, 1, Len(runs) - 1)
                 ELSE [runs EXCEPT ![Len(runs)] =
                         [on EXCEPT !.pc = next, !.status = d.changes]]
      /\ dbg' = [d EXCEPT !.after = 0]
      /\ break' = IF d.changes THEN break \cup {"other"} ELSE break
      /\ hooks' = {h \in {"ebreak", "rbreak"} :
                     IF h = "ebreak" THEN d.elist # {} ELSE d.rlist # {}}
      /\ runCount' = IF d.run THEN firing + d.count ELSE runCount
      /\ budget' = IF d.run /\ d.count > 0 THEN {d.count} ELSE {}
      /\ UNCHANGED firing

\* The command that run prompted for leaves the statics as d.
Executed(run, d) ==
  IF d.run \/ d.ret \/ d.changes
  THEN Leave(run, d)
  ELSE /\ runs' = [runs EXCEPT ![Len(runs)] = [run EXCEPT !.pc = "prompt"]]
       /\ dbg' = d
       /\ UNCHANGED <<break, hooks, firing, runCount, budget>>

\* The winners of all runs were chosen before this change.
MarkChanged(rs) == [k \in DOMAIN rs |-> [rs[k] EXCEPT !.changed = TRUE]]

\* MAKE, COPY, MODIFY, SPECIALIZE, REMOVE and REMOVE-EVERY, whose methods run.
ChangeCommand ==
  /\ At("prompt")
  /\ runs' = MarkChanged([runs EXCEPT ![Len(runs)].pc = "command"])
  /\ UNCHANGED <<dbg, break, ebreakAll, hooks, firing, runCount, budget>>

\* rul__dbg_flag_changes
FlagChanges(d) == IF d.exiting THEN d ELSE [d EXCEPT !.changes = TRUE]

ChangeCommandReturns ==
  /\ At("command")
  /\ Executed(Running, FlagChanges(dbg))
  /\ UNCHANGED ebreakAll

\* ADDSTATE and RESTORESTATE, which run no methods.
StateCommand ==
  /\ At("prompt")
  /\ Executed([Running EXCEPT !.changed = TRUE], [dbg EXCEPT !.changes = TRUE])
  /\ UNCHANGED ebreakAll

\* Fault: RUN always runs.
SetRunAnyway(d, n) == [d EXCEPT !.count = n, !.run = TRUE]

\* rul__dbg_set_run: stop once more when the winner has a break that this call
\* of the interpreter has not reported.
SetRun(d, n) ==
  LET unreported == d.rbreak # d.winner /\ d.winner \in d.rlist
  IN  [d EXCEPT !.count = n, !.run = ~unreported,
                !.rbreak = IF unreported THEN d.winner ELSE @]

\* A RUN without a count has -1.
RunCommand(n) ==
  At("prompt") /\ Executed(Running, SetRun(dbg, n)) /\ UNCHANGED ebreakAll

\* RETURN with a value that fits the entry block.
ReturnCommand ==
  /\ At("prompt")
  /\ Executed(Running, [dbg EXCEPT !.ret = TRUE])
  /\ UNCHANGED ebreakAll

AfterCommand(n) ==
  /\ At("prompt")
  /\ Executed(Running, [dbg EXCEPT !.after = n])
  /\ UNCHANGED ebreakAll

\* RBREAK ON with a rule, OFF with a rule, and OFF *.
RbreakCommand ==
  /\ At("prompt")
  /\ \E rules \in {dbg.rlist \cup {r} : r \in Rules}
                \cup {dbg.rlist \ {r} : r \in dbg.rlist} \cup {{}} :
       Executed(Running, [dbg EXCEPT !.rlist = rules])
  /\ UNCHANGED ebreakAll

\* EBREAK ON, with an entry block and without, EBREAK OFF with one, and both
\* EBREAK OFF * and WBREAK OFF *, which clear the same flag (dbg.c:1317).
EbreakCommand ==
  /\ At("prompt")
  /\ \E all \in BOOLEAN, names \in SUBSET Debuggable :
       /\ \/ ~all /\ \E eb \in Debuggable : names = dbg.elist \cup {eb}
          \/ all /\ names = {}
          \/ all = ebreakAll /\ \E eb \in dbg.elist : names = dbg.elist \ {eb}
          \/ ~all /\ names \in {{}, dbg.elist}
       /\ ebreakAll' = all
       /\ Executed(Running, [dbg EXCEPT !.elist = names])

Commands ==
  \/ ChangeCommand \/ StateCommand \/ ReturnCommand \/ RbreakCommand \/ EbreakCommand
  \/ \E n \in {-1} \cup 1 .. MaxRun : RunCommand(n)
  \/ \E n \in 1 .. MaxAfter : AfterCommand(n)

-----------------------------------------------------------------------------
(* The cycle.                                                              *)

HasControl == runs # << >> => Running.pc \in Code \cup {"command"}

Caller == IF runs = << >> THEN Program
          ELSE IF Running.pc = "command" THEN Command ELSE Running.eb

EnterEntryBlock(eb) ==
  /\ HasControl
  /\ eb \in Calls[Caller] /\ Len(runs) < MaxRuns
  /\ runs' = Append(runs, [eb |-> eb, pc |-> "entry", winner |-> NoRule,
                           status |-> FALSE, leaving |-> FALSE, cycle |-> 1,
                           after |-> 0, due |-> 0,
                           stopped |-> FALSE, changed |-> FALSE])
  /\ UNCHANGED <<dbg, break, ebreakAll, hooks, firing, runCount, budget>>

\* Code executes DEBUG, or changes an object that a WBREAK watches.
CodeBreaks ==
  /\ HasControl
  /\ break' = break \cup {"other"}
  /\ UNCHANGED <<runs, dbg, ebreakAll, hooks, firing, runCount, budget>>

Goto(pc) == runs' = [runs EXCEPT ![Len(runs)].pc = pc]

OnEntryReturned ==
  /\ At("entry")
  /\ Goto("exit") \/ Goto("recognize")
  /\ break' = IF Debugged /\ BreaksAt(Running.eb) THEN break \cup {"other"} ELSE break
  /\ UNCHANGED <<dbg, ebreakAll, hooks, firing, runCount, budget>>

\* The winner w is chosen; nothing in working memory is newer than it.
Chosen(w) == [Running EXCEPT !.winner = w, !.stopped = FALSE, !.changed = FALSE]

RunBreak == IF Debugged /\ runCount # 0 /\ runCount = firing THEN {"other"} ELSE {}
RuleBreak(w) ==
  IF Debugged /\ "rbreak" \in hooks /\ w \in dbg.rlist THEN {"rule"} ELSE {}

Recognize ==
  /\ At("recognize")
  /\ \E w \in (IF firing < MaxFirings THEN Rules ELSE {}) \cup {NoRule} :
       LET why == break \cup RunBreak \cup RuleBreak(w)
           next == IF w = NoRule THEN "empty" ELSE "fire"
       IN  IF Debugged /\ why # {}
           THEN Prompt(Chosen(w), why)
           ELSE /\ runs' = [runs EXCEPT ![Len(runs)] = [Chosen(w) EXCEPT !.pc = next]]
                /\ UNCHANGED <<dbg, break, ebreakAll, hooks, firing, runCount, budget>>

\* dbg_status is 0 and there is a winner.
WillFire(run) == run.pc = "fire" /\ ~run.status /\ run.winner # NoRule

Fire ==
  /\ runs # << >> /\ WillFire(Running)
  /\ runs' = [runs EXCEPT ![Len(runs)].pc = "rhs", ![Len(runs)].cycle = @ + 1]
  /\ firing' = firing + 1
  /\ budget' = {n - 1 : n \in budget}
  /\ UNCHANGED <<dbg, break, ebreakAll, hooks, runCount>>

FireNothing ==
  /\ At("fire") /\ ~WillFire(Running)
  /\ Goto("recognize")
  /\ UNCHANGED <<dbg, break, ebreakAll, hooks, firing, runCount, budget>>

CatcherDue(run) == run.after > 0 /\ run.cycle - 1 = run.after

\* The code that had control returns, with RETURN or without.
CodeReturned ==
  /\ \/ At("rhs") /\ (Goto("exit") \/ Goto("every"))
     \/ /\ At("every")
        /\ Goto("exit") \/ Goto(IF CatcherDue(Running) THEN "catcher" ELSE "recognize")
     \/ At("catcher") /\ (Goto("exit") \/ Goto("recognize"))
     \/ At("empty") /\ (Goto("exit") \/ (Debugged /\ break # {} /\ Goto("recognize")))
  /\ UNCHANGED <<dbg, break, ebreakAll, hooks, firing, runCount, budget>>

\* The ON-EXIT clause returns; a break here is the last call of the interpreter.
OnExitReturned ==
  /\ At("exit")
  /\ IF Debugged /\ BreaksAt(Running.eb)
     THEN Prompt([Running EXCEPT !.leaving = TRUE], break \cup {"exit"})
     ELSE /\ runs' = SubSeq(runs, 1, Len(runs) - 1)
          /\ UNCHANGED <<dbg, break, ebreakAll, hooks, firing, runCount, budget>>

Next ==
  \/ Commands
  \/ ChangeCommandReturns
  \/ \E eb \in EntryBlocks : EnterEntryBlock(eb)
  \/ CodeBreaks
  \/ OnEntryReturned
  \/ Recognize
  \/ Fire
  \/ FireNothing
  \/ CodeReturned
  \/ OnExitReturned

Spec == Init /\ [][Next]_vars

-----------------------------------------------------------------------------
\* Methods that commands run call no entry block with debugging, directly or
\* not.
Quiet ==
  /\ Calls[Command] \cap Debuggable = {}
  /\ \A eb \in EntryBlocks \ Debuggable : Calls[eb] \cap Debuggable = {}

\* A rule never fires after a command of the debugger has changed working memory
\* since it was chosen: its instantiation may be gone (rac.c:360, dbg.c:1492).
FiresFresh == \A k \in DOMAIN runs : WillFire(runs[k]) => ~runs[k].changed

\* A rule with a break fires in a run with debugging only after a stop that
\* reported it, whether the break was set before the rule was chosen (rac.c:327)
\* or during the stop (dbg.c:1724).
RbreakReported ==
  \A k \in DOMAIN runs :
    WillFire(runs[k]) /\ runs[k].eb \in Debuggable /\ runs[k].winner \in dbg.rlist
      => runs[k].stopped /\ dbg.rbreak = runs[k].winner

\* A run that goes round again because of changes stops in the debugger: the
\* status that keeps it from firing is only reset there (rac.c:372, dbg.c:378).
NeverSpins ==
  \A k \in DOMAIN runs :
    runs[k].pc = "recognize" /\ runs[k].status => break # {}

\* A run with debugging fires no more rules than the count of the last RUN
\* allows, whichever runs they fired in, before the debugger stops (rac.c:272).
RunStops ==
  \A k \in DOMAIN runs :
    WillFire(runs[k]) /\ runs[k].eb \in Debuggable => \A n \in budget : n > 0

\* A catcher set with the command AFTER is called when its run has fired as many
\* rules since the command as the command names (dbg.c:372).
AfterExact ==
  \A k \in DOMAIN runs :
    runs[k].pc = "every" /\ CatcherDue(runs[k]) => runs[k].cycle - 1 = runs[k].due
=============================================================================
