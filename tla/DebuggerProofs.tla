--------------------------- MODULE DebuggerProofs ---------------------------
(***************************************************************************)
(* The debugger and the firings it delays, for any entry blocks, rules and *)
(* depth of nesting.  If the methods that commands run call no entry block *)
(* with debugging, then no rule fires after a command has changed working  *)
(* memory since it was chosen, and none with a break fires unreported.     *)
(***************************************************************************)
EXTENDS Debugger, SequenceTheorems, TLAPS

Run == [eb : EntryBlocks, pc : Pc, winner : Rules \cup {NoRule}, status : BOOLEAN,
        leaving : BOOLEAN, cycle : Int, after : Int, due : Int,
        stopped : BOOLEAN, changed : BOOLEAN]
Statics == [exiting : BOOLEAN, changes : BOOLEAN, run : BOOLEAN, ret : BOOLEAN,
            count : Int, after : Int, rbreak : Rules \cup {NoRule},
            winner : Rules \cup {NoRule}, elist : SUBSET Debuggable,
            rlist : SUBSET Rules]
Types == runs \in Seq(Run) /\ dbg \in Statics

InDebugger(run) == run.pc \in {"prompt", "command"}

\* Only the innermost run is in its cycle; below a command of the debugger, and
\* below a run without debugging, runs have no debugging.
Nesting ==
  \A j \in DOMAIN runs : j < Len(runs) =>
    /\ runs[j].pc \in Code \cup {"command"}
    /\ runs[j].pc = "command" \/ runs[j].eb \notin Debuggable =>
         \A k \in DOMAIN runs : j < k => runs[k].eb \notin Debuggable

\* The statics are those of the run that is in the debugger.
StaticsOf(run, d) ==
  /\ run.eb \in Debuggable /\ run.stopped
  /\ d.exiting = run.leaving /\ d.winner = run.winner
  /\ ~d.changes /\ ~d.run /\ ~d.ret

\* What holds of each run.
Sound(run, d) ==
  /\ InDebugger(run) => StaticsOf(run, d)
  /\ run.leaving => InDebugger(run)
  /\ run.pc = "prompt" /\ ~run.leaving => ~run.changed
  /\ WillFire(run) =>
       /\ ~run.changed
       /\ run.eb \in Debuggable /\ run.winner \in d.rlist =>
            run.stopped /\ d.rbreak = run.winner
RunsSound == \A k \in DOMAIN runs : Sound(runs[k], dbg)

\* While the debugger runs, the hook need not be there yet.
HooksSet ==
  (\A k \in DOMAIN runs : ~InDebugger(runs[k])) =>
    ("rbreak" \in hooks <=> dbg.rlist # {})

ReasonsKept == "exit" \notin break /\ "rule" \notin break

Inv == Types /\ Nesting /\ RunsSound /\ HooksSet /\ ReasonsKept

-----------------------------------------------------------------------------
(* What happens to the stack of runs.                                      *)

LEMMA RunsTyped ==
  ASSUME Types
  PROVE  /\ Len(runs) \in Nat /\ DOMAIN runs = 1 .. Len(runs)
         /\ \A k \in DOMAIN runs : runs[k] \in Run
         /\ runs # << >> => Len(runs) \in DOMAIN runs /\ Running \in Run
BY DEF Types, Running

\* While a run with debugging is innermost, no other is in the debugger.
LEMMA OthersQuiet ==
  ASSUME Types, Nesting, runs # << >>, Debugged
  PROVE  \A j \in DOMAIN runs : j < Len(runs) => runs[j].pc \in Code
BY RunsTyped DEF Nesting, Debugged, Running

\* A run outside the debugger and its cycle does not depend on the statics.
LEMMA QuietSound ==
  ASSUME NEW run, NEW d, NEW e, run.pc \in Code, Sound(run, d)
  PROVE  Sound(run, e)
BY DEF Sound, InDebugger, WillFire, Code

\* The innermost run becomes r, and the debugger's statics may change.
LEMMA Replaced ==
  ASSUME Inv, runs # << >>, NEW r \in Run, r.eb = Running.eb,
         runs' = [runs EXCEPT ![Len(runs)] = r],
         dbg' \in Statics, Sound(r, dbg'), ReasonsKept',
         \A j \in DOMAIN runs : j < Len(runs) => Sound(runs[j], dbg'),
         HooksSet'
  PROVE  Inv'
<1>1. /\ Len(runs) \in Nat /\ DOMAIN runs = 1 .. Len(runs) /\ Len(runs) \in DOMAIN runs
      /\ runs \in Seq(Run)
  BY RunsTyped DEF Inv, Types
<1>2. /\ runs' \in Seq(Run) /\ Len(runs') = Len(runs) /\ DOMAIN runs' = DOMAIN runs
      /\ \A j \in DOMAIN runs : j < Len(runs) => runs'[j] = runs[j]
      /\ runs'[Len(runs)] = r
      /\ \A k \in DOMAIN runs : runs'[k].eb = runs[k].eb
  BY <1>1 DEF Running
<1>3. Types'
  BY <1>2 DEF Types
<1>4. Nesting'
  BY <1>1, <1>2 DEF Inv, Nesting
<1>5. RunsSound'
  <2>. SUFFICES ASSUME NEW k \in DOMAIN runs' PROVE Sound(runs'[k], dbg')
    BY DEF RunsSound, Sound, InDebugger, StaticsOf, WillFire
  <2>1. k \in DOMAIN runs /\ (k < Len(runs) \/ k = Len(runs))
    BY <1>1, <1>2
  <2>. QED
    BY <1>2, <2>1
<1>. QED
  BY <1>3, <1>4, <1>5 DEF Inv

\* The innermost run ends, and the debugger's statics may change.
LEMMA Popped ==
  ASSUME Inv, runs # << >>, runs' = SubSeq(runs, 1, Len(runs) - 1),
         dbg' \in Statics, ReasonsKept',
         \A j \in DOMAIN runs : j < Len(runs) => Sound(runs[j], dbg'),
         HooksSet'
  PROVE  Inv'
<1>1. /\ Len(runs) \in Nat \ {0} /\ DOMAIN runs = 1 .. Len(runs) /\ runs \in Seq(Run)
  BY RunsTyped DEF Inv, Types
<1>2. /\ runs' \in Seq(Run) /\ Len(runs') = Len(runs) - 1
      /\ DOMAIN runs' = 1 .. (Len(runs) - 1)
      /\ \A j \in DOMAIN runs' : j \in DOMAIN runs /\ j < Len(runs) /\ runs'[j] = runs[j]
  BY <1>1
<1>3. Types'
  BY <1>2 DEF Types
<1>4. Nesting'
  BY <1>1, <1>2 DEF Inv, Nesting
<1>5. RunsSound'
  <2>. SUFFICES ASSUME NEW k \in DOMAIN runs' PROVE Sound(runs'[k], dbg')
    BY DEF RunsSound, Sound, InDebugger, StaticsOf, WillFire
  <2>. QED
    BY <1>2
<1>. QED
  BY <1>3, <1>4, <1>5 DEF Inv

\* A step of the innermost run that leaves the debugger alone.
LEMMA Stepped ==
  ASSUME Inv, runs # << >>, NEW r \in Run, r.eb = Running.eb,
         runs' = [runs EXCEPT ![Len(runs)] = r], UNCHANGED <<dbg, hooks>>,
         ReasonsKept', Sound(r, dbg), ~InDebugger(Running), ~InDebugger(r)
  PROVE  Inv'
<1>1. /\ Len(runs) \in Nat /\ DOMAIN runs = 1 .. Len(runs) /\ Len(runs) \in DOMAIN runs
      /\ runs \in Seq(Run)
  BY RunsTyped DEF Inv, Types
<1>2. /\ DOMAIN runs' = DOMAIN runs
      /\ \A j \in DOMAIN runs : j < Len(runs) => runs'[j] = runs[j]
      /\ runs'[Len(runs)] = r
  BY <1>1
<1>3. HooksSet'
  <2>. SUFFICES ASSUME \A k \in DOMAIN runs' : ~InDebugger(runs'[k])
                PROVE  "rbreak" \in hooks <=> dbg.rlist # {}
    BY DEF HooksSet, InDebugger
  <2>1. \A k \in DOMAIN runs : ~InDebugger(runs[k])
    BY <1>1, <1>2 DEF Running
  <2>. QED
    BY <2>1 DEF Inv, HooksSet
<1>4. \A j \in DOMAIN runs : j < Len(runs) => Sound(runs[j], dbg')
  BY DEF Inv, RunsSound
<1>5. dbg' \in Statics /\ Sound(r, dbg')
  BY DEF Inv, Types
<1>. QED
  BY <1>3, <1>4, <1>5, Replaced

-----------------------------------------------------------------------------
(* The interpreter.                                                        *)

LEMMA PromptKeeps ==
  ASSUME Inv, runs # << >>, Debugged, NEW run \in Run, NEW why,
         run.eb = Running.eb, "exit" \in why <=> run.leaving,
         ~run.leaving => ~run.changed, Prompt(run, why)
  PROVE  Inv'
<1>. DEFINE r == [run EXCEPT !.pc = "prompt", !.stopped = TRUE]
<1>1. /\ Len(runs) \in Nat /\ DOMAIN runs = 1 .. Len(runs) /\ Len(runs) \in DOMAIN runs
      /\ runs \in Seq(Run) /\ Running \in Run /\ dbg \in Statics
  BY RunsTyped DEF Inv, Types
<1>2. /\ r \in Run /\ r.pc = "prompt" /\ r.stopped /\ r.eb = run.eb
      /\ r.leaving = run.leaving /\ r.winner = run.winner /\ r.changed = run.changed
  BY DEF Run, Pc
<1>3. /\ dbg' \in Statics /\ dbg'.winner = run.winner
      /\ dbg'.exiting = ("exit" \in why) /\ ~dbg'.changes /\ ~dbg'.run /\ ~dbg'.ret
  <2>. DEFINE leaves == "exit" \in why
              reported == IF "rule" \in why THEN run.winner ELSE NoRule
  <2>1. leaves \in BOOLEAN
    OBVIOUS
  <2>2. reported \in Rules \cup {NoRule} /\ run.winner \in Rules \cup {NoRule}
    BY DEF Run
  <2>3. dbg' = [dbg EXCEPT !.exiting = leaves, !.changes = FALSE, !.run = FALSE,
                           !.ret = FALSE, !.winner = run.winner, !.rbreak = reported]
    BY DEF Prompt
  <2>. SUFFICES /\ dbg' \in Statics /\ dbg'.winner = run.winner
                /\ dbg'.exiting = leaves /\ ~dbg'.changes /\ ~dbg'.run /\ ~dbg'.ret
    OBVIOUS
  <2>. HIDE DEF leaves, reported
  <2>. QED
    BY <1>1, <2>1, <2>2, <2>3 DEF Statics
<1>4. dbg'.exiting = r.leaving
  <2>1. dbg'.exiting \in BOOLEAN /\ r.leaving \in BOOLEAN /\ (dbg'.exiting <=> r.leaving)
    BY <1>2, <1>3 DEF Run
  <2>. QED
    BY <2>1
<1>5. Sound(r, dbg')
  BY <1>2, <1>3, <1>4 DEF Sound, InDebugger, StaticsOf, WillFire, Debugged
<1>6. runs' = [runs EXCEPT ![Len(runs)] = r] /\ ReasonsKept'
  BY DEF Prompt, ReasonsKept
<1>7. \A j \in DOMAIN runs : j < Len(runs) => Sound(runs[j], dbg')
  BY OthersQuiet, QuietSound DEF Inv, RunsSound
<1>8. HooksSet'
  <2>1. Len(runs) \in DOMAIN runs' /\ runs'[Len(runs)] = r
    BY <1>1, <1>6
  <2>. QED
    BY <1>2, <2>1 DEF HooksSet, InDebugger
<1>. HIDE DEF r
<1>. QED
  BY <1>2, <1>3, <1>5, <1>6, <1>7, <1>8, Replaced

\* What a command that ends the interpreter must guarantee of a run that goes on.
Cleared(run, d) ==
  ~d.ret /\ ~d.changes =>
    ~run.changed /\ (run.winner \in d.rlist => d.rbreak = run.winner)

LEMMA LeaveKeeps ==
  ASSUME Inv, runs # << >>, Debugged, NEW run \in Run, NEW d \in Statics,
         run.eb = Running.eb, run.stopped, run.leaving \/ Cleared(run, d),
         Leave(run, d)
  PROVE  Inv'
<1>1. /\ Len(runs) \in Nat /\ DOMAIN runs = 1 .. Len(runs) /\ Len(runs) \in DOMAIN runs
      /\ runs \in Seq(Run)
  BY RunsTyped DEF Inv, Types
<1>2. dbg' \in Statics /\ dbg'.rlist = d.rlist /\ dbg'.rbreak = d.rbreak
  BY DEF Leave, Statics
<1>3. "rbreak" \in hooks' <=> dbg'.rlist # {}
  BY <1>2 DEF Leave
<1>4. HooksSet' /\ ReasonsKept'
  BY <1>3 DEF HooksSet, Leave, ReasonsKept, Inv
<1>5. \A j \in DOMAIN runs : j < Len(runs) => Sound(runs[j], dbg')
  BY OthersQuiet, QuietSound DEF Inv, RunsSound
<1>6. CASE run.leaving
  BY <1>2, <1>4, <1>5, <1>6, Popped DEF Leave
<1>7. CASE ~run.leaving
  <2>. DEFINE on == IF d.after = 0 THEN run
                    ELSE [run EXCEPT !.after = run.cycle + d.after,
                                     !.due = run.cycle - 1 + d.after]
              next == IF d.ret THEN "exit" ELSE "fire"
              r == [on EXCEPT !.pc = next, !.status = d.changes]
  <2>1. /\ on \in Run /\ on.eb = run.eb /\ on.winner = run.winner
        /\ on.leaving = run.leaving /\ on.changed = run.changed /\ on.stopped
    <3>1. run.cycle + d.after \in Int /\ run.cycle - 1 + d.after \in Int
      BY DEF Run, Statics
    <3>2. CASE d.after = 0
      BY <3>2
    <3>3. CASE d.after # 0
      <4>1. on = [run EXCEPT !.after = run.cycle + d.after,
                             !.due = run.cycle - 1 + d.after]
        BY <3>3
      <4>. HIDE DEF on
      <4>. QED
        BY <3>1, <4>1 DEF Run
    <3>. QED
      BY <3>2, <3>3
  <2>. HIDE DEF on
  <2>2. next \in Pc /\ next \in {"exit", "fire"} /\ (next = "fire" <=> ~d.ret)
    BY DEF Pc, Code
  <2>. HIDE DEF next
  <2>3. /\ r \in Run /\ r.eb = run.eb /\ r.pc = next /\ r.status = d.changes
        /\ r.winner = run.winner /\ ~r.leaving /\ r.changed = run.changed /\ r.stopped
    BY <1>7, <2>1, <2>2 DEF Run, Statics
  <2>4. runs' = [runs EXCEPT ![Len(runs)] = r]
    BY <1>7 DEF Leave, on, next
  <2>. HIDE DEF r
  <2>5. Sound(r, dbg')
    BY <1>2, <1>7, <2>2, <2>3 DEF Sound, InDebugger, WillFire, Cleared
  <2>. QED
    BY <1>2, <1>4, <1>5, <2>3, <2>4, <2>5, Replaced
<1>. QED
  BY <1>6, <1>7

LEMMA ExecutedKeeps ==
  ASSUME Inv, runs # << >>, InDebugger(Running), NEW run \in Run, NEW d \in Statics,
         run.eb = Running.eb, run.leaving = Running.leaving,
         run.winner = Running.winner, run.stopped,
         d.exiting = dbg.exiting, d.winner = dbg.winner,
         run.leaving \/ d.changes \/ ~run.changed,
         d.run => (run.winner \in d.rlist => d.rbreak = run.winner),
         Executed(run, d)
  PROVE  Inv'
<1>1. /\ Len(runs) \in Nat /\ DOMAIN runs = 1 .. Len(runs) /\ Len(runs) \in DOMAIN runs
      /\ runs \in Seq(Run) /\ StaticsOf(Running, dbg) /\ Debugged
  BY RunsTyped DEF Inv, Types, RunsSound, Sound, Running, StaticsOf, Debugged
<1>2. CASE d.run \/ d.ret \/ d.changes
  BY <1>1, <1>2, LeaveKeeps DEF Executed, Cleared
<1>3. CASE ~(d.run \/ d.ret \/ d.changes)
  <2>. DEFINE r == [run EXCEPT !.pc = "prompt"]
  <2>1. /\ r \in Run /\ r.pc = "prompt" /\ r.eb = run.eb /\ r.winner = run.winner
        /\ r.leaving = run.leaving /\ r.changed = run.changed /\ r.stopped
    BY DEF Run, Pc
  <2>2. runs' = [runs EXCEPT ![Len(runs)] = r] /\ dbg' = d /\ UNCHANGED <<break, hooks>>
    BY <1>3 DEF Executed
  <2>. HIDE DEF r
  <2>3. Sound(r, dbg')
    BY <1>1, <1>3, <2>1, <2>2 DEF Sound, InDebugger, StaticsOf, WillFire
  <2>4. HooksSet'
    <3>1. Len(runs) \in DOMAIN runs' /\ runs'[Len(runs)] = r
      BY <1>1, <2>2
    <3>. QED
      BY <2>1, <3>1 DEF HooksSet, InDebugger
  <2>5. \A j \in DOMAIN runs : j < Len(runs) => Sound(runs[j], dbg')
    BY <1>1, OthersQuiet, QuietSound DEF Inv, RunsSound
  <2>6. dbg' \in Statics /\ ReasonsKept'
    BY <2>2 DEF Inv, ReasonsKept
  <2>. QED
    BY <2>1, <2>2, <2>3, <2>4, <2>5, <2>6, Replaced
<1>. QED
  BY <1>2, <1>3

\* A command that runs no code.
LEMMA CommandKeeps ==
  ASSUME Inv, At("prompt"), NEW d \in Statics,
         d.exiting = dbg.exiting, d.winner = dbg.winner,
         d.run => (d.winner \in d.rlist => d.rbreak = d.winner),
         Executed(Running, d)
  PROVE  Inv'
<1>1. /\ Running \in Run /\ runs # << >> /\ InDebugger(Running)
      /\ StaticsOf(Running, dbg) /\ (~Running.leaving => ~Running.changed)
  BY RunsTyped DEF Inv, At, RunsSound, Sound, Running, InDebugger
<1>. QED
  BY <1>1, ExecutedKeeps DEF StaticsOf

LEMMA CommandsKeep ==
  ASSUME Inv, Commands
  PROVE  Inv'
<1>1. /\ dbg \in Statics /\ Types
  BY DEF Inv, Types
<1>2. CASE ChangeCommand
  <2>. DEFINE mark(run) == [run EXCEPT !.changed = TRUE]
              r == [Running EXCEPT !.pc = "command"]
              rs == [runs EXCEPT ![Len(runs)] = r]
  <2>1. /\ Len(runs) \in Nat /\ DOMAIN runs = 1 .. Len(runs) /\ Len(runs) \in DOMAIN runs
        /\ runs \in Seq(Run) /\ Running \in Run /\ runs # << >>
        /\ Running.pc = "prompt" /\ StaticsOf(Running, dbg)
    BY <1>1, <1>2, RunsTyped
       DEF Types, ChangeCommand, At, Inv, RunsSound, Sound, Running, InDebugger
  <2>2. /\ r \in Run /\ r.pc = "command" /\ r.eb = Running.eb /\ r.stopped
        /\ r.leaving = Running.leaving /\ r.winner = Running.winner
    BY <2>1 DEF Run, Pc, StaticsOf
  <2>3. runs' = MarkChanged(rs) /\ dbg' = dbg /\ break' = break
    BY <1>2 DEF ChangeCommand, Running
  <2>. HIDE DEF r
  <2>4. /\ rs \in Seq(Run) /\ Len(rs) = Len(runs) /\ DOMAIN rs = DOMAIN runs
        /\ \A j \in DOMAIN runs : j < Len(runs) => rs[j] = runs[j]
        /\ rs[Len(runs)] = r
    BY <2>1, <2>2
  <2>. HIDE DEF rs
  <2>5. \A run \in Run : /\ mark(run) \in Run /\ mark(run).pc = run.pc
                         /\ mark(run).eb = run.eb /\ mark(run).leaving = run.leaving
                         /\ mark(run).winner = run.winner /\ mark(run).stopped = run.stopped
    BY DEF Run
  <2>6. runs' = [k \in 1 .. Len(runs) |-> mark(rs[k])]
    BY <2>1, <2>3, <2>4 DEF MarkChanged
  <2>. HIDE DEF mark
  <2>7. \A k \in 1 .. Len(runs) : rs[k] \in Run /\ mark(rs[k]) \in Run
    BY <2>1, <2>4, <2>5
  <2>8. runs' \in [1 .. Len(runs) -> Run]
    BY <2>6, <2>7
  <2>9. runs' \in Seq(Run) /\ Len(runs') = Len(runs) /\ DOMAIN runs' = DOMAIN runs
    BY <2>1, <2>8, SeqDef
  <2>10. \A k \in DOMAIN runs : runs'[k] = mark(rs[k])
    BY <2>1, <2>6
  <2>11. Nesting'
    BY <2>1, <2>2, <2>4, <2>5, <2>7, <2>9, <2>10 DEF Inv, Nesting, Running
  <2>12. \A j \in DOMAIN runs : j < Len(runs) => Sound(runs'[j], dbg')
    <3>. SUFFICES ASSUME NEW j \in DOMAIN runs, j < Len(runs) PROVE Sound(runs'[j], dbg')
      OBVIOUS
    <3>1. runs[j].pc \in Code /\ Sound(runs[j], dbg)
      BY <2>1, OthersQuiet DEF Inv, RunsSound, StaticsOf, Debugged
    <3>2. runs'[j].pc = runs[j].pc /\ runs'[j].leaving = runs[j].leaving
      BY <2>1, <2>4, <2>5, <2>7, <2>10
    <3>. QED
      BY <3>1, <3>2 DEF Sound, InDebugger, WillFire, Code
  <2>13. /\ runs'[Len(runs)].pc = "command" /\ runs'[Len(runs)].eb = r.eb
         /\ runs'[Len(runs)].leaving = r.leaving /\ runs'[Len(runs)].winner = r.winner
         /\ runs'[Len(runs)].stopped
    BY <2>1, <2>2, <2>4, <2>5, <2>10
  <2>14. Sound(runs'[Len(runs)], dbg')
    BY <2>1, <2>2, <2>3, <2>13 DEF Sound, InDebugger, StaticsOf, WillFire
  <2>15. RunsSound'
    <3>. SUFFICES ASSUME NEW k \in DOMAIN runs PROVE Sound(runs'[k], dbg')
      BY <2>9 DEF RunsSound, Sound, InDebugger, StaticsOf, WillFire
    <3>1. k < Len(runs) \/ k = Len(runs)
      BY <2>1
    <3>. QED
      BY <3>1, <2>12, <2>14
  <2>16. HooksSet'
    BY <2>1, <2>9, <2>13 DEF HooksSet, InDebugger
  <2>. QED
    BY <1>1, <2>3, <2>9, <2>11, <2>15, <2>16 DEF Inv, Types, ReasonsKept
<1>3. CASE StateCommand
  <2>. DEFINE run == [Running EXCEPT !.changed = TRUE]
              d == [dbg EXCEPT !.changes = TRUE]
  <2>1. /\ Running \in Run /\ runs # << >> /\ InDebugger(Running)
        /\ StaticsOf(Running, dbg)
    BY <1>1, <1>3, RunsTyped
       DEF StateCommand, At, Inv, RunsSound, Sound, Running, InDebugger
  <2>2. /\ run \in Run /\ run.eb = Running.eb /\ run.leaving = Running.leaving
        /\ run.winner = Running.winner /\ run.stopped
    BY <2>1 DEF Run, StaticsOf
  <2>3. /\ d \in Statics /\ d.exiting = dbg.exiting /\ d.winner = dbg.winner
        /\ d.changes /\ d.run = dbg.run
    BY <1>1 DEF Statics
  <2>4. Executed(run, d) /\ ~dbg.run
    BY <1>3, <2>1 DEF StateCommand, StaticsOf
  <2>. HIDE DEF run, d
  <2>. QED
    BY <2>1, <2>2, <2>3, <2>4, ExecutedKeeps
<1>4. CASE ReturnCommand
  <2>. DEFINE d == [dbg EXCEPT !.ret = TRUE]
  <2>1. /\ d \in Statics /\ d.exiting = dbg.exiting /\ d.winner = dbg.winner
        /\ d.run = dbg.run
    BY <1>1 DEF Statics
  <2>2. At("prompt") /\ Executed(Running, d) /\ ~dbg.run
    BY <1>1, <1>4, RunsTyped
       DEF ReturnCommand, At, Inv, RunsSound, Sound, Running, InDebugger, StaticsOf
  <2>. HIDE DEF d
  <2>. QED
    BY <2>1, <2>2, CommandKeeps
<1>5. CASE RbreakCommand
  <2>. PICK rules \in {dbg.rlist \cup {r} : r \in Rules}
                   \cup {dbg.rlist \ {r} : r \in dbg.rlist} \cup {{}} :
         Executed(Running, [dbg EXCEPT !.rlist = rules])
    BY <1>5 DEF RbreakCommand
  <2>. DEFINE d == [dbg EXCEPT !.rlist = rules]
  <2>1. rules \in SUBSET Rules
    BY <1>1 DEF Statics
  <2>2. /\ d \in Statics /\ d.exiting = dbg.exiting /\ d.winner = dbg.winner
        /\ d.run = dbg.run
    BY <1>1, <2>1 DEF Statics
  <2>3. At("prompt") /\ Executed(Running, d) /\ ~dbg.run
    BY <1>1, <1>5, RunsTyped
       DEF RbreakCommand, At, Inv, RunsSound, Sound, Running, InDebugger, StaticsOf
  <2>. HIDE DEF d
  <2>. QED
    BY <2>2, <2>3, CommandKeeps
<1>6. CASE EbreakCommand
  <2>. PICK names \in SUBSET Debuggable : Executed(Running, [dbg EXCEPT !.elist = names])
    BY <1>6 DEF EbreakCommand
  <2>. DEFINE d == [dbg EXCEPT !.elist = names]
  <2>1. /\ d \in Statics /\ d.exiting = dbg.exiting /\ d.winner = dbg.winner
        /\ d.run = dbg.run
    BY <1>1 DEF Statics
  <2>2. At("prompt") /\ Executed(Running, d) /\ ~dbg.run
    BY <1>1, <1>6, RunsTyped
       DEF EbreakCommand, At, Inv, RunsSound, Sound, Running, InDebugger, StaticsOf
  <2>. HIDE DEF d
  <2>. QED
    BY <2>1, <2>2, CommandKeeps
<1>7. ASSUME NEW n \in Int, RunCommand(n)
      PROVE  Inv'
  <2>. DEFINE unreported == dbg.rbreak # dbg.winner /\ dbg.winner \in dbg.rlist
              said == IF unreported THEN dbg.winner ELSE dbg.rbreak
              runs1 == ~unreported
              d == [dbg EXCEPT !.count = n, !.run = runs1, !.rbreak = said]
  <2>1. runs1 \in BOOLEAN /\ said \in Rules \cup {NoRule}
    BY <1>1 DEF Statics
  <2>2. runs1 => (dbg.winner \in dbg.rlist => said = dbg.winner)
    OBVIOUS
  <2>3. At("prompt") /\ Executed(Running, d)
    <3>1. SetRun(dbg, n) = d
      BY <1>1 DEF SetRun, Statics
    <3>. QED
      BY <1>7, <3>1 DEF RunCommand
  <2>. HIDE DEF runs1, said
  <2>4. /\ d \in Statics /\ d.exiting = dbg.exiting /\ d.winner = dbg.winner
        /\ d.run = runs1 /\ d.rlist = dbg.rlist /\ d.rbreak = said
    BY <1>1, <2>1 DEF Statics
  <2>. HIDE DEF d
  <2>. QED
    BY <2>2, <2>3, <2>4, CommandKeeps
<1>8. ASSUME NEW n \in Int, AfterCommand(n)
      PROVE  Inv'
  <2>. DEFINE d == [dbg EXCEPT !.after = n]
  <2>1. /\ d \in Statics /\ d.exiting = dbg.exiting /\ d.winner = dbg.winner
        /\ d.run = dbg.run
    BY <1>1 DEF Statics
  <2>2. At("prompt") /\ Executed(Running, d) /\ ~dbg.run
    BY <1>1, <1>8, RunsTyped
       DEF AfterCommand, At, Inv, RunsSound, Sound, Running, InDebugger, StaticsOf
  <2>. HIDE DEF d
  <2>. QED
    BY <2>1, <2>2, CommandKeeps
<1>. QED
  BY <1>2, <1>3, <1>4, <1>5, <1>6, <1>7, <1>8 DEF Commands

\* The methods of the command have returned.
LEMMA ChangeReturnsKeeps ==
  ASSUME Inv, ChangeCommandReturns
  PROVE  Inv'
<1>1. /\ Running \in Run /\ runs # << >> /\ InDebugger(Running)
      /\ StaticsOf(Running, dbg) /\ dbg \in Statics
  BY RunsTyped DEF ChangeCommandReturns, At, Inv, Types, RunsSound, Sound, Running, InDebugger
<1>2. PICK d : d = FlagChanges(dbg) /\ Executed(Running, d)
  BY DEF ChangeCommandReturns
<1>3. /\ d \in Statics /\ d.exiting = dbg.exiting /\ d.winner = dbg.winner
      /\ d.run = dbg.run /\ (dbg.exiting \/ d.changes)
  BY <1>1, <1>2 DEF FlagChanges, Statics
<1>. QED
  BY <1>1, <1>2, <1>3, ExecutedKeeps DEF StaticsOf

-----------------------------------------------------------------------------
(* The cycle.                                                              *)

\* The innermost run goes on to another place outside the debugger.
LEMMA GotoKeeps ==
  ASSUME Inv, runs # << >>, ~InDebugger(Running),
         NEW pc \in Code \cup {"recognize"}, Goto(pc),
         UNCHANGED <<dbg, hooks>>, ReasonsKept'
  PROVE  Inv'
<1>. DEFINE r == [Running EXCEPT !.pc = pc]
<1>1. Running \in Run /\ ~Running.leaving
  BY RunsTyped DEF Inv, RunsSound, Sound, Running
<1>2. /\ r \in Run /\ r.pc = pc /\ r.eb = Running.eb /\ r.leaving = Running.leaving
  BY <1>1 DEF Run, Pc
<1>3. runs' = [runs EXCEPT ![Len(runs)] = r]
  BY DEF Goto, Running
<1>. HIDE DEF r
<1>4. Sound(r, dbg) /\ ~InDebugger(r)
  BY <1>1, <1>2 DEF Sound, InDebugger, WillFire, Code
<1>. QED
  BY <1>2, <1>3, <1>4, Stepped

LEMMA EnterKeeps ==
  ASSUME Quiet, Inv, NEW eb \in EntryBlocks, EnterEntryBlock(eb)
  PROVE  Inv'
<1>. DEFINE r == [eb |-> eb, pc |-> "entry", winner |-> NoRule,
                  status |-> FALSE, leaving |-> FALSE, cycle |-> 1,
                  after |-> 0, due |-> 0, stopped |-> FALSE, changed |-> FALSE]
<1>1. /\ Len(runs) \in Nat /\ DOMAIN runs = 1 .. Len(runs) /\ runs \in Seq(Run)
      /\ \A k \in DOMAIN runs : runs[k] \in Run
  BY RunsTyped DEF Inv, Types
<1>2. r \in Run /\ r.pc = "entry" /\ r.eb = eb /\ ~r.leaving
  BY DEF Run, Pc, Code
<1>3. runs' = Append(runs, r) /\ UNCHANGED <<dbg, break, hooks>>
  BY DEF EnterEntryBlock
<1>. HIDE DEF r
<1>4. /\ runs' \in Seq(Run) /\ Len(runs') = Len(runs) + 1
      /\ DOMAIN runs' = 1 .. (Len(runs) + 1)
      /\ \A j \in DOMAIN runs : runs'[j] = runs[j]
      /\ runs'[Len(runs) + 1] = r
  BY <1>1, <1>2, <1>3
<1>5. ASSUME NEW j \in DOMAIN runs, runs[j].pc = "command" \/ runs[j].eb \notin Debuggable
      PROVE  eb \notin Debuggable
  <2>1. Len(runs) \in DOMAIN runs /\ runs # << >> /\ Running \in Run
    BY <1>1, RunsTyped DEF Inv
  <2>2. Running.pc = "command" \/ Running.eb \notin Debuggable
    BY <1>1, <2>1, <1>5 DEF Inv, Nesting, Running
  <2>3. Caller = Command \/ Caller \in EntryBlocks \ Debuggable
    BY <2>1, <2>2 DEF Caller, Run
  <2>. QED
    BY <2>3 DEF EnterEntryBlock, Quiet
<1>6. runs # << >> => runs[Len(runs)].pc \in Code \cup {"command"}
  BY DEF EnterEntryBlock, HasControl, Running
<1>7. Nesting'
  <2>. SUFFICES ASSUME NEW j \in DOMAIN runs', j < Len(runs')
                PROVE  /\ runs'[j].pc \in Code \cup {"command"}
                       /\ runs'[j].pc = "command" \/ runs'[j].eb \notin Debuggable =>
                            \A k \in DOMAIN runs' : j < k => runs'[k].eb \notin Debuggable
    BY DEF Nesting
  <2>1. /\ j \in DOMAIN runs /\ runs'[j] = runs[j] /\ runs # << >>
        /\ (j < Len(runs) \/ j = Len(runs))
    BY <1>1, <1>4
  <2>2. runs'[j].pc \in Code \cup {"command"}
    BY <1>6, <2>1 DEF Inv, Nesting
  <2>3. ASSUME runs'[j].pc = "command" \/ runs'[j].eb \notin Debuggable,
               NEW k \in DOMAIN runs', j < k
        PROVE  runs'[k].eb \notin Debuggable
    <3>1. CASE k = Len(runs) + 1
      BY <1>2, <1>4, <1>5, <2>1, <2>3, <3>1
    <3>2. CASE k # Len(runs) + 1
      <4>1. k \in DOMAIN runs /\ j < Len(runs) /\ runs'[k] = runs[k]
        BY <1>1, <1>4, <2>1, <2>3, <3>2
      <4>. QED
        BY <2>1, <2>3, <4>1 DEF Inv, Nesting
    <3>. QED
      BY <3>1, <3>2
  <2>. QED
    BY <2>2, <2>3
<1>8. RunsSound'
  <2>. SUFFICES ASSUME NEW k \in DOMAIN runs' PROVE Sound(runs'[k], dbg)
    BY <1>3 DEF RunsSound, Sound, InDebugger, StaticsOf, WillFire
  <2>1. Sound(r, dbg)
    BY <1>2 DEF Sound, InDebugger, WillFire
  <2>2. k \in DOMAIN runs \/ k = Len(runs) + 1
    BY <1>1, <1>4
  <2>. QED
    BY <1>4, <2>1, <2>2 DEF Inv, RunsSound
<1>9. HooksSet'
  <2>. SUFFICES ASSUME \A k \in DOMAIN runs' : ~InDebugger(runs'[k])
                PROVE  "rbreak" \in hooks <=> dbg.rlist # {}
    BY <1>3 DEF HooksSet, InDebugger
  <2>1. \A k \in DOMAIN runs : ~InDebugger(runs[k])
    BY <1>1, <1>4
  <2>. QED
    BY <2>1 DEF Inv, HooksSet
<1>. QED
  BY <1>3, <1>4, <1>7, <1>8, <1>9 DEF Inv, Types, ReasonsKept

LEMMA BreakKeeps ==
  ASSUME Inv, UNCHANGED <<runs, dbg, hooks>>, ReasonsKept'
  PROVE  Inv'
<1>1. Types' /\ Nesting' /\ HooksSet'
  BY DEF Inv, Types, Nesting, HooksSet, InDebugger
<1>2. RunsSound'
  BY DEF Inv, RunsSound, Sound, InDebugger, StaticsOf, WillFire
<1>. QED
  BY <1>1, <1>2 DEF Inv

LEMMA RecognizeKeeps ==
  ASSUME Inv, Recognize
  PROVE  Inv'
<1>. PICK w \in Rules \cup {NoRule} :
       LET why == break \cup RunBreak \cup RuleBreak(w)
           next == IF w = NoRule THEN "empty" ELSE "fire"
       IN  IF Debugged /\ why # {}
           THEN Prompt(Chosen(w), why)
           ELSE /\ runs' = [runs EXCEPT ![Len(runs)] = [Chosen(w) EXCEPT !.pc = next]]
                /\ UNCHANGED <<dbg, break, ebreakAll, hooks, firing, runCount, budget>>
  BY DEF Recognize
<1>. DEFINE why == break \cup RunBreak \cup RuleBreak(w)
            next == IF w = NoRule THEN "empty" ELSE "fire"
<1>1. /\ Running \in Run /\ runs # << >> /\ Running.pc = "recognize" /\ ~Running.leaving
      /\ ~InDebugger(Running)
  BY RunsTyped DEF Recognize, At, Inv, RunsSound, Sound, Running, InDebugger
<1>2. /\ Chosen(w) \in Run /\ Chosen(w).eb = Running.eb /\ ~Chosen(w).leaving
      /\ Chosen(w).winner = w /\ ~Chosen(w).changed
  BY <1>1 DEF Chosen, Run
<1>3. CASE Debugged /\ why # {}
  <2>1. "exit" \notin why
    BY DEF Inv, ReasonsKept, RunBreak, RuleBreak
  <2>2. Prompt(Chosen(w), why)
    BY <1>3
  <2>. HIDE DEF why
  <2>. QED
    BY <1>1, <1>2, <1>3, <2>1, <2>2, PromptKeeps
<1>4. CASE ~(Debugged /\ why # {})
  <2>. DEFINE r == [Chosen(w) EXCEPT !.pc = next]
  <2>1. next \in Pc /\ next \in {"empty", "fire"}
    BY DEF Pc, Code
  <2>2. runs' = [runs EXCEPT ![Len(runs)] = r] /\ UNCHANGED <<dbg, break, hooks>>
    BY <1>4
  <2>3. Debugged => "rbreak" \notin hooks \/ w \notin dbg.rlist
    BY <1>4 DEF RuleBreak
  <2>. HIDE DEF why, next
  <2>4. /\ r \in Run /\ r.pc = next /\ r.eb = Running.eb /\ ~r.leaving
        /\ r.winner = w /\ ~r.changed
    BY <1>2, <2>1 DEF Run
  <2>. HIDE DEF r
  <2>5. Debugged => w \notin dbg.rlist
    <3>. SUFFICES ASSUME Debugged, w \in dbg.rlist PROVE FALSE
      OBVIOUS
    <3>1. \A k \in DOMAIN runs : ~InDebugger(runs[k])
      BY <1>1, OthersQuiet, RunsTyped DEF Inv, InDebugger, Code, Running
    <3>. QED
      BY <2>3, <3>1 DEF Inv, HooksSet
  <2>6. Sound(r, dbg) /\ ~InDebugger(r)
    BY <2>1, <2>4, <2>5 DEF Sound, InDebugger, WillFire, Debugged
  <2>7. ReasonsKept'
    BY <2>2 DEF Inv, ReasonsKept
  <2>. QED
    BY <1>1, <2>2, <2>4, <2>6, <2>7, Stepped
<1>. QED
  BY <1>3, <1>4

LEMMA FireKeeps ==
  ASSUME Inv, Fire
  PROVE  Inv'
<1>. DEFINE r == [Running EXCEPT !.pc = "rhs", !.cycle = @ + 1]
<1>1. /\ Running \in Run /\ runs # << >> /\ Running.pc = "fire" /\ ~Running.leaving
      /\ ~InDebugger(Running)
  BY RunsTyped DEF Fire, WillFire, Inv, RunsSound, Sound, Running, InDebugger
<1>2. r \in Run /\ r.pc = "rhs" /\ r.eb = Running.eb /\ r.leaving = Running.leaving
  <2>1. Running.cycle + 1 \in Int /\ "rhs" \in Pc
    BY <1>1 DEF Run, Pc, Code
  <2>. QED
    BY <1>1, <2>1 DEF Run
<1>3. /\ runs' = [runs EXCEPT ![Len(runs)] = r] /\ UNCHANGED <<dbg, break, hooks>>
  BY DEF Fire, Running
<1>. HIDE DEF r
<1>4. Sound(r, dbg) /\ ~InDebugger(r) /\ ReasonsKept'
  BY <1>1, <1>2, <1>3 DEF Sound, InDebugger, WillFire, Inv, ReasonsKept
<1>. QED
  BY <1>1, <1>2, <1>3, <1>4, Stepped

LEMMA OnExitKeeps ==
  ASSUME Inv, OnExitReturned
  PROVE  Inv'
<1>1. /\ Len(runs) \in Nat /\ DOMAIN runs = 1 .. Len(runs) /\ Len(runs) \in DOMAIN runs
      /\ Running \in Run /\ runs # << >> /\ Running.pc = "exit" /\ ~InDebugger(Running)
      /\ Running = runs[Len(runs)] /\ runs \in Seq(Run)
  BY RunsTyped DEF OnExitReturned, At, Inv, Types, Running, InDebugger
<1>2. CASE Debugged /\ BreaksAt(Running.eb)
  <2>. DEFINE r == [Running EXCEPT !.leaving = TRUE]
  <2>1. r \in Run /\ r.eb = Running.eb /\ r.leaving
    BY <1>1 DEF Run
  <2>2. Prompt(r, break \cup {"exit"})
    BY <1>2 DEF OnExitReturned
  <2>. HIDE DEF r
  <2>. QED
    BY <1>1, <1>2, <2>1, <2>2, PromptKeeps
<1>3. CASE ~(Debugged /\ BreaksAt(Running.eb))
  <2>1. runs' = SubSeq(runs, 1, Len(runs) - 1) /\ UNCHANGED <<dbg, break, hooks>>
    BY <1>3 DEF OnExitReturned
  <2>2. HooksSet'
    <3>. SUFFICES ASSUME \A k \in DOMAIN runs' : ~InDebugger(runs'[k])
                  PROVE  "rbreak" \in hooks <=> dbg.rlist # {}
      BY <2>1 DEF HooksSet, InDebugger
    <3>1. \A k \in DOMAIN runs : k < Len(runs) => k \in DOMAIN runs' /\ runs'[k] = runs[k]
      BY <1>1, <2>1
    <3>2. \A k \in DOMAIN runs : ~InDebugger(runs[k])
      BY <1>1, <3>1
    <3>. QED
      BY <3>2 DEF Inv, HooksSet
  <2>3. dbg' \in Statics /\ ReasonsKept'
    BY <2>1 DEF Inv, Types, ReasonsKept
  <2>4. \A j \in DOMAIN runs : j < Len(runs) => Sound(runs[j], dbg')
    BY <2>1 DEF Inv, RunsSound
  <2>. QED
    BY <1>1, <2>1, <2>2, <2>3, <2>4, Popped
<1>. QED
  BY <1>2, <1>3

-----------------------------------------------------------------------------
\* Initially no run is there.
LEMMA InvInit ==
  ASSUME Init
  PROVE  Inv
<1>1. runs \in Seq(Run) /\ DOMAIN runs = {}
  BY DEF Init
<1>2. dbg \in Statics
  BY DEF Init, Statics
<1>. QED
  BY <1>1, <1>2 DEF Init, Inv, Types, Nesting, RunsSound, HooksSet, ReasonsKept

\* Every step of the interpreter and of the cycle keeps the invariant.
LEMMA InvNext ==
  ASSUME Quiet, Inv, [Next]_vars
  PROVE  Inv'
<1>1. CASE OnEntryReturned
  <2>1. PICK pc \in {"exit", "recognize"} : Goto(pc)
    BY <1>1 DEF OnEntryReturned
  <2>2. runs # << >> /\ ~InDebugger(Running) /\ UNCHANGED <<dbg, hooks>> /\ ReasonsKept'
    BY <1>1 DEF OnEntryReturned, At, InDebugger, Inv, ReasonsKept
  <2>. QED
    BY <2>1, <2>2, GotoKeeps DEF Code
<1>2. CASE FireNothing
  <2>1. runs # << >> /\ ~InDebugger(Running) /\ UNCHANGED <<dbg, hooks>> /\ ReasonsKept'
    BY <1>2 DEF FireNothing, At, InDebugger, Inv, ReasonsKept
  <2>. QED
    BY <1>2, <2>1, GotoKeeps DEF FireNothing
<1>3. CASE CodeReturned
  <2>1. PICK pc \in Code \cup {"recognize"} : Goto(pc)
    BY <1>3 DEF CodeReturned, Code
  <2>2. runs # << >> /\ ~InDebugger(Running) /\ UNCHANGED <<dbg, hooks>> /\ ReasonsKept'
    BY <1>3 DEF CodeReturned, At, InDebugger, Inv, ReasonsKept
  <2>. QED
    BY <2>1, <2>2, GotoKeeps
<1>4. CASE CodeBreaks
  <2>1. UNCHANGED <<runs, dbg, hooks>> /\ ReasonsKept'
    BY <1>4 DEF CodeBreaks, Inv, ReasonsKept
  <2>. QED
    BY <2>1, BreakKeeps
<1>5. CASE UNCHANGED vars
  <2>1. UNCHANGED <<runs, dbg, hooks>> /\ ReasonsKept'
    BY <1>5 DEF vars, Inv, ReasonsKept
  <2>. QED
    BY <2>1, BreakKeeps
<1>. QED
  BY <1>1, <1>2, <1>3, <1>4, <1>5, CommandsKeep, ChangeReturnsKeeps, EnterKeeps,
     RecognizeKeeps, FireKeeps, OnExitKeeps DEF Next

\* The invariant of programs whose commands run no debugged entry block.
THEOREM DebuggerInvariant ==
  ASSUME Quiet
  PROVE  Spec => []Inv
<1>1. Init => Inv
  BY InvInit
<1>2. Inv /\ [Next]_vars => Inv'
  BY InvNext
<1>. QED
  BY <1>1, <1>2, PTL DEF Spec

\* No rule fires that was chosen before a command of the debugger changed
\* working memory, so the cycle finds the changes first (rac.c:360).
THEOREM FreshFirings ==
  ASSUME Quiet
  PROVE  Spec => []FiresFresh
<1>1. Inv => FiresFresh
  BY DEF Inv, RunsSound, Sound, FiresFresh
<1>. QED
  BY <1>1, DebuggerInvariant, PTL

\* A rule with a break fires in a run with debugging only when the stop before
\* its firing reported it (rac.c:327, dbg.c:1724).
THEOREM BreaksReported ==
  ASSUME Quiet
  PROVE  Spec => []RbreakReported
<1>1. Inv => RbreakReported
  BY DEF Inv, RunsSound, Sound, RbreakReported
<1>. QED
  BY <1>1, DebuggerInvariant, PTL

-----------------------------------------------------------------------------
(* Where the debugger stops.                                               *)

\* Entry blocks with debugging call only their like, and so does the program.
Uniform ==
  \A caller \in Debuggable \cup {Program} : Calls[caller] \subseteq Debuggable

\* A command other than those that run methods ends in the interpreter, for the
\* run that prompted; it never asks for a RETURN and reports changes as well.
LEMMA CommandShape ==
  ASSUME Inv, (Commands /\ ~ChangeCommand) \/ ChangeCommandReturns
  PROVE  /\ runs # << >> /\ InDebugger(Running) /\ Running \in Run /\ Debugged
         /\ \E run \in Run, d \in Statics :
              /\ run.eb = Running.eb /\ run.status = Running.status
              /\ ~(d.ret /\ d.changes)
              /\ Executed(run, d)
<1>1. /\ runs # << >> /\ InDebugger(Running) /\ Running \in Run /\ dbg \in Statics
      /\ StaticsOf(Running, dbg)
  BY RunsTyped
     DEF Commands, StateCommand, ReturnCommand, RbreakCommand, EbreakCommand, RunCommand,
         AfterCommand, ChangeCommandReturns, At, Inv, Types, RunsSound, Sound, Running,
         InDebugger
<1>2. ~dbg.ret /\ ~dbg.changes /\ Debugged
  BY <1>1 DEF StaticsOf, Debugged
<1>. SUFFICES \E run \in Run, d \in Statics :
                /\ run.eb = Running.eb /\ run.status = Running.status
                /\ ~(d.ret /\ d.changes)
                /\ Executed(run, d)
  BY <1>1, <1>2
<1>3. CASE StateCommand
  <2>. DEFINE run == [Running EXCEPT !.changed = TRUE]
              d == [dbg EXCEPT !.changes = TRUE]
  <2>1. run \in Run /\ run.eb = Running.eb /\ run.status = Running.status
    BY <1>1 DEF Run
  <2>2. d \in Statics /\ ~d.ret
    BY <1>1, <1>2 DEF Statics
  <2>3. Executed(run, d)
    BY <1>3 DEF StateCommand
  <2>. HIDE DEF run, d
  <2>. QED
    BY <2>1, <2>2, <2>3
<1>4. CASE ReturnCommand
  <2>. DEFINE d == [dbg EXCEPT !.ret = TRUE]
  <2>1. d \in Statics /\ ~d.changes
    BY <1>1, <1>2 DEF Statics
  <2>2. Executed(Running, d)
    BY <1>4 DEF ReturnCommand
  <2>. HIDE DEF d
  <2>. QED
    BY <1>1, <2>1, <2>2
<1>5. CASE RbreakCommand
  <2>. PICK rules \in {dbg.rlist \cup {r} : r \in Rules}
                   \cup {dbg.rlist \ {r} : r \in dbg.rlist} \cup {{}} :
         Executed(Running, [dbg EXCEPT !.rlist = rules])
    BY <1>5 DEF RbreakCommand
  <2>. DEFINE d == [dbg EXCEPT !.rlist = rules]
  <2>1. rules \in SUBSET Rules
    BY <1>1 DEF Statics
  <2>2. d \in Statics /\ ~d.ret
    BY <1>1, <1>2, <2>1 DEF Statics
  <2>3. Executed(Running, d)
    OBVIOUS
  <2>. HIDE DEF d
  <2>. QED
    BY <1>1, <2>2, <2>3
<1>6. CASE EbreakCommand
  <2>. PICK names \in SUBSET Debuggable : Executed(Running, [dbg EXCEPT !.elist = names])
    BY <1>6 DEF EbreakCommand
  <2>. DEFINE d == [dbg EXCEPT !.elist = names]
  <2>1. d \in Statics /\ ~d.ret
    BY <1>1, <1>2 DEF Statics
  <2>2. Executed(Running, d)
    OBVIOUS
  <2>. HIDE DEF d
  <2>. QED
    BY <1>1, <2>1, <2>2
<1>7. ASSUME NEW n \in Int, RunCommand(n)
      PROVE  \E d \in Statics : ~d.ret /\ Executed(Running, d)
  <2>. DEFINE unreported == dbg.rbreak # dbg.winner /\ dbg.winner \in dbg.rlist
              said == IF unreported THEN dbg.winner ELSE dbg.rbreak
              runs1 == ~unreported
              d == [dbg EXCEPT !.count = n, !.run = runs1, !.rbreak = said]
  <2>1. runs1 \in BOOLEAN /\ said \in Rules \cup {NoRule}
    BY <1>1 DEF Statics
  <2>2. Executed(Running, d)
    <3>1. SetRun(dbg, n) = d
      BY <1>1 DEF SetRun, Statics
    <3>. QED
      BY <1>7, <3>1 DEF RunCommand
  <2>. HIDE DEF runs1, said
  <2>3. d \in Statics /\ ~d.ret
    BY <1>1, <1>2, <2>1 DEF Statics
  <2>. HIDE DEF d
  <2>. QED
    BY <2>2, <2>3
<1>8. ASSUME NEW n \in Int, AfterCommand(n)
      PROVE  \E d \in Statics : ~d.ret /\ Executed(Running, d)
  <2>. DEFINE d == [dbg EXCEPT !.after = n]
  <2>1. d \in Statics /\ ~d.ret
    BY <1>1, <1>2 DEF Statics
  <2>2. Executed(Running, d)
    BY <1>8 DEF AfterCommand
  <2>. HIDE DEF d
  <2>. QED
    BY <2>1, <2>2
<1>9. CASE ChangeCommandReturns
  <2>1. Executed(Running, FlagChanges(dbg))
    BY <1>9 DEF ChangeCommandReturns
  <2>2. FlagChanges(dbg) \in Statics /\ ~FlagChanges(dbg).ret
    BY <1>1, <1>2 DEF FlagChanges, Statics
  <2>. QED
    BY <1>1, <2>1, <2>2
<1>. QED
  BY <1>1, <1>3, <1>4, <1>5, <1>6, <1>7, <1>8, <1>9 DEF Commands

\* A run whose winner is put off until it has gone round again is in its cycle
\* or in the debugger, has debugging, and will stop.
StatusSound(run, reasons) ==
  run.status =>
    /\ run.pc \in {"fire", "recognize", "prompt", "command"} /\ run.eb \in Debuggable
    /\ run.pc \in {"fire", "recognize"} => reasons # {}
RoundsSound == \A k \in DOMAIN runs : StatusSound(runs[k], break)

\* Only the innermost run is in its cycle.
LEMMA OthersRound ==
  ASSUME Inv, RoundsSound, NEW j \in DOMAIN runs, j < Len(runs), NEW reasons
  PROVE  StatusSound(runs[j], reasons)
BY DEF Inv, Nesting, RoundsSound, StatusSound, Code

LEMMA ReplacedRounds ==
  ASSUME Inv, RoundsSound, runs # << >>, NEW r,
         runs' = [runs EXCEPT ![Len(runs)] = r], StatusSound(r, break')
  PROVE  RoundsSound'
<1>1. /\ Len(runs) \in Nat /\ DOMAIN runs = 1 .. Len(runs) /\ Len(runs) \in DOMAIN runs
      /\ runs \in Seq(Run)
  BY RunsTyped DEF Inv, Types
<1>2. /\ DOMAIN runs' = DOMAIN runs /\ runs'[Len(runs)] = r
      /\ \A j \in DOMAIN runs : j < Len(runs) => runs'[j] = runs[j]
  BY <1>1
<1>. SUFFICES ASSUME NEW k \in DOMAIN runs PROVE StatusSound(runs'[k], break')
  BY <1>2 DEF RoundsSound, StatusSound
<1>3. k < Len(runs) \/ k = Len(runs)
  BY <1>1
<1>. QED
  BY <1>2, <1>3, OthersRound

LEMMA PoppedRounds ==
  ASSUME Inv, RoundsSound, runs # << >>, runs' = SubSeq(runs, 1, Len(runs) - 1)
  PROVE  RoundsSound'
<1>1. /\ Len(runs) \in Nat \ {0} /\ DOMAIN runs = 1 .. Len(runs) /\ runs \in Seq(Run)
  BY RunsTyped DEF Inv, Types
<1>2. \A j \in DOMAIN runs' : j \in DOMAIN runs /\ j < Len(runs) /\ runs'[j] = runs[j]
  BY <1>1
<1>. SUFFICES ASSUME NEW k \in DOMAIN runs' PROVE StatusSound(runs'[k], break')
  BY DEF RoundsSound, StatusSound
<1>. QED
  BY <1>2, OthersRound

LEMMA GotoRounds ==
  ASSUME Inv, RoundsSound, runs # << >>, NEW pc, Goto(pc),
         StatusSound([Running EXCEPT !.pc = pc], break')
  PROVE  RoundsSound'
<1>1. runs' = [runs EXCEPT ![Len(runs)] = [Running EXCEPT !.pc = pc]]
  BY DEF Goto, Running
<1>. QED
  BY <1>1, ReplacedRounds

LEMMA PromptRounds ==
  ASSUME Inv, RoundsSound, runs # << >>, Debugged, NEW run \in Run, NEW why,
         run.eb = Running.eb, Prompt(run, why)
  PROVE  RoundsSound'
<1>. DEFINE r == [run EXCEPT !.pc = "prompt", !.stopped = TRUE]
<1>1. r.pc = "prompt" /\ r.eb \in Debuggable
  BY DEF Run, Debugged
<1>2. runs' = [runs EXCEPT ![Len(runs)] = r]
  BY DEF Prompt
<1>. HIDE DEF r
<1>3. StatusSound(r, break')
  BY <1>1 DEF StatusSound
<1>. QED
  BY <1>2, <1>3, ReplacedRounds

LEMMA ExecutedRounds ==
  ASSUME Inv, RoundsSound, runs # << >>, Debugged, NEW run \in Run, NEW d \in Statics,
         run.eb = Running.eb, ~(d.ret /\ d.changes), Executed(run, d)
  PROVE  RoundsSound'
<1>1. CASE (d.run \/ d.ret \/ d.changes) /\ run.leaving
  BY <1>1, PoppedRounds DEF Executed, Leave
<1>2. CASE (d.run \/ d.ret \/ d.changes) /\ ~run.leaving
  <2>. DEFINE on == IF d.after = 0 THEN run
                    ELSE [run EXCEPT !.after = run.cycle + d.after,
                                     !.due = run.cycle - 1 + d.after]
              next == IF d.ret THEN "exit" ELSE "fire"
              r == [on EXCEPT !.pc = next, !.status = d.changes]
  <2>1. DOMAIN on = DOMAIN run /\ on.eb = run.eb
    <3>1. CASE d.after = 0
      BY <3>1
    <3>2. CASE d.after # 0
      <4>1. on = [run EXCEPT !.after = run.cycle + d.after,
                             !.due = run.cycle - 1 + d.after]
        BY <3>2
      <4>. HIDE DEF on
      <4>. QED
        BY <4>1 DEF Run
    <3>. QED
      BY <3>1, <3>2
  <2>2. next \in {"exit", "fire"} /\ (next = "fire" <=> ~d.ret)
    OBVIOUS
  <2>3. runs' = [runs EXCEPT ![Len(runs)] = r] /\ (d.changes => break' # {})
    BY <1>2 DEF Executed, Leave
  <2>. HIDE DEF on, next
  <2>4. r.eb \in Debuggable /\ r.pc = next /\ r.status = d.changes
    BY <2>1 DEF Run, Debugged
  <2>. HIDE DEF r
  <2>5. StatusSound(r, break')
    BY <2>2, <2>3, <2>4 DEF StatusSound
  <2>. QED
    BY <2>3, <2>5, ReplacedRounds
<1>3. CASE ~(d.run \/ d.ret \/ d.changes)
  <2>. DEFINE r == [run EXCEPT !.pc = "prompt"]
  <2>1. r.pc = "prompt" /\ r.eb \in Debuggable
    BY DEF Run, Debugged
  <2>2. runs' = [runs EXCEPT ![Len(runs)] = r]
    BY <1>3 DEF Executed
  <2>. HIDE DEF r
  <2>3. StatusSound(r, break')
    BY <2>1 DEF StatusSound
  <2>. QED
    BY <2>2, <2>3, ReplacedRounds
<1>. QED
  BY <1>1, <1>2, <1>3

\* A command that runs methods marks all runs and leaves its own in the debugger.
LEMMA ChangeShape ==
  ASSUME Inv, ChangeCommand
  PROVE  /\ runs # << >> /\ InDebugger(Running) /\ Debugged /\ Len(runs) \in DOMAIN runs
         /\ DOMAIN runs' = DOMAIN runs
         /\ runs'[Len(runs)].pc = "command" /\ runs'[Len(runs)].eb = Running.eb
         /\ \A j \in DOMAIN runs : j < Len(runs) =>
              /\ runs'[j].pc = runs[j].pc /\ runs'[j].eb = runs[j].eb
              /\ runs'[j].status = runs[j].status
<1>. DEFINE mark(run) == [run EXCEPT !.changed = TRUE]
            r == [Running EXCEPT !.pc = "command"]
            rs == [runs EXCEPT ![Len(runs)] = r]
<1>1. /\ Len(runs) \in Nat /\ DOMAIN runs = 1 .. Len(runs) /\ Len(runs) \in DOMAIN runs
      /\ runs \in Seq(Run) /\ Running \in Run /\ runs # << >>
      /\ InDebugger(Running) /\ StaticsOf(Running, dbg)
  BY RunsTyped
     DEF Inv, Types, ChangeCommand, At, RunsSound, Sound, Running, InDebugger
<1>2. r \in Run /\ r.pc = "command" /\ r.eb = Running.eb
  BY <1>1 DEF Run, Pc
<1>3. runs' = MarkChanged(rs)
  BY DEF ChangeCommand, Running
<1>. HIDE DEF r
<1>4. /\ rs \in Seq(Run) /\ Len(rs) = Len(runs) /\ DOMAIN rs = DOMAIN runs
      /\ \A j \in DOMAIN runs : j < Len(runs) => rs[j] = runs[j]
      /\ rs[Len(runs)] = r
  BY <1>1, <1>2
<1>. HIDE DEF rs
<1>5. \A run \in Run : /\ mark(run).pc = run.pc /\ mark(run).eb = run.eb
                       /\ mark(run).status = run.status
  BY DEF Run
<1>6. runs' = [k \in DOMAIN runs |-> mark(rs[k])]
  BY <1>3, <1>4 DEF MarkChanged
<1>. HIDE DEF mark
<1>7. \A k \in DOMAIN runs : rs[k] \in Run
  BY <1>1, <1>4
<1>8. DOMAIN runs' = DOMAIN runs /\ \A k \in DOMAIN runs : runs'[k] = mark(rs[k])
  BY <1>6
<1>9. \A k \in DOMAIN runs : /\ runs'[k].pc = rs[k].pc /\ runs'[k].eb = rs[k].eb
                             /\ runs'[k].status = rs[k].status
  BY <1>5, <1>7, <1>8
<1>. QED
  BY <1>1, <1>2, <1>4, <1>8, <1>9 DEF StaticsOf, Debugged

\* A run goes round again only to stop.
LEMMA RoundsNext ==
  ASSUME Inv, RoundsSound, [Next]_vars
  PROVE  RoundsSound'
<1>1. CASE ChangeCommand
  <2>. SUFFICES ASSUME NEW k \in DOMAIN runs PROVE StatusSound(runs'[k], break')
    BY <1>1, ChangeShape DEF RoundsSound, StatusSound
  <2>1. k < Len(runs) \/ k = Len(runs)
    BY RunsTyped DEF Inv
  <2>2. CASE k = Len(runs)
    BY <1>1, <2>2, ChangeShape DEF StatusSound, Debugged
  <2>3. CASE k < Len(runs)
    <3>1. StatusSound(runs[k], break')
      BY <2>3, OthersRound
    <3>. QED
      BY <1>1, <2>3, <3>1, ChangeShape DEF StatusSound
  <2>. QED
    BY <2>1, <2>2, <2>3
<1>2. CASE (Commands /\ ~ChangeCommand) \/ ChangeCommandReturns
  BY <1>2, CommandShape, ExecutedRounds
<1>3. ASSUME NEW eb \in EntryBlocks, EnterEntryBlock(eb)
      PROVE  RoundsSound'
  <2>. DEFINE r == [eb |-> eb, pc |-> "entry", winner |-> NoRule,
                    status |-> FALSE, leaving |-> FALSE, cycle |-> 1,
                    after |-> 0, due |-> 0, stopped |-> FALSE, changed |-> FALSE]
  <2>1. runs' = Append(runs, r) /\ break' = break
    BY <1>3 DEF EnterEntryBlock
  <2>2. ~r.status
    OBVIOUS
  <2>. HIDE DEF r
  <2>3. /\ Len(runs) \in Nat /\ DOMAIN runs = 1 .. Len(runs) /\ runs \in Seq(Run)
    BY RunsTyped DEF Inv, Types
  <2>4. /\ DOMAIN runs' = 1 .. (Len(runs) + 1)
        /\ \A j \in DOMAIN runs : runs'[j] = runs[j]
        /\ runs'[Len(runs) + 1] = r
    BY <2>1, <2>3
  <2>. SUFFICES ASSUME NEW k \in DOMAIN runs' PROVE StatusSound(runs'[k], break')
    BY DEF RoundsSound, StatusSound
  <2>5. k \in DOMAIN runs \/ k = Len(runs) + 1
    BY <2>3, <2>4
  <2>. QED
    BY <2>1, <2>2, <2>4, <2>5 DEF RoundsSound, StatusSound
<1>4. CASE CodeBreaks
  <2>1. runs' = runs /\ break' # {}
    BY <1>4 DEF CodeBreaks
  <2>. QED
    BY <2>1 DEF RoundsSound, StatusSound
<1>5. ASSUME runs # << >>, Running.pc \in Code,
             NEW pc, Goto(pc)
      PROVE  RoundsSound'
  <2>1. Running \in Run /\ Running = runs[Len(runs)] /\ Len(runs) \in DOMAIN runs
    BY <1>5, RunsTyped DEF Inv, Running
  <2>2. ~Running.status
    BY <1>5, <2>1 DEF RoundsSound, StatusSound, Code
  <2>3. ~[Running EXCEPT !.pc = pc].status
    BY <2>1, <2>2 DEF Run
  <2>. QED
    BY <1>5, <2>3, GotoRounds DEF StatusSound
<1>6. CASE OnEntryReturned
  BY <1>5, <1>6 DEF OnEntryReturned, At, Code
<1>7. CASE CodeReturned
  BY <1>5, <1>7 DEF CodeReturned, At, Code
<1>8. CASE FireNothing
  <2>1. Running \in Run /\ Running = runs[Len(runs)] /\ Len(runs) \in DOMAIN runs
        /\ runs # << >> /\ Running.pc = "fire" /\ break' = break
    BY <1>8, RunsTyped DEF Inv, Running, FireNothing, At
  <2>2. StatusSound(Running, break)
    BY <2>1 DEF RoundsSound
  <2>. DEFINE r == [Running EXCEPT !.pc = "recognize"]
  <2>3. r.status = Running.status /\ r.eb = Running.eb /\ r.pc = "recognize"
    BY <2>1 DEF Run
  <2>. HIDE DEF r
  <2>4. StatusSound(r, break')
    BY <2>1, <2>2, <2>3 DEF StatusSound
  <2>. QED
    BY <1>8, <2>1, <2>4, GotoRounds DEF FireNothing, r
<1>9. CASE Fire
  <2>. DEFINE r == [Running EXCEPT !.pc = "rhs", !.cycle = @ + 1]
  <2>1. Running \in Run /\ runs # << >> /\ ~Running.status
    BY <1>9, RunsTyped DEF Inv, Fire, WillFire
  <2>2. ~r.status
    BY <2>1 DEF Run
  <2>3. runs' = [runs EXCEPT ![Len(runs)] = r]
    BY <1>9 DEF Fire, Running
  <2>. HIDE DEF r
  <2>. QED
    BY <2>1, <2>2, <2>3, ReplacedRounds DEF StatusSound
<1>10. CASE Recognize
  <2>. PICK w \in Rules \cup {NoRule} :
         LET why == break \cup RunBreak \cup RuleBreak(w)
             next == IF w = NoRule THEN "empty" ELSE "fire"
         IN  IF Debugged /\ why # {}
             THEN Prompt(Chosen(w), why)
             ELSE /\ runs' = [runs EXCEPT ![Len(runs)] = [Chosen(w) EXCEPT !.pc = next]]
                  /\ UNCHANGED <<dbg, break, ebreakAll, hooks, firing, runCount, budget>>
    BY <1>10 DEF Recognize
  <2>. DEFINE why == break \cup RunBreak \cup RuleBreak(w)
              next == IF w = NoRule THEN "empty" ELSE "fire"
              r == [Chosen(w) EXCEPT !.pc = next]
  <2>1. /\ Running \in Run /\ Running = runs[Len(runs)] /\ Len(runs) \in DOMAIN runs
        /\ runs # << >> /\ Running.pc = "recognize"
    BY <1>10, RunsTyped DEF Inv, Running, Recognize, At
  <2>2. Chosen(w) \in Run /\ Chosen(w).eb = Running.eb /\ Chosen(w).status = Running.status
    BY <2>1 DEF Chosen, Run
  <2>3. CASE Debugged /\ why # {}
    <3>1. Prompt(Chosen(w), why)
      BY <2>3
    <3>. HIDE DEF why
    <3>. QED
      BY <2>1, <2>2, <2>3, <3>1, PromptRounds
  <2>4. CASE ~(Debugged /\ why # {})
    <3>1. ~Debugged \/ break = {}
      BY <2>4
    <3>2. ~Running.status
      BY <2>1, <3>1 DEF RoundsSound, StatusSound, Debugged
    <3>3. runs' = [runs EXCEPT ![Len(runs)] = r]
      BY <2>4
    <3>. HIDE DEF why, next
    <3>4. ~r.status
      BY <2>2, <3>2 DEF Run
    <3>. HIDE DEF r
    <3>. QED
      BY <2>1, <3>3, <3>4, ReplacedRounds DEF StatusSound
  <2>. QED
    BY <2>3, <2>4
<1>11. CASE OnExitReturned
  <2>1. Running \in Run /\ runs # << >>
    BY <1>11, RunsTyped DEF Inv, OnExitReturned, At
  <2>2. CASE Debugged /\ BreaksAt(Running.eb)
    <3>. DEFINE r == [Running EXCEPT !.leaving = TRUE]
    <3>1. r \in Run /\ r.eb = Running.eb
      BY <2>1 DEF Run
    <3>2. Prompt(r, break \cup {"exit"})
      BY <1>11, <2>2 DEF OnExitReturned
    <3>. HIDE DEF r
    <3>. QED
      BY <2>1, <2>2, <3>1, <3>2, PromptRounds
  <2>3. CASE ~(Debugged /\ BreaksAt(Running.eb))
    BY <1>11, <2>1, <2>3, PoppedRounds DEF OnExitReturned
  <2>. QED
    BY <2>2, <2>3
<1>12. CASE UNCHANGED vars
  BY <1>12 DEF vars, RoundsSound, StatusSound
<1>. QED
  BY <1>1, <1>2, <1>3, <1>4, <1>6, <1>7, <1>8, <1>9, <1>10, <1>11, <1>12 DEF Next

\* Where no run is in the debugger, all have debugging.
Covered ==
  \A k \in DOMAIN runs : runs[k].eb \notin Debuggable =>
    \E j \in DOMAIN runs : j < k /\ runs[j].pc = "command"

NoneStopped == \A k \in DOMAIN runs : ~InDebugger(runs[k])

\* What RUN still allows is what the firing cycle lacks to the count.
Counts ==
  /\ firing \in Nat \ {0} /\ budget \in SUBSET Nat
  /\ \A n \in budget : runCount = firing + n
  /\ budget # {} => NoneStopped
  /\ RunStops

Counted == Covered /\ Counts

LEMMA NoneStoppedAll ==
  ASSUME Inv, Covered, NoneStopped
  PROVE  \A k \in DOMAIN runs : runs[k].eb \in Debuggable
BY DEF Covered, NoneStopped, InDebugger

\* The innermost run becomes r, or ends.
LEMMA ReplacedCovered ==
  ASSUME Inv, Covered, runs # << >>, NEW r, r.eb = Running.eb,
         runs' = [runs EXCEPT ![Len(runs)] = r]
  PROVE  Covered'
<1>1. /\ Len(runs) \in Nat /\ DOMAIN runs = 1 .. Len(runs) /\ Len(runs) \in DOMAIN runs
      /\ runs \in Seq(Run)
  BY RunsTyped DEF Inv, Types
<1>2. /\ DOMAIN runs' = DOMAIN runs
      /\ \A j \in DOMAIN runs : j < Len(runs) => runs'[j] = runs[j]
      /\ \A k \in DOMAIN runs : runs'[k].eb = runs[k].eb
  BY <1>1 DEF Running
<1>. SUFFICES ASSUME NEW k \in DOMAIN runs, runs[k].eb \notin Debuggable
              PROVE  \E j \in DOMAIN runs : j < k /\ runs'[j].pc = "command"
  BY <1>2 DEF Covered
<1>3. PICK j \in DOMAIN runs : j < k /\ runs[j].pc = "command"
  BY DEF Covered
<1>4. j < Len(runs)
  BY <1>1, <1>3
<1>. QED
  BY <1>2, <1>3, <1>4

LEMMA PoppedCovered ==
  ASSUME Inv, Covered, runs # << >>, runs' = SubSeq(runs, 1, Len(runs) - 1)
  PROVE  Covered'
<1>1. /\ Len(runs) \in Nat \ {0} /\ DOMAIN runs = 1 .. Len(runs) /\ runs \in Seq(Run)
  BY RunsTyped DEF Inv, Types
<1>2. /\ DOMAIN runs' = 1 .. (Len(runs) - 1)
      /\ \A j \in DOMAIN runs' : j \in DOMAIN runs /\ j < Len(runs) /\ runs'[j] = runs[j]
  BY <1>1
<1>. SUFFICES ASSUME NEW k \in DOMAIN runs', runs'[k].eb \notin Debuggable
              PROVE  \E j \in DOMAIN runs' : j < k /\ runs'[j].pc = "command"
  BY DEF Covered
<1>3. PICK j \in DOMAIN runs : j < k /\ runs[j].pc = "command"
  BY <1>2 DEF Covered
<1>4. j \in DOMAIN runs'
  BY <1>1, <1>2, <1>3
<1>. QED
  BY <1>2, <1>3, <1>4

\* Only the innermost run is about to fire.
LEMMA OthersWait ==
  ASSUME Inv, NEW j \in DOMAIN runs, j < Len(runs)
  PROVE  ~WillFire(runs[j])
BY DEF Inv, Nesting, WillFire, Code

\* The debugger stops: nothing is left of the count.
LEMMA StoppedCounts ==
  ASSUME firing \in Nat \ {0}, firing' = firing, budget' = {}
  PROVE  Counts'
BY DEF Counts, RunStops

\* A step of the innermost run in its cycle that fires nothing.
LEMMA SteppedCounts ==
  ASSUME Inv, Counts, runs # << >>, ~InDebugger(Running), NEW r, ~InDebugger(r),
         r.eb = Running.eb,
         runs' = [runs EXCEPT ![Len(runs)] = r], UNCHANGED <<firing, runCount, budget>>,
         WillFire(r) /\ Debugged => \A n \in budget : n > 0
  PROVE  Counts'
<1>1. /\ Len(runs) \in Nat /\ DOMAIN runs = 1 .. Len(runs) /\ Len(runs) \in DOMAIN runs
      /\ runs \in Seq(Run)
  BY RunsTyped DEF Inv, Types
<1>2. /\ DOMAIN runs' = DOMAIN runs /\ runs'[Len(runs)] = r
      /\ \A j \in DOMAIN runs : j < Len(runs) => runs'[j] = runs[j]
  BY <1>1
<1>3. budget # {} => NoneStopped'
  <2>. SUFFICES ASSUME budget # {}, NEW k \in DOMAIN runs PROVE ~InDebugger(runs'[k])
    BY <1>2 DEF NoneStopped, InDebugger
  <2>1. k < Len(runs) \/ k = Len(runs)
    BY <1>1
  <2>. QED
    BY <1>2, <2>1 DEF Counts, NoneStopped
<1>4. RunStops'
  <2>. SUFFICES ASSUME NEW k \in DOMAIN runs, WillFire(runs'[k]),
                       runs'[k].eb \in Debuggable
                PROVE  \A n \in budget : n > 0
    BY <1>2 DEF RunStops, WillFire
  <2>1. k < Len(runs) \/ k = Len(runs)
    BY <1>1
  <2>2. k = Len(runs)
    BY <1>2, <2>1, OthersWait
  <2>. QED
    BY <1>2, <2>2 DEF Debugged
<1>. QED
  BY <1>3, <1>4 DEF Counts

LEMMA GotoCounted ==
  ASSUME Inv, Counted, runs # << >>, ~InDebugger(Running),
         NEW pc \in Code \cup {"recognize"}, Goto(pc), UNCHANGED <<firing, runCount, budget>>
  PROVE  Counted'
<1>. DEFINE r == [Running EXCEPT !.pc = pc]
<1>1. r.pc = pc /\ r.eb = Running.eb
  BY RunsTyped DEF Inv, Run
<1>2. runs' = [runs EXCEPT ![Len(runs)] = r]
  BY DEF Goto, Running
<1>. HIDE DEF r
<1>3. ~InDebugger(r) /\ ~WillFire(r)
  BY <1>1 DEF InDebugger, WillFire, Code
<1>. QED
  BY <1>1, <1>2, <1>3, ReplacedCovered, SteppedCounts DEF Counted

LEMMA PromptCounted ==
  ASSUME Inv, Counted, runs # << >>, NEW run \in Run, NEW why,
         run.eb = Running.eb, Prompt(run, why)
  PROVE  Counted'
<1>. DEFINE r == [run EXCEPT !.pc = "prompt", !.stopped = TRUE]
<1>1. r.eb = Running.eb
  BY DEF Run
<1>2. /\ runs' = [runs EXCEPT ![Len(runs)] = r]
      /\ budget' = {} /\ firing' = firing
  BY DEF Prompt
<1>. HIDE DEF r
<1>. QED
  BY <1>1, <1>2, ReplacedCovered, StoppedCounts DEF Counted, Counts

LEMMA ExecutedCounted ==
  ASSUME Inv, Counted, runs # << >>, InDebugger(Running), Debugged,
         NEW run \in Run, NEW d \in Statics,
         run.eb = Running.eb, Executed(run, d)
  PROVE  Counted'
<1>1. /\ Len(runs) \in Nat /\ DOMAIN runs = 1 .. Len(runs) /\ Len(runs) \in DOMAIN runs
      /\ runs \in Seq(Run) /\ Running = runs[Len(runs)]
  BY RunsTyped DEF Inv, Types, Running
<1>2. budget = {} /\ firing \in Nat \ {0} /\ firing' = firing
  BY <1>1 DEF Counted, Counts, NoneStopped, Executed, Leave
<1>3. CASE ~(d.run \/ d.ret \/ d.changes)
  <2>. DEFINE r == [run EXCEPT !.pc = "prompt"]
  <2>1. r.eb = Running.eb
    BY DEF Run
  <2>2. runs' = [runs EXCEPT ![Len(runs)] = r] /\ budget' = budget
    BY <1>3 DEF Executed
  <2>. HIDE DEF r
  <2>. QED
    BY <1>2, <2>1, <2>2, ReplacedCovered, StoppedCounts DEF Counted
<1>4. CASE d.run \/ d.ret \/ d.changes
  <2>1. /\ Leave(run, d)
        /\ budget' = IF d.run /\ d.count > 0 THEN {d.count} ELSE {}
        /\ d.run => runCount' = firing + d.count
    BY <1>4 DEF Executed, Leave
  <2>2. \A j \in DOMAIN runs : j < Len(runs) => runs[j].pc \in Code
    BY OthersQuiet DEF Inv
  <2>3. Covered' /\ NoneStopped'
    <3>1. CASE run.leaving
      <4>1. runs' = SubSeq(runs, 1, Len(runs) - 1)
        BY <2>1, <3>1 DEF Leave
      <4>2. \A j \in DOMAIN runs' : j \in DOMAIN runs /\ j < Len(runs) /\ runs'[j] = runs[j]
        BY <1>1, <4>1
      <4>. QED
        BY <2>2, <4>1, <4>2, PoppedCovered DEF Counted, NoneStopped, InDebugger, Code
    <3>2. CASE ~run.leaving
      <4>. DEFINE on == IF d.after = 0 THEN run
                        ELSE [run EXCEPT !.after = run.cycle + d.after,
                                         !.due = run.cycle - 1 + d.after]
                  next == IF d.ret THEN "exit" ELSE "fire"
                  r == [on EXCEPT !.pc = next, !.status = d.changes]
      <4>1. DOMAIN on = DOMAIN run /\ on.eb = run.eb
        <5>1. CASE d.after = 0
          BY <5>1
        <5>2. CASE d.after # 0
          <6>1. on = [run EXCEPT !.after = run.cycle + d.after,
                                 !.due = run.cycle - 1 + d.after]
            BY <5>2
          <6>. HIDE DEF on
          <6>. QED
            BY <6>1 DEF Run
        <5>. QED
          BY <5>1, <5>2
      <4>2. next \in {"exit", "fire"}
        OBVIOUS
      <4>3. runs' = [runs EXCEPT ![Len(runs)] = r]
        BY <2>1, <3>2 DEF Leave
      <4>. HIDE DEF on, next
      <4>4. r.eb = Running.eb /\ r.pc = next
        BY <4>1 DEF Run
      <4>. HIDE DEF r
      <4>5. /\ DOMAIN runs' = DOMAIN runs /\ runs'[Len(runs)] = r
            /\ \A j \in DOMAIN runs : j < Len(runs) => runs'[j] = runs[j]
        BY <1>1, <4>3
      <4>6. \A k \in DOMAIN runs : k < Len(runs) \/ k = Len(runs)
        BY <1>1
      <4>7. NoneStopped'
        BY <2>2, <4>2, <4>4, <4>5, <4>6 DEF NoneStopped, InDebugger, Code
      <4>. QED
        BY <4>3, <4>4, <4>7, ReplacedCovered DEF Counted
    <3>. QED
      BY <3>1, <3>2
  <2>4. CASE d.run /\ d.count > 0
    <3>1. budget' = {d.count} /\ runCount' = firing' + d.count /\ d.count \in Nat
      BY <1>2, <2>1, <2>4 DEF Statics
    <3>2. RunStops'
      BY <3>1, <2>4 DEF RunStops
    <3>. QED
      BY <1>2, <2>3, <3>1, <3>2 DEF Counted, Counts
  <2>5. CASE ~(d.run /\ d.count > 0)
    BY <1>2, <2>1, <2>3, <2>5, StoppedCounts DEF Counted
  <2>. QED
    BY <2>4, <2>5
<1>. QED
  BY <1>3, <1>4

LEMMA EnterCounted ==
  ASSUME Uniform, Inv, Counted, NEW eb \in EntryBlocks, EnterEntryBlock(eb)
  PROVE  Counted'
<1>. DEFINE r == [eb |-> eb, pc |-> "entry", winner |-> NoRule,
                  status |-> FALSE, leaving |-> FALSE, cycle |-> 1,
                  after |-> 0, due |-> 0, stopped |-> FALSE, changed |-> FALSE]
<1>1. /\ Len(runs) \in Nat /\ DOMAIN runs = 1 .. Len(runs) /\ runs \in Seq(Run)
  BY RunsTyped DEF Inv, Types
<1>2. r.pc = "entry" /\ r.eb = eb
  OBVIOUS
<1>3. runs' = Append(runs, r) /\ UNCHANGED <<firing, runCount, budget>>
  BY DEF EnterEntryBlock
<1>. HIDE DEF r
<1>4. /\ DOMAIN runs' = 1 .. (Len(runs) + 1)
      /\ \A j \in DOMAIN runs : runs'[j] = runs[j]
      /\ runs'[Len(runs) + 1] = r
  BY <1>1, <1>3
<1>5. \A k \in DOMAIN runs' : k \in DOMAIN runs \/ k = Len(runs) + 1
  BY <1>1, <1>4
<1>6. Covered'
  <2>. SUFFICES ASSUME NEW k \in DOMAIN runs', runs'[k].eb \notin Debuggable
                PROVE  \E j \in DOMAIN runs' : j < k /\ runs'[j].pc = "command"
    BY DEF Covered
  <2>1. CASE k \in DOMAIN runs
    <3>1. PICK j \in DOMAIN runs : j < k /\ runs[j].pc = "command"
      BY <1>4, <2>1 DEF Counted, Covered
    <3>2. j \in DOMAIN runs'
      BY <1>1, <1>4
    <3>. QED
      BY <1>4, <3>1, <3>2
  <2>2. CASE k = Len(runs) + 1
    <3>1. eb \notin Debuggable /\ eb \in Calls[Caller]
      BY <1>2, <1>4, <2>2 DEF EnterEntryBlock
    <3>2. runs # << >> /\ Len(runs) \in DOMAIN runs /\ Running = runs[Len(runs)]
      BY <1>1, <3>1, RunsTyped DEF Caller, Uniform, Inv, Running
    <3>3. \E j \in DOMAIN runs : runs[j].pc = "command"
      <4>1. CASE Running.pc = "command"
        BY <3>2, <4>1
      <4>2. CASE Running.pc # "command"
        BY <3>1, <3>2, <4>2 DEF Caller, Uniform, Counted, Covered
      <4>. QED
        BY <4>1, <4>2
    <3>4. PICK j \in DOMAIN runs : runs[j].pc = "command"
      BY <3>3
    <3>5. j \in DOMAIN runs' /\ j < k
      BY <1>1, <1>4, <2>2
    <3>. QED
      BY <1>4, <3>4, <3>5
  <2>. QED
    BY <1>5, <2>1, <2>2
<1>7. budget # {} => NoneStopped'
  <2>. SUFFICES ASSUME budget # {}, NEW k \in DOMAIN runs' PROVE ~InDebugger(runs'[k])
    BY DEF NoneStopped, InDebugger
  <2>. QED
    BY <1>2, <1>4, <1>5 DEF Counted, Counts, NoneStopped, InDebugger
<1>8. RunStops'
  <2>. SUFFICES ASSUME NEW k \in DOMAIN runs', WillFire(runs'[k]),
                       runs'[k].eb \in Debuggable
                PROVE  \A n \in budget : n > 0
    BY <1>3 DEF RunStops, WillFire
  <2>. QED
    BY <1>2, <1>4, <1>5 DEF Counted, Counts, RunStops, WillFire
<1>. QED
  BY <1>3, <1>6, <1>7, <1>8 DEF Counted, Counts

\* Where only blocks with debugging run, RUN counts their firings.
LEMMA CountedNext ==
  ASSUME Uniform, Inv, Counted, [Next]_vars
  PROVE  Counted'
<1>1. CASE ChangeCommand
  <2>1. /\ Len(runs) \in Nat /\ DOMAIN runs = 1 .. Len(runs)
        /\ DOMAIN runs' = DOMAIN runs
    BY <1>1, RunsTyped, ChangeShape DEF Inv
  <2>2. budget' = {} /\ firing' = firing /\ firing \in Nat \ {0}
    BY <1>1, ChangeShape
       DEF Counted, Counts, NoneStopped, ChangeCommand, Running
  <2>3. Covered'
    <3>. SUFFICES ASSUME NEW k \in DOMAIN runs, runs'[k].eb \notin Debuggable
                  PROVE  \E j \in DOMAIN runs : j < k /\ runs'[j].pc = "command"
      BY <2>1 DEF Covered
    <3>1. runs[k].eb \notin Debuggable
      <4>1. k < Len(runs) \/ k = Len(runs)
        BY <2>1
      <4>. QED
        BY <1>1, <4>1, ChangeShape DEF Running
    <3>2. PICK j \in DOMAIN runs : j < k /\ runs[j].pc = "command"
      BY <3>1 DEF Counted, Covered
    <3>3. j < Len(runs)
      BY <2>1, <3>2
    <3>. QED
      BY <1>1, <3>2, <3>3, ChangeShape
  <2>. QED
    BY <2>2, <2>3, StoppedCounts DEF Counted
<1>2. CASE (Commands /\ ~ChangeCommand) \/ ChangeCommandReturns
  BY <1>2, CommandShape, ExecutedCounted
<1>3. CASE CodeBreaks \/ UNCHANGED vars
  <2>1. UNCHANGED <<runs, firing, runCount, budget>>
    BY <1>3 DEF CodeBreaks, vars
  <2>2. (NoneStopped => NoneStopped') /\ (RunStops => RunStops') /\ (Covered => Covered')
    BY <2>1 DEF NoneStopped, InDebugger, RunStops, WillFire, Covered
  <2>. QED
    BY <2>1, <2>2 DEF Counted, Counts
<1>4. CASE OnEntryReturned
  <2>1. PICK pc \in {"exit", "recognize"} : Goto(pc)
    BY <1>4 DEF OnEntryReturned
  <2>2. runs # << >> /\ ~InDebugger(Running) /\ UNCHANGED <<firing, runCount, budget>>
    BY <1>4 DEF OnEntryReturned, At, InDebugger
  <2>. QED
    BY <2>1, <2>2, GotoCounted DEF Code
<1>5. CASE FireNothing
  <2>1. runs # << >> /\ ~InDebugger(Running) /\ UNCHANGED <<firing, runCount, budget>>
    BY <1>5 DEF FireNothing, At, InDebugger
  <2>. QED
    BY <1>5, <2>1, GotoCounted DEF FireNothing
<1>6. CASE CodeReturned
  <2>1. PICK pc \in Code \cup {"recognize"} : Goto(pc)
    BY <1>6 DEF CodeReturned, Code
  <2>2. runs # << >> /\ ~InDebugger(Running) /\ UNCHANGED <<firing, runCount, budget>>
    BY <1>6 DEF CodeReturned, At, InDebugger
  <2>. QED
    BY <2>1, <2>2, GotoCounted
<1>7. CASE Fire
  <2>. DEFINE r == [Running EXCEPT !.pc = "rhs", !.cycle = @ + 1]
  <2>1. /\ Len(runs) \in Nat /\ DOMAIN runs = 1 .. Len(runs) /\ Len(runs) \in DOMAIN runs
        /\ runs \in Seq(Run) /\ Running = runs[Len(runs)] /\ Running \in Run
        /\ runs # << >> /\ WillFire(Running)
    BY <1>7, RunsTyped DEF Inv, Types, Fire, Running
  <2>2. r.eb = Running.eb /\ r.pc = "rhs"
    BY <2>1 DEF Run
  <2>3. runs' = [runs EXCEPT ![Len(runs)] = r]
    BY <1>7 DEF Fire, Running
  <2>4. firing' = firing + 1 /\ runCount' = runCount /\ budget' = {n - 1 : n \in budget}
    BY <1>7 DEF Fire
  <2>. HIDE DEF r
  <2>5. /\ DOMAIN runs' = DOMAIN runs /\ runs'[Len(runs)] = r
        /\ \A j \in DOMAIN runs : j < Len(runs) => runs'[j] = runs[j]
    BY <2>1, <2>3
  <2>6. \A k \in DOMAIN runs : k < Len(runs) \/ k = Len(runs)
    BY <2>1
  <2>7. \A n \in budget : n \in Nat /\ n > 0 /\ runCount = firing + n
    BY <2>1, NoneStoppedAll DEF Counted, Counts, RunStops
  <2>8. budget' \in SUBSET Nat /\ \A n \in budget' : runCount' = firing' + n
    BY <2>4, <2>7 DEF Counted, Counts
  <2>9. budget' # {} => NoneStopped'
    <3>1. budget' # {} => NoneStopped
      BY <2>4 DEF Counted, Counts
    <3>. QED
      BY <2>2, <2>5, <2>6, <3>1 DEF NoneStopped, InDebugger
  <2>10. RunStops'
    <3>1. \A k \in DOMAIN runs' : ~WillFire(runs'[k])
      BY <2>2, <2>5, <2>6, OthersWait DEF WillFire
    <3>. QED
      BY <3>1 DEF RunStops, WillFire
  <2>11. Covered'
    BY <2>1, <2>2, <2>3, ReplacedCovered DEF Counted
  <2>12. firing' \in Nat \ {0}
    BY <2>4 DEF Counted, Counts
  <2>. QED
    BY <2>8, <2>9, <2>10, <2>11, <2>12 DEF Counted, Counts
<1>8. CASE Recognize
  <2>. PICK w \in Rules \cup {NoRule} :
         LET why == break \cup RunBreak \cup RuleBreak(w)
             next == IF w = NoRule THEN "empty" ELSE "fire"
         IN  IF Debugged /\ why # {}
             THEN Prompt(Chosen(w), why)
             ELSE /\ runs' = [runs EXCEPT ![Len(runs)] = [Chosen(w) EXCEPT !.pc = next]]
                  /\ UNCHANGED <<dbg, break, ebreakAll, hooks, firing, runCount, budget>>
    BY <1>8 DEF Recognize
  <2>. DEFINE why == break \cup RunBreak \cup RuleBreak(w)
              next == IF w = NoRule THEN "empty" ELSE "fire"
              r == [Chosen(w) EXCEPT !.pc = next]
  <2>1. /\ Running \in Run /\ runs # << >> /\ Running.pc = "recognize"
        /\ ~InDebugger(Running)
    BY <1>8, RunsTyped DEF Inv, Recognize, At, InDebugger
  <2>2. Chosen(w) \in Run /\ Chosen(w).eb = Running.eb
    BY <2>1 DEF Chosen, Run
  <2>3. CASE Debugged /\ why # {}
    <3>1. Prompt(Chosen(w), why)
      BY <2>3
    <3>. HIDE DEF why
    <3>. QED
      BY <2>1, <2>2, <3>1, PromptCounted
  <2>4. CASE ~(Debugged /\ why # {})
    <3>1. Debugged => runCount = 0 \/ runCount # firing
      BY <2>4 DEF RunBreak
    <3>2. runs' = [runs EXCEPT ![Len(runs)] = r] /\ UNCHANGED <<firing, runCount, budget>>
      BY <2>4
    <3>3. next \in {"empty", "fire"}
      OBVIOUS
    <3>. HIDE DEF why, next
    <3>4. r.eb = Running.eb /\ r.pc = next
      BY <2>2 DEF Run
    <3>5. Debugged => \A n \in budget : n > 0
      <4>. SUFFICES ASSUME Debugged, NEW n \in budget PROVE n > 0
        OBVIOUS
      <4>1. n \in Nat /\ firing \in Nat \ {0} /\ runCount = firing + n
        BY DEF Counted, Counts
      <4>. QED
        BY <3>1, <4>1
    <3>. HIDE DEF r
    <3>6. ~InDebugger(r)
      BY <3>3, <3>4 DEF InDebugger
    <3>7. Counts'
      BY <2>1, <3>2, <3>4, <3>5, <3>6, SteppedCounts DEF Counted
    <3>8. Covered'
      BY <2>1, <3>2, <3>4, ReplacedCovered DEF Counted
    <3>. QED
      BY <3>7, <3>8 DEF Counted
  <2>. QED
    BY <2>3, <2>4
<1>9. CASE OnExitReturned
  <2>1. Running \in Run /\ runs # << >>
    BY <1>9, RunsTyped DEF Inv, OnExitReturned, At
  <2>2. CASE Debugged /\ BreaksAt(Running.eb)
    <3>. DEFINE r == [Running EXCEPT !.leaving = TRUE]
    <3>1. r \in Run /\ r.eb = Running.eb
      BY <2>1 DEF Run
    <3>2. Prompt(r, break \cup {"exit"})
      BY <1>9, <2>2 DEF OnExitReturned
    <3>. HIDE DEF r
    <3>. QED
      BY <2>1, <3>1, <3>2, PromptCounted
  <2>3. CASE ~(Debugged /\ BreaksAt(Running.eb))
    <3>1. runs' = SubSeq(runs, 1, Len(runs) - 1) /\ UNCHANGED <<firing, runCount, budget>>
      BY <1>9, <2>3 DEF OnExitReturned
    <3>2. \A j \in DOMAIN runs' : j \in DOMAIN runs /\ runs'[j] = runs[j]
      <4>1. Len(runs) \in Nat \ {0} /\ DOMAIN runs = 1 .. Len(runs) /\ runs \in Seq(Run)
        BY <2>1, RunsTyped DEF Inv, Types
      <4>. QED
        BY <3>1, <4>1
    <3>3. (NoneStopped => NoneStopped') /\ (RunStops => RunStops')
      BY <3>1, <3>2 DEF NoneStopped, InDebugger, RunStops, WillFire
    <3>. QED
      BY <2>1, <3>1, <3>3, PoppedCovered DEF Counted, Counts
  <2>. QED
    BY <2>2, <2>3
<1>. QED
  BY <1>1, <1>2, <1>3, <1>4, <1>5, <1>6, <1>7, <1>8, <1>9, EnterCounted DEF Next

\* A run put off because of changes stops in the debugger, which alone lifts the
\* status that keeps it from firing (rac.c:372, dbg.c:378).
THEOREM SpinsNever ==
  ASSUME Quiet
  PROVE  Spec => []NeverSpins
<1>1. Init => RoundsSound
  BY DEF Init, RoundsSound
<1>2. Inv /\ RoundsSound /\ [Next]_vars => RoundsSound'
  BY RoundsNext
<1>3. RoundsSound => NeverSpins
  BY DEF RoundsSound, StatusSound, NeverSpins
<1>. QED
  BY <1>1, <1>2, <1>3, DebuggerInvariant, PTL DEF Spec

\* Where entry blocks with debugging call only their like, the debugger stops
\* after as many firings as RUN was told (rac.c:272, dbg.c:1724).
THEOREM StopsAfterCount ==
  ASSUME Quiet, Uniform
  PROVE  Spec => []RunStops
<1>1. Init => Counted
  BY DEF Init, Counted, Counts, Covered, RunStops
<1>2. Inv /\ Counted /\ [Next]_vars => Counted'
  BY CountedNext
<1>3. Counted => RunStops
  BY DEF Counted, Counts
<1>. QED
  BY <1>1, <1>2, <1>3, DebuggerInvariant, PTL DEF Spec
=============================================================================
