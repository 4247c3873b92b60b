-------------------------- MODULE CommandExec_proofs --------------------------
(* The inductive invariant of CommandExec and the theorems that follow.     *)
EXTENDS CommandExec, TLAPS

BeforeStart == {"idle", "diag", "create", "write", "start"}

(* Before cmd.Run has started the shell there is nothing to cancel or to    *)
(* cut; Cancel and the kill belong to "run", the end of the pipe to the     *)
(* step out of "drain", and the result of Run says what happened in both.   *)
RunInv(c) ==
    /\ at[c] \in BeforeStart => proc[c] = "none" /\ ~killed[c] /\ ~cut[c]
    /\ at[c] \in {"run", "drain"} => ~cut[c]
    /\ at[c] = "drain" => ~Live(c) /\ (failed[c] <=> killed[c] \/ proc[c] # "exit0")
    /\ at[c] = "classify" /\ ~failed[c] => proc[c] = "exit0" /\ ~killed[c] /\ ~cut[c]

(* A result is final: no process or pipe of its command changes it.         *)
VerdictInv(c) ==
    verdict[c] = "completed" =>
        /\ at[c] \in {"cleanup", "done", "lost"}
        /\ proc[c] = "exit0" /\ ~killed[c] /\ ~cut[c]

ExecInv == \A c \in Commands : RunInv(c) /\ VerdictInv(c)

(* The inductive invariant.                                                 *)
IInv == TypeOK /\ ExecInv /\ ScriptAccounted
-----------------------------------------------------------------------------
(* Every step keeps the types, and only a command that waits for the        *)
(* diagnostics is in diagOnce.Do.                                           *)
LEMMA TypeStep ==
  ASSUME TypeOK, [Next]_vars
  PROVE  TypeOK'
<1> USE CommandsAssumption, ExecBounds DEF TypeOK, Places, Goto, Return, InExecute, Live,
      ctxVars, diagVars, runVars, fileVars, vars
<1>1. ASSUME NEW c \in Commands, BadCommands(c) PROVE TypeOK'
  BY <1>1 DEF BadCommands
<1>2. ASSUME NEW c \in Commands, Begin(c) PROVE TypeOK'
  BY <1>2 DEF Begin
<1>3. ASSUME NEW c \in Commands, DiagEnter(c) PROVE TypeOK'
  BY <1>3 DEF DiagEnter
<1>4. ASSUME NEW c \in Commands, DiagFails(c) PROVE TypeOK'
  BY <1>4 DEF DiagFails
<1>5. ASSUME NEW c \in Commands, DiagCached(c) PROVE TypeOK'
  BY <1>5 DEF DiagCached
<1>6. ASSUME NEW c \in Commands, DiagAnswers(c) PROVE TypeOK'
  BY <1>6 DEF DiagAnswers
<1>7. ASSUME NEW c \in Commands, CreateFails(c) PROVE TypeOK'
  BY <1>7 DEF CreateFails
<1>8. ASSUME NEW c \in Commands, Create(c) PROVE TypeOK'
  BY <1>8 DEF Create
<1>9. ASSUME NEW c \in Commands, WriteFails(c) PROVE TypeOK'
  BY <1>9 DEF WriteFails
<1>10. ASSUME NEW c \in Commands, Write(c) PROVE TypeOK'
  BY <1>10 DEF Write
<1>11. ASSUME NEW c \in Commands, StartFails(c) PROVE TypeOK'
  BY <1>11 DEF StartFails
<1>12. ASSUME NEW c \in Commands, Start(c) PROVE TypeOK'
  BY <1>12 DEF Start
<1>13. ASSUME NEW c \in Commands, Cancel(c) PROVE TypeOK'
  BY <1>13 DEF Cancel
<1>14. ASSUME NEW c \in Commands, Reap(c) PROVE TypeOK'
  BY <1>14 DEF Reap
<1>15. ASSUME NEW c \in Commands, OutputEnds(c) PROVE TypeOK'
  BY <1>15 DEF OutputEnds
<1>16. ASSUME NEW c \in Commands, WaitDelayElapses(c) PROVE TypeOK'
  BY <1>16 DEF WaitDelayElapses, HeldPipe
<1>17. ASSUME NEW c \in Commands, Classify(c) PROVE TypeOK'
  BY <1>17 DEF Classify, TimedOut, Succeeded
<1>18. ASSUME NEW c \in Commands, Cleanup(c) PROVE TypeOK'
  <2>1. at' \in [Commands -> Places] /\ script' \in [Commands -> {"none", "fresh", "old"}]
    BY <1>18 DEF Cleanup
  <2>2. /\ ended' \in [Commands -> {"nil", "deadline", "canceled"}]
        /\ failed' \in [Commands -> BOOLEAN]
    BY <1>18 DEF Cleanup, EndContext
  <2>3. \A d \in Commands : once' = d => at'[d] = "diag"
    BY <1>18 DEF Cleanup
  <2>4. unremoved' \subseteq Commands
    BY <1>18 DEF Cleanup
  <2>5. UNCHANGED <<ctxVars, diagVars, proc, child, killed, cut, verdict>>
    BY <1>18 DEF Cleanup
  <2> QED BY <2>1, <2>2, <2>3, <2>4, <2>5
<1>19. ASSUME NEW c \in Commands, CleanupFails(c) PROVE TypeOK'
  <2>1. at' \in [Commands -> Places] /\ script' \in [Commands -> {"none", "fresh", "old"}]
    BY <1>19 DEF CleanupFails
  <2>2. /\ ended' \in [Commands -> {"nil", "deadline", "canceled"}]
        /\ failed' \in [Commands -> BOOLEAN]
    BY <1>19 DEF CleanupFails, EndContext
  <2>3. \A d \in Commands : once' = d => at'[d] = "diag"
    BY <1>19 DEF CleanupFails
  <2>4. unremoved' \subseteq Commands
    BY <1>19 DEF CleanupFails
  <2>5. UNCHANGED <<ctxVars, diagVars, proc, child, killed, cut, verdict>>
    BY <1>19 DEF CleanupFails
  <2> QED BY <2>1, <2>2, <2>3, <2>4, <2>5
<1>20. ASSUME NEW c \in Commands, DeadlinePasses(c) PROVE TypeOK'
  BY <1>20 DEF DeadlinePasses
<1>21. ASSUME NEW c \in Commands, Ages(c) PROVE TypeOK'
  BY <1>21 DEF Ages
<1>22. ASSUME NEW c \in Commands, ShellForks(c) PROVE TypeOK'
  BY <1>22 DEF ShellForks
<1>23. ASSUME NEW c \in Commands, ShellExits(c) PROVE TypeOK'
  <2>1. proc' \in [Commands -> {"none", "running", "exit0", "exit1", "killed"}]
    BY <1>23 DEF ShellExits
  <2> QED BY <1>23, <2>1 DEF ShellExits
<1>24. ASSUME NEW c \in Commands, ChildExits(c) PROVE TypeOK'
  BY <1>24 DEF ChildExits
<1>25. CASE CancelCycle
  BY <1>25 DEF CancelCycle
<1>26. CASE NewCycle
  <2>1. cycle' \in 0..MaxCycles
    BY <1>26 DEF NewCycle
  <2> QED BY <1>26, <2>1 DEF NewCycle
<1>27. CASE CrashAndSweep
  <2>1. cycle' \in 0..MaxCycles
    BY <1>27 DEF CrashAndSweep
  <2>2. at' \in [Commands -> Places]
    BY <1>27 DEF CrashAndSweep
  <2>3. script' \in [Commands -> {"none", "fresh", "old"}]
    BY <1>27 DEF CrashAndSweep, Stale
  <2>4. /\ ended' \in [Commands -> {"nil", "deadline", "canceled"}]
        /\ failed' \in [Commands -> BOOLEAN]
    BY <1>27 DEF CrashAndSweep, EndContext
  <2>5. \A d \in Commands : once' # d
    BY <1>27 DEF CrashAndSweep
  <2> QED BY <1>27, <2>1, <2>2, <2>3, <2>4, <2>5 DEF CrashAndSweep
<1>28. CASE UNCHANGED vars
  BY <1>28
<1> QED
  BY <1>1, <1>2, <1>3, <1>4, <1>5, <1>6, <1>7, <1>8, <1>9, <1>10, <1>11, <1>12,
     <1>13, <1>14, <1>15, <1>16, <1>17, <1>18, <1>19, <1>20, <1>21, <1>22,
     <1>23, <1>24, <1>25, <1>26, <1>27, <1>28
  DEF Next, Environment, Step

(* Every step keeps what Run and the result say about the process, for the  *)
(* command that takes it and for the others.                                *)
LEMMA ExecStep ==
  ASSUME TypeOK, ExecInv, [Next]_vars
  PROVE  ExecInv'
<1> SUFFICES ASSUME NEW d \in Commands PROVE (RunInv(d) /\ VerdictInv(d))'
  BY DEF ExecInv
<1> USE DEF TypeOK, ExecInv, RunInv, VerdictInv, BeforeStart, Goto, Return, InExecute, Live,
      ctxVars, diagVars, runVars, fileVars, vars
<1>1. ASSUME NEW c \in Commands, BadCommands(c) PROVE (RunInv(d) /\ VerdictInv(d))'
  BY <1>1 DEF BadCommands
<1>2. ASSUME NEW c \in Commands, Begin(c) PROVE (RunInv(d) /\ VerdictInv(d))'
  BY <1>2 DEF Begin
<1>3. ASSUME NEW c \in Commands, DiagEnter(c) PROVE (RunInv(d) /\ VerdictInv(d))'
  BY <1>3 DEF DiagEnter
<1>4. ASSUME NEW c \in Commands, DiagFails(c) PROVE (RunInv(d) /\ VerdictInv(d))'
  BY <1>4 DEF DiagFails
<1>5. ASSUME NEW c \in Commands, DiagCached(c) PROVE (RunInv(d) /\ VerdictInv(d))'
  BY <1>5 DEF DiagCached
<1>6. ASSUME NEW c \in Commands, DiagAnswers(c) PROVE (RunInv(d) /\ VerdictInv(d))'
  BY <1>6 DEF DiagAnswers
<1>7. ASSUME NEW c \in Commands, CreateFails(c) PROVE (RunInv(d) /\ VerdictInv(d))'
  BY <1>7 DEF CreateFails
<1>8. ASSUME NEW c \in Commands, Create(c) PROVE (RunInv(d) /\ VerdictInv(d))'
  BY <1>8 DEF Create
<1>9. ASSUME NEW c \in Commands, WriteFails(c) PROVE (RunInv(d) /\ VerdictInv(d))'
  BY <1>9 DEF WriteFails
<1>10. ASSUME NEW c \in Commands, Write(c) PROVE (RunInv(d) /\ VerdictInv(d))'
  BY <1>10 DEF Write
<1>11. ASSUME NEW c \in Commands, StartFails(c) PROVE (RunInv(d) /\ VerdictInv(d))'
  BY <1>11 DEF StartFails
<1>12. ASSUME NEW c \in Commands, Start(c) PROVE (RunInv(d) /\ VerdictInv(d))'
  BY <1>12 DEF Start
<1>13. ASSUME NEW c \in Commands, Cancel(c) PROVE (RunInv(d) /\ VerdictInv(d))'
  BY <1>13 DEF Cancel
<1>14. ASSUME NEW c \in Commands, Reap(c) PROVE (RunInv(d) /\ VerdictInv(d))'
  <2>1. /\ at[c] = "run" /\ ~Live(c) /\ at' = [at EXCEPT ![c] = "drain"]
        /\ UNCHANGED <<proc, killed, cut, verdict>>
    BY <1>14 DEF Reap
  <2>2. CASE d = c
    <3>1. failed'[c] <=> killed[c] \/ proc[c] # "exit0"
      BY <1>14 DEF Reap
    <3> QED BY <2>1, <2>2, <3>1
  <2>3. CASE d # c
    <3>1. failed'[d] = failed[d]
      BY <1>14, <2>3 DEF Reap
    <3> QED BY <2>1, <2>3, <3>1
  <2> QED BY <2>2, <2>3
<1>15. ASSUME NEW c \in Commands, OutputEnds(c) PROVE (RunInv(d) /\ VerdictInv(d))'
  BY <1>15 DEF OutputEnds
<1>16. ASSUME NEW c \in Commands, WaitDelayElapses(c) PROVE (RunInv(d) /\ VerdictInv(d))'
  BY <1>16 DEF WaitDelayElapses, HeldPipe
<1>17. ASSUME NEW c \in Commands, Classify(c) PROVE (RunInv(d) /\ VerdictInv(d))'
  BY <1>17 DEF Classify, TimedOut, Succeeded
<1>18. ASSUME NEW c \in Commands, Cleanup(c) PROVE (RunInv(d) /\ VerdictInv(d))'
  BY <1>18 DEF Cleanup, EndContext
<1>19. ASSUME NEW c \in Commands, CleanupFails(c) PROVE (RunInv(d) /\ VerdictInv(d))'
  BY <1>19 DEF CleanupFails, EndContext
<1>20. ASSUME NEW c \in Commands, DeadlinePasses(c) PROVE (RunInv(d) /\ VerdictInv(d))'
  BY <1>20 DEF DeadlinePasses
<1>21. ASSUME NEW c \in Commands, Ages(c) PROVE (RunInv(d) /\ VerdictInv(d))'
  BY <1>21 DEF Ages
<1>22. ASSUME NEW c \in Commands, ShellForks(c) PROVE (RunInv(d) /\ VerdictInv(d))'
  BY <1>22 DEF ShellForks
<1>23. ASSUME NEW c \in Commands, ShellExits(c) PROVE (RunInv(d) /\ VerdictInv(d))'
  BY <1>23 DEF ShellExits
<1>24. ASSUME NEW c \in Commands, ChildExits(c) PROVE (RunInv(d) /\ VerdictInv(d))'
  BY <1>24 DEF ChildExits
<1>25. CASE CancelCycle
  BY <1>25 DEF CancelCycle
<1>26. CASE NewCycle
  BY <1>26 DEF NewCycle
<1>27. CASE CrashAndSweep
  BY <1>27 DEF CrashAndSweep, EndContext, Stale
<1>28. CASE UNCHANGED vars
  BY <1>28
<1> QED
  BY <1>1, <1>2, <1>3, <1>4, <1>5, <1>6, <1>7, <1>8, <1>9, <1>10, <1>11, <1>12,
     <1>13, <1>14, <1>15, <1>16, <1>17, <1>18, <1>19, <1>20, <1>21, <1>22,
     <1>23, <1>24, <1>25, <1>26, <1>27, <1>28
  DEF Next, Environment, Step

(* Every step that leaves the places where a script may be removes it or    *)
(* records that it could not.                                               *)
LEMMA ScriptStep ==
  ASSUME TypeOK, ScriptAccounted, [Next]_vars
  PROVE  ScriptAccounted'
<1> DEFINE Kept(d) == script[d] # "none" =>
        \/ at[d] \in {"write", "start", "run", "drain", "classify", "cleanup", "lost"}
        \/ d \in unremoved
<1> SUFFICES ASSUME NEW d \in Commands, Kept(d) PROVE Kept(d)'
  BY DEF ScriptAccounted
<1> USE DEF TypeOK, Goto, Return, InExecute, Live, ctxVars, diagVars, runVars, fileVars, vars
<1>1. ASSUME NEW c \in Commands, BadCommands(c) PROVE Kept(d)'
  BY <1>1 DEF BadCommands
<1>2. ASSUME NEW c \in Commands, Begin(c) PROVE Kept(d)'
  BY <1>2 DEF Begin
<1>3. ASSUME NEW c \in Commands, DiagEnter(c) PROVE Kept(d)'
  BY <1>3 DEF DiagEnter
<1>4. ASSUME NEW c \in Commands, DiagFails(c) PROVE Kept(d)'
  BY <1>4 DEF DiagFails
<1>5. ASSUME NEW c \in Commands, DiagCached(c) PROVE Kept(d)'
  BY <1>5 DEF DiagCached
<1>6. ASSUME NEW c \in Commands, DiagAnswers(c) PROVE Kept(d)'
  BY <1>6 DEF DiagAnswers
<1>7. ASSUME NEW c \in Commands, CreateFails(c) PROVE Kept(d)'
  BY <1>7 DEF CreateFails
<1>8. ASSUME NEW c \in Commands, Create(c) PROVE Kept(d)'
  BY <1>8 DEF Create
<1>9. ASSUME NEW c \in Commands, WriteFails(c) PROVE Kept(d)'
  BY <1>9 DEF WriteFails
<1>10. ASSUME NEW c \in Commands, Write(c) PROVE Kept(d)'
  BY <1>10 DEF Write
<1>11. ASSUME NEW c \in Commands, StartFails(c) PROVE Kept(d)'
  BY <1>11 DEF StartFails
<1>12. ASSUME NEW c \in Commands, Start(c) PROVE Kept(d)'
  BY <1>12 DEF Start
<1>13. ASSUME NEW c \in Commands, Cancel(c) PROVE Kept(d)'
  BY <1>13 DEF Cancel
<1>14. ASSUME NEW c \in Commands, Reap(c) PROVE Kept(d)'
  BY <1>14 DEF Reap
<1>15. ASSUME NEW c \in Commands, OutputEnds(c) PROVE Kept(d)'
  BY <1>15 DEF OutputEnds
<1>16. ASSUME NEW c \in Commands, WaitDelayElapses(c) PROVE Kept(d)'
  BY <1>16 DEF WaitDelayElapses, HeldPipe
<1>17. ASSUME NEW c \in Commands, Classify(c) PROVE Kept(d)'
  BY <1>17 DEF Classify, TimedOut, Succeeded
<1>18. ASSUME NEW c \in Commands, Cleanup(c) PROVE Kept(d)'
  BY <1>18 DEF Cleanup, EndContext
<1>19. ASSUME NEW c \in Commands, CleanupFails(c) PROVE Kept(d)'
  BY <1>19 DEF CleanupFails, EndContext
<1>20. ASSUME NEW c \in Commands, DeadlinePasses(c) PROVE Kept(d)'
  BY <1>20 DEF DeadlinePasses
<1>21. ASSUME NEW c \in Commands, Ages(c) PROVE Kept(d)'
  BY <1>21 DEF Ages
<1>22. ASSUME NEW c \in Commands, ShellForks(c) PROVE Kept(d)'
  BY <1>22 DEF ShellForks
<1>23. ASSUME NEW c \in Commands, ShellExits(c) PROVE Kept(d)'
  BY <1>23 DEF ShellExits
<1>24. ASSUME NEW c \in Commands, ChildExits(c) PROVE Kept(d)'
  BY <1>24 DEF ChildExits
<1>25. CASE CancelCycle
  BY <1>25 DEF CancelCycle
<1>26. CASE NewCycle
  BY <1>26 DEF NewCycle
<1>27. CASE CrashAndSweep
  BY <1>27 DEF CrashAndSweep, EndContext, Stale
<1>28. CASE UNCHANGED vars
  BY <1>28
<1> QED
  BY <1>1, <1>2, <1>3, <1>4, <1>5, <1>6, <1>7, <1>8, <1>9, <1>10, <1>11, <1>12,
     <1>13, <1>14, <1>15, <1>16, <1>17, <1>18, <1>19, <1>20, <1>21, <1>22,
     <1>23, <1>24, <1>25, <1>26, <1>27, <1>28
  DEF Next, Environment, Step
-----------------------------------------------------------------------------
(* The initial states satisfy the inductive invariant.                      *)
LEMMA InitInv == Init => IInv
<1> SUFFICES ASSUME Init PROVE IInv
  OBVIOUS
<1>1. TypeOK
  <2>1. /\ at \in [Commands -> Places]
        /\ proc \in [Commands -> {"none", "running", "exit0", "exit1", "killed"}]
        /\ child \in [Commands -> BOOLEAN] /\ killed \in [Commands -> BOOLEAN]
        /\ failed \in [Commands -> BOOLEAN] /\ cut \in [Commands -> BOOLEAN]
    BY DEF Init, Places
  <2>2. /\ ended \in [Commands -> {"nil", "deadline", "canceled"}]
        /\ script \in [Commands -> {"none", "fresh", "old"}]
        /\ verdict \in [Commands -> {"none", "error", "completed", "failed", "timedout"}]
    BY DEF Init
  <2>3. cycle \in 0..MaxCycles /\ once = "unset" /\ \A c \in Commands : once # c
    BY CommandsAssumption, ExecBounds DEF Init
  <2> QED BY <2>1, <2>2, <2>3 DEF Init, TypeOK
<1>2. ExecInv
  BY DEF Init, ExecInv, RunInv, VerdictInv, BeforeStart
<1>3. ScriptAccounted
  BY DEF Init, ScriptAccounted
<1> QED BY <1>1, <1>2, <1>3 DEF IInv

(* The invariant is inductive, and so holds in every reachable state.       *)
THEOREM Invariance == Spec => []IInv
<1>1. IInv /\ [Next]_vars => IInv'
  BY TypeStep, ExecStep, ScriptStep DEF IInv
<1> QED BY <1>1, InitInv, PTL DEF Spec

(* Type correctness, and that a command in diagOnce.Do is waiting for its   *)
(* diagnostics.                                                             *)
THEOREM TypeCorrect == Spec => []TypeOK
<1>1. IInv => TypeOK
  BY DEF IInv
<1> QED BY <1>1, Invariance, PTL

(* However many commands run beside each other and whenever the cycle is    *)
(* cancelled, the deadline passes or the agent crashes: a command is        *)
(* reported as completed only if its shell exited with 0 by itself and its  *)
(* whole output was read.                                                   *)
THEOREM CompletedGenuinely == Spec => []CompletedIsGenuine
<1>1. IInv => CompletedIsGenuine
  BY DEF IInv, ExecInv, VerdictInv, CompletedIsGenuine
<1> QED BY <1>1, Invariance, PTL

(* Every exit path of Execute removes the script; what is left on disk is   *)
(* of a crash or of a removal that failed.                                  *)
THEOREM ScriptsRemoved == Spec => []ScriptAccounted
<1>1. IInv => ScriptAccounted
  BY DEF IInv
<1> QED BY <1>1, Invariance, PTL
=============================================================================
