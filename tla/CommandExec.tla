---------------------------- MODULE CommandExec ----------------------------
(***************************************************************************)
(* One command on a worker: baseExecutor.Execute                           *)
(* (internal/interpreter/base_executor.go), the process group it is given  *)
(* (proc_unix.go, proc_windows.go), the memoized diagnostics, and the      *)
(* sweep of left scripts at the start of the agent (script_sweep.go).      *)
(*                                                                         *)
(* A command stands for one message with commands.  Each runs on a worker  *)
(* of its own, so all of them may be in Execute at the same time.  os/exec *)
(* and the processes are external and modelled by what Execute relies on:  *)
(* when the context ends while the shell is not reaped Cancel is called,   *)
(* Wait first reaps the shell and then joins the copiers of its output     *)
(* for as long as a child holds the pipe, at most WaitDelay.               *)
(***************************************************************************)
EXTENDS Naturals

CONSTANTS
    Commands,     \* the commands that are handed to the executor
    Debug,        \* logger.IsDebug(): the diagnostics are asked for
    Limited,      \* command_timeout_seconds is set to a positive value
    MaxCycles     \* bound on the connection cycles after the first one; a
                  \* crash of the agent starts one too

ASSUME CommandsAssumption == Commands \cap {"unset", "done"} = {}
ASSUME ExecBounds == MaxCycles \in Nat /\ Debug \in BOOLEAN
                     /\ Limited \in BOOLEAN

VARIABLES
    unix,       \* the build: Cancel kills the group, or only the shell
    cancelled,  \* the context of the connection cycle is done
    cycle,      \* connection cycles so far
    once,       \* diagOnce: "unset", "done", or the command that is in Do
    diag,       \* what diagOnce has cached: "none", "values" or "empty"
    at,         \* per command: where its Execute stands
    proc,       \* per command: its shell
    child,      \* a process the shell left behind runs and holds the pipe
    ended,      \* execCtx.Err(): "nil", "deadline" or "canceled"
    killed,     \* Cancel was called and succeeded, Wait reports it
    failed,     \* cmd.Run has returned an error
    cut,        \* the pipe was closed by WaitDelay before its end
    script,     \* its script file: none, fresh, or older than 24 h
    unremoved,  \* history: commands whose own os.Remove failed
    verdict     \* per command: what Execute returned

ctxVars  == <<unix, cancelled, cycle>>
diagVars == <<once, diag>>
runVars  == <<proc, child, ended, killed, failed, cut>>
fileVars == <<script, unremoved>>
vars     == <<ctxVars, diagVars, at, runVars, fileVars, verdict>>

Places == {"idle", "diag", "create", "write", "start", "run", "drain", "classify",
           "cleanup", "done", "lost"}

TypeOK ==
    /\ unix \in BOOLEAN /\ cancelled \in BOOLEAN
    /\ cycle \in 0..MaxCycles
    /\ once \in {"unset", "done"} \cup Commands
    /\ \A c \in Commands : once = c => at[c] = "diag"
    /\ diag \in {"none", "values", "empty"}
    /\ at \in [Commands -> Places]
    /\ proc \in [Commands -> {"none", "running", "exit0", "exit1", "killed"}]
    /\ child \in [Commands -> BOOLEAN] /\ killed \in [Commands -> BOOLEAN]
    /\ failed \in [Commands -> BOOLEAN] /\ cut \in [Commands -> BOOLEAN]
    /\ ended \in [Commands -> {"nil", "deadline", "canceled"}]
    /\ script \in [Commands -> {"none", "fresh", "old"}]
    /\ unremoved \subseteq Commands
    /\ verdict \in [Commands -> {"none", "error", "completed", "failed", "timedout"}]
-----------------------------------------------------------------------------
Goto(c, place) == at' = [at EXCEPT ![c] = place]
Return(c, r)   == verdict' = [verdict EXCEPT ![c] = r]

InExecute(c) == at[c] \notin {"idle", "done", "lost"}
Live(c)      == proc[c] = "running"

Init ==
    /\ unix \in BOOLEAN /\ cancelled = FALSE
    /\ cycle = 0
    /\ once = "unset" /\ diag = "none"
    /\ at = [c \in Commands |-> "idle"]
    /\ proc = [c \in Commands |-> "none"]
    /\ child = [c \in Commands |-> FALSE] /\ killed = [c \in Commands |-> FALSE]
    /\ failed = [c \in Commands |-> FALSE] /\ cut = [c \in Commands |-> FALSE]
    /\ ended = [c \in Commands |-> "nil"]
    /\ script = [c \in Commands |-> "none"] /\ unremoved = {}
    /\ verdict = [c \in Commands |-> "none"]
-----------------------------------------------------------------------------
(* The cycle's context. *)

CancelCycle ==
    /\ ~cancelled
    /\ cancelled' = TRUE
    /\ ended' = [c \in Commands |-> IF at[c] \in {"start", "run", "drain", "classify"}
                                       /\ ended[c] = "nil"
                                    THEN "canceled" ELSE ended[c]]
    /\ UNCHANGED <<unix, cycle, diagVars, at, proc, child, killed,
                   failed, cut, fileVars, verdict>>

(* The next cycle starts when the workers of this one are joined. *)
NewCycle ==
    /\ cancelled /\ cycle < MaxCycles /\ \A c \in Commands : ~InExecute(c)
    /\ cancelled' = FALSE /\ cycle' = cycle + 1
    /\ UNCHANGED <<unix, diagVars, at, runVars, fileVars, verdict>>

(* The per-command deadline, which runs from just before cmd.Run.          *)
DeadlinePasses(c) ==
    /\ Limited /\ at[c] \in {"start", "run", "drain", "classify"} /\ ended[c] = "nil"
    /\ ended' = [ended EXCEPT ![c] = "deadline"]
    /\ UNCHANGED <<ctxVars, diagVars, at, proc, child, killed, failed, cut, fileVars, verdict>>
-----------------------------------------------------------------------------
(* Execute up to the start of the shell. *)

(* A message whose base64 or UTF-16 does not decode has an error result.   *)
BadCommands(c) ==
    /\ at[c] = "idle"
    /\ Goto(c, "done") /\ Return(c, "error")
    /\ UNCHANGED <<ctxVars, diagVars, runVars, fileVars>>

Begin(c) ==
    /\ at[c] = "idle"
    /\ Goto(c, IF Debug THEN "diag" ELSE "create")
    /\ UNCHANGED <<ctxVars, diagVars, runVars, fileVars, verdict>>

(* diagOnce.Do: the first command computes, the others wait for it.        *)
DiagEnter(c) ==
    /\ at[c] = "diag" /\ once = "unset"
    /\ once' = c
    /\ UNCHANGED <<ctxVars, diag, at, runVars, fileVars, verdict>>

(* The shell's version and whoami ran under the context of this command;   *)
(* what a cancelled one left is cached like a good answer.  DiagAnswers    *)
(* has no fairness: the two subprocesses may hang.  Mutant: a failure goes *)
(* on without leaving Do.                                                  *)
DiagAnswers(c) ==
    /\ at[c] = "diag" /\ once = c
    /\ once' = "done" /\ diag' = "values" /\ Goto(c, "create")
    /\ UNCHANGED <<ctxVars, runVars, fileVars, verdict>>
DiagFailsInDo(c) ==
    /\ at[c] = "diag" /\ once = c /\ cancelled
    /\ diag' = "empty" /\ Goto(c, "create")
    /\ UNCHANGED <<ctxVars, once, runVars, fileVars, verdict>>
DiagFails(c) ==
    /\ at[c] = "diag" /\ once = c /\ cancelled
    /\ once' = "done" /\ diag' = "empty" /\ Goto(c, "create")
    /\ UNCHANGED <<ctxVars, runVars, fileVars, verdict>>

DiagCached(c) ==
    /\ at[c] = "diag" /\ once = "done"
    /\ Goto(c, "create")
    /\ UNCHANGED <<ctxVars, diagVars, runVars, fileVars, verdict>>

(* MkdirAll and CreateTemp. *)
CreateFails(c) ==
    /\ at[c] = "create"
    /\ Goto(c, "done") /\ Return(c, "error")
    /\ UNCHANGED <<ctxVars, diagVars, runVars, fileVars>>
Create(c) ==
    /\ at[c] = "create"
    /\ script' = [script EXCEPT ![c] = "fresh"]
    /\ Goto(c, "write")
    /\ UNCHANGED <<ctxVars, diagVars, runVars, unremoved, verdict>>

(* The BOM, the commands, the explicit Close: any of them may fail.        *)
(* Mutant: the file is not removed then.                                   *)
WriteFailsKeepsFile(c) ==
    /\ at[c] = "write"
    /\ Goto(c, "done") /\ Return(c, "error")
    /\ UNCHANGED <<ctxVars, diagVars, runVars, fileVars>>
WriteFails(c) ==
    /\ at[c] = "write"
    /\ Goto(c, "cleanup") /\ Return(c, "error")
    /\ UNCHANGED <<ctxVars, diagVars, runVars, fileVars>>

(* execCtx is made: it is done from the start when its parent is.          *)
Write(c) ==
    /\ at[c] = "write"
    /\ Goto(c, "start")
    /\ ended' = [ended EXCEPT ![c] = IF cancelled THEN "canceled" ELSE "nil"]
    /\ UNCHANGED <<ctxVars, diagVars, proc, child, killed, failed, cut, fileVars, verdict>>
-----------------------------------------------------------------------------
(* cmd.Run.  *)

(* Start looks at the context; without it the fork or the exec may fail.   *)
StartFails(c) ==
    /\ at[c] = "start"
    /\ failed' = [failed EXCEPT ![c] = TRUE]
    /\ Goto(c, "classify")
    /\ UNCHANGED <<ctxVars, diagVars, proc, child, ended, killed, cut, fileVars, verdict>>
Start(c) ==
    /\ at[c] = "start" /\ ended[c] = "nil"
    /\ proc' = [proc EXCEPT ![c] = "running"]
    /\ Goto(c, "run")
    /\ UNCHANGED <<ctxVars, diagVars, child, ended, killed, failed, cut, fileVars, verdict>>

(* The shell starts a process that inherits its output. *)
ShellForks(c) ==
    /\ Live(c) /\ ~child[c]
    /\ child' = [child EXCEPT ![c] = TRUE]
    /\ UNCHANGED <<ctxVars, diagVars, at, proc, ended, killed, failed, cut, fileVars, verdict>>

ShellExits(c) ==
    /\ Live(c)
    /\ \E p \in {"exit0", "exit1"} : proc' = [proc EXCEPT ![c] = p]
    /\ UNCHANGED <<ctxVars, diagVars, at, child, ended, killed, failed, cut, fileVars, verdict>>

ChildExits(c) ==
    /\ child[c]
    /\ child' = [child EXCEPT ![c] = FALSE]
    /\ UNCHANGED <<ctxVars, diagVars, at, proc, ended, killed, failed, cut, fileVars, verdict>>

(* cmd.Cancel, called once when execCtx ends before the shell is reaped.   *)
(* On Unix it kills the group; a shell that has exited but is not reaped   *)
(* is still a member, so the call succeeds.  On Windows Process.Kill finds *)
(* it finished, which os/exec does not report.                             *)
Cancel(c) ==
    /\ at[c] = "run" /\ ended[c] # "nil" /\ ~killed[c] /\ (unix \/ Live(c))
    /\ proc' = [proc EXCEPT ![c] = IF Live(c) THEN "killed" ELSE @]
    /\ child' = [child EXCEPT ![c] = @ /\ ~unix]
    /\ killed' = [killed EXCEPT ![c] = TRUE]
    /\ UNCHANGED <<ctxVars, diagVars, at, ended, failed, cut, fileVars, verdict>>

(* Wait reaps the shell, then joins the copiers. *)
Reap(c) ==
    /\ at[c] = "run" /\ ~Live(c)
    /\ failed' = [failed EXCEPT ![c] = killed[c] \/ proc[c] # "exit0"]
    /\ Goto(c, "drain")
    /\ UNCHANGED <<ctxVars, diagVars, proc, child, ended, killed, cut, fileVars, verdict>>

OutputEnds(c) ==
    /\ at[c] = "drain" /\ ~child[c]
    /\ Goto(c, "classify")
    /\ UNCHANGED <<ctxVars, diagVars, runVars, fileVars, verdict>>

(* The delay runs from the end of the context or the exit of the shell,    *)
(* whichever is first: also for a command that ended by itself, which      *)
(* fails with ErrWaitDelay then.  Mutant: no WaitDelay is set.             *)
NoDelay(c)   == FALSE
HeldPipe(c) == at[c] = "drain" /\ child[c]
WaitDelayElapses(c) ==
    /\ HeldPipe(c)
    /\ failed' = [failed EXCEPT ![c] = TRUE] /\ cut' = [cut EXCEPT ![c] = TRUE]
    /\ Goto(c, "classify")
    /\ UNCHANGED <<ctxVars, diagVars, proc, child, ended, killed, fileVars, verdict>>
-----------------------------------------------------------------------------
(* The result.  A completed and a failed command are told apart by the log *)
(* only: both results carry stdout and stderr and nothing else.            *)

(* Mutant: the exit code is asked instead of the error of Run. *)
ExitCodeZero(c) == proc[c] = "exit0"
Succeeded(c) == ~failed[c]

TimedOut(c) == ~Succeeded(c) /\ ended[c] = "deadline" /\ ~cancelled

Classify(c) ==
    /\ at[c] = "classify"
    /\ Return(c, IF Succeeded(c) THEN "completed"
                 ELSE IF TimedOut(c) THEN "timedout" ELSE "failed")
    /\ Goto(c, "cleanup")
    /\ UNCHANGED <<ctxVars, diagVars, runVars, fileVars>>

(* The deferred Close and Remove, and the end of the deadline's timer.     *)
EndContext(S) ==
    /\ ended'  = [c \in Commands |-> IF c \in S THEN "nil" ELSE ended[c]]
    /\ failed' = [c \in Commands |-> failed[c] /\ c \notin S]

Cleanup(c) ==
    /\ at[c] = "cleanup"
    /\ script' = [script EXCEPT ![c] = "none"]
    /\ EndContext({c}) /\ Goto(c, "done")
    /\ UNCHANGED <<ctxVars, diagVars, proc, child, killed, cut, unremoved, verdict>>
CleanupFails(c) ==
    /\ at[c] = "cleanup"
    /\ unremoved' = unremoved \cup {c}
    /\ EndContext({c}) /\ Goto(c, "done")
    /\ UNCHANGED <<ctxVars, diagVars, proc, child, killed, cut, script, verdict>>
-----------------------------------------------------------------------------
(* Crashes and the sweep. *)

(* A script gets older than DefaultStaleScriptAge: left on disk, or while  *)
(* its command runs, for without a deadline a command is unbounded.        *)
Ages(c) ==
    /\ script[c] = "fresh" /\ (~InExecute(c) \/ Live(c))
    /\ script' = [script EXCEPT ![c] = "old"]
    /\ UNCHANGED <<ctxVars, diagVars, at, runVars, unremoved, verdict>>

(* What SweepStaleScripts may remove: every matching regular file that is  *)
(* older than the threshold.                                               *)
Stale(c) == script[c] = "old"

(* The agent is killed and started again.  The shells are in groups of     *)
(* their own and go on.  The new process sweeps before it connects; a file *)
(* that cannot be removed is skipped.                                      *)
CrashAndSweep ==
    /\ cycle < MaxCycles
    /\ cycle' = cycle + 1 /\ cancelled' = FALSE /\ once' = "unset" /\ diag' = "none"
    /\ at' = [c \in Commands |-> IF InExecute(c) THEN "lost" ELSE at[c]]
    /\ \E skipped \in SUBSET {c \in Commands : Stale(c)} :
         script' = [c \in Commands |-> IF Stale(c) /\ c \notin skipped THEN "none"
                                       ELSE script[c]]
    /\ EndContext({c \in Commands : InExecute(c)})
    /\ UNCHANGED <<unix, proc, child, killed, cut, unremoved, verdict>>
-----------------------------------------------------------------------------
(* What Execute and os/exec do without anybody's help. *)
Step(c) ==
    \/ BadCommands(c) \/ Begin(c)
    \/ DiagEnter(c) \/ DiagFails(c) \/ DiagCached(c)
    \/ CreateFails(c) \/ Create(c) \/ WriteFails(c) \/ Write(c)
    \/ StartFails(c) \/ Start(c)
    \/ Cancel(c) \/ Reap(c) \/ OutputEnds(c) \/ WaitDelayElapses(c)
    \/ Classify(c) \/ Cleanup(c) \/ CleanupFails(c)

(* What the processes, the clock and the connection do. *)
Environment ==
    \/ \E c \in Commands : \/ DiagAnswers(c) \/ DeadlinePasses(c) \/ Ages(c)
                           \/ ShellForks(c) \/ ShellExits(c) \/ ChildExits(c)
    \/ CancelCycle \/ NewCycle \/ CrashAndSweep

Next == Environment \/ \E c \in Commands : Step(c)

Spec == Init /\ [][Next]_vars

(* Execute is never held up for good at a place where it can go on.  The   *)
(* shells, the cycle and the clock have no fairness.                       *)
FairSpec == Spec /\ \A c \in Commands : WF_vars(Step(c))
-----------------------------------------------------------------------------
(* "Command completed" is logged only for a shell that exited with 0 by    *)
(* itself and whose whole output was read (the err of cmd.Run,             *)
(* base_executor.go:234).                                                  *)
CompletedIsGenuine ==
    \A c \in Commands : verdict[c] = "completed" =>
        proc[c] = "exit0" /\ ~killed[c] /\ ~cut[c]

(* A script is on disk only while its Execute is under way, after a crash  *)
(* in it, or when its own removal failed: every other exit path of Execute *)
(* removes it (the deferred cleanup, base_executor.go:139).                *)
ScriptAccounted ==
    \A c \in Commands : script[c] # "none" =>
        \/ at[c] \in {"write", "start", "run", "drain", "classify", "cleanup", "lost"}
        \/ c \in unremoved

(* A worker is released once the cycle ends or the deadline passes, even   *)
(* when the shell, its child or the diagnostics hang (the comment on       *)
(* WaitDelay, base_executor.go:205).                                       *)
WorkerReleased ==
    \A c \in Commands :
        InExecute(c) /\ (cancelled \/ ended[c] # "nil") ~> ~InExecute(c)
=============================================================================
